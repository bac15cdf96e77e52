--------------------------- MODULE PersonalStore ---------------------------
(***************************************************************************)
(* The store of the personal edition: an in-memory store, written through  *)
(* to one SQLite row, and the embedded data plane that follows it.         *)
(*                                                                         *)
(* A store call changes the maps of the in-memory store one lock at a      *)
(* time, bumps the revision, and then persists: full exports of the maps   *)
(* are written under persist_lock, and a generation counter lets a call    *)
(* return without a write of its own when a later export already covers    *)
(* it. After a write the revision is sent on a watch channel; the sync     *)
(* task of the single binary answers with a snapshot of the maps that the  *)
(* data plane applies if its revision is new. The maps are read without a  *)
(* common lock by exports and snapshots alike.                             *)
(*                                                                         *)
(* A change is the number of the call that made it; a map is the set of    *)
(* changes it has seen. Change 0 is the removal of an expired account.     *)
(***************************************************************************)
EXTENDS Integers, Sequences

CONSTANTS
    Callers,    \* concurrent store calls: API handlers and background loops
    MaxCalls,   \* bound on the calls
    Kinds,      \* bound: what the first call may be, the second, and so on
    MaxFaults   \* bound on failing writes and on restarts of the process

AllKinds == {"create", "refresh", "touch", "list"}

ASSUME StoreAssumption ==
    /\ MaxCalls \in Nat /\ MaxFaults \in Nat
    /\ Kinds \in [1..MaxCalls -> SUBSET AllKinds]

VARIABLES
    maps,        \* the maps of the in-memory store
    revision,    \* InMemoryStore::revision
    generation,  \* persist_generation
    persisted,   \* persisted_generation
    lock,        \* persist_lock is held
    row,         \* the control_plane_state row
    watch,       \* the revision channel as its one receiver sees it
    pc, op, at,  \* the calls: where they are, what they do, the map they are at
    export,      \* what a persisting call has read so far
    sync,        \* the snapshot sync task
    dataPlane,   \* the applied snapshot and its revision
    due,         \* the one-time account has expired
    acked,       \* history: the changes of calls that returned Ok, by map
    calls, faults

memory == <<maps, revision>>
persisting == <<generation, persisted, lock, export>>
following == <<watch, sync, dataPlane>>
history == <<due, acked, calls, faults>>
vars == <<memory, persisting, following, history, row, pc, op, at>>

\* "accounts" is a map of its own; "details" stands for the others an account
\* has entries in: providers, credentials, profiles, health states, limits.
Maps == {"accounts", "details"}

Changes == 0..MaxCalls

Contents == [Maps -> SUBSET Changes]

Empty == [t \in Maps |-> {}]

NoOp == [kind |-> "list", id |-> 0, before |-> 0]

NoExport == [maps |-> Empty, revision |-> 0, pending |-> 0]

\* At the start of the process the sync task is in its first snapshot.
Booting == [pc |-> "read", next |-> "details", last |-> 0, boot |-> TRUE,
            maps |-> Empty, revision |-> 0]

\* SqliteBackedStore::connect on the row, with an empty data plane.
Init ==
    /\ maps = Empty /\ revision = 1
    /\ row = [maps |-> Empty, revision |-> 1]
    /\ generation = 1 /\ persisted = 1 /\ lock = FALSE
    /\ watch = [value |-> 1, changed |-> FALSE]
    /\ pc = [m \in Callers |-> "idle"] /\ op = [m \in Callers |-> NoOp]
    /\ at = [m \in Callers |-> 1] /\ export = [m \in Callers |-> NoExport]
    /\ sync = Booting
    /\ dataPlane = [maps |-> Empty, revision |-> 0]
    /\ due = FALSE /\ acked = Empty
    /\ calls = 0 /\ faults = 0

-----------------------------------------------------------------------------
(* The in-memory store.                                                    *)

\* The maps a call of each kind writes, in the order of its statements:
\* create_upstream_account_inner, the success arm of refresh_oauth_account_inner
\* and mark_account_seen_ok_inner.
WriteOrder ==
    [create  |-> <<"accounts", "details">>,
     refresh |-> <<"details", "accounts">>,
     touch   |-> <<"details">>,
     list    |-> <<>>]

Goto(m, where) == pc' = [pc EXCEPT ![m] = where]

\* The call returns, with Ok or with an error.
Return(m) ==
    /\ Goto(m, "idle")
    /\ op' = [op EXCEPT ![m] = NoOp]

Acknowledge(m) ==
    /\ Return(m)
    /\ acked' = [t \in Maps |->
                    IF \E i \in DOMAIN WriteOrder[op[m].kind] : WriteOrder[op[m].kind][i] = t
                    THEN acked[t] \cup {op[m].id} ELSE acked[t]]

BeginCall(m, k) ==
    /\ pc[m] = "idle" /\ calls < MaxCalls /\ k \in Kinds[calls + 1]
    /\ calls' = calls + 1
    /\ op' = [op EXCEPT ![m] = [kind |-> k, id |-> calls + 1,
                                 before |-> IF k = "list" THEN revision ELSE 0]]
    /\ Goto(m, IF k = "list" THEN "purge" ELSE "write")
    /\ UNCHANGED <<memory, persisting, following, row, at, due, acked, faults>>

WriteMap(m) ==
    /\ pc[m] = "write"
    /\ LET order == WriteOrder[op[m].kind]
           t     == order[at[m]]
       IN  /\ maps' = [maps EXCEPT ![t] = maps[t] \cup {op[m].id}]
           /\ IF at[m] < Len(order)
              THEN at' = [at EXCEPT ![m] = at[m] + 1] /\ UNCHANGED pc
              ELSE at' = [at EXCEPT ![m] = 1] /\ Goto(m, IF op[m].kind = "touch" THEN "mark" ELSE "bump")
    /\ UNCHANGED <<revision, persisting, following, history, row, op>>

BumpRevision(m) ==
    /\ pc[m] = "bump"
    /\ revision' = revision + 1
    /\ Goto(m, "mark")
    /\ UNCHANGED <<maps, persisting, following, history, row, op, at>>

\* purge_expired_one_time_accounts_inner: the expired profiles are looked up,
\* then the entries go under the locks of all maps, then the revision follows.
\* (Two removals at once bump the revision twice and do nothing else.)
Expired == due /\ 0 \notin maps["details"]

Removed == [t \in Maps |-> maps[t] \cup {0}]

RemoveExpired(m) ==
    /\ pc[m] = "purge" /\ Expired
    /\ maps' = Removed
    /\ Goto(m, "purged")
    /\ UNCHANGED <<revision, persisting, following, history, row, op, at>>

BumpPurged(m) ==
    /\ pc[m] = "purged"
    /\ revision' = revision + 1
    /\ Goto(m, "purge")
    /\ UNCHANGED <<maps, persisting, following, history, row, op, at>>

\* persist_if_revision_changed of list_upstream_accounts.
PersistIfRevisionChanged(m) ==
    /\ pc[m] = "purge" /\ ~Expired
    /\ IF revision # op[m].before
       THEN Goto(m, "mark") /\ UNCHANGED <<acked, op>>
       ELSE Acknowledge(m)
    /\ UNCHANGED <<memory, persisting, following, due, calls, faults, row, at>>

TokenExpires ==
    /\ ~due
    /\ due' = TRUE
    /\ UNCHANGED <<memory, persisting, following, row, pc, op, at, acked, calls, faults>>

-----------------------------------------------------------------------------
(* Persistence: persist_state_after_write and persist_state.               *)

MarkPersistPending(m) ==
    /\ pc[m] = "mark"
    /\ generation' = generation + 1
    /\ Goto(m, "check")
    /\ UNCHANGED <<memory, persisted, lock, export, following, history, row, op, at>>

AlreadyPersisted == generation <= persisted

CheckPersisted(m) ==
    /\ pc[m] = "check"
    /\ IF AlreadyPersisted
       THEN Acknowledge(m)
       ELSE Goto(m, "lock") /\ UNCHANGED <<acked, op>>
    /\ UNCHANGED <<memory, persisting, following, due, calls, faults, row, at>>

\* Mutant: exports are not serialised.
LockIgnored == TRUE

LockIsFree == ~lock

\* The lock is taken and the generation is compared again.
TakeLock(m) ==
    /\ pc[m] = "lock" /\ LockIsFree
    /\ IF AlreadyPersisted
       THEN /\ Acknowledge(m)
            /\ UNCHANGED <<lock, export>>
       ELSE /\ Goto(m, "export")
            /\ lock' = TRUE
            /\ export' = [export EXCEPT ![m] =
                            [maps |-> Empty, revision |-> 0, pending |-> generation]]
            /\ UNCHANGED <<acked, op>>
    /\ UNCHANGED <<memory, generation, persisted, following, due, calls, faults, row, at>>

\* The order in which export_sqlite_state reads the maps; the revision is last.
ExportOrder == <<"accounts", "details">>

MapsAreLeft(m) == at[m] < Len(ExportOrder)

ExportMap(m) ==
    /\ pc[m] = "export"
    /\ LET t == ExportOrder[at[m]]
       IN  export' = [export EXCEPT ![m] =
                        [maps     |-> [export[m].maps EXCEPT ![t] = maps[t]],
                         revision |-> 0,
                         pending  |-> export[m].pending]]
    /\ IF MapsAreLeft(m)
       THEN at' = [at EXCEPT ![m] = at[m] + 1] /\ UNCHANGED pc
       ELSE at' = [at EXCEPT ![m] = 1] /\ Goto(m, "revision")
    /\ UNCHANGED <<memory, generation, persisted, lock, following, history, row, op>>

ExportRevision(m) ==
    /\ pc[m] = "revision"
    /\ export' = [export EXCEPT ![m] =
                    [maps |-> export[m].maps, revision |-> revision,
                     pending |-> export[m].pending]]
    /\ Goto(m, "store")
    /\ UNCHANGED <<memory, generation, persisted, lock, following, history, row, op, at>>

StoreRow(m) ==
    /\ pc[m] = "store"
    /\ row' = [maps |-> export[m].maps, revision |-> export[m].revision]
    /\ Goto(m, "publish")
    /\ UNCHANGED <<memory, persisting, following, history, op, at>>

\* The statement fails: the call returns the error, memory keeps the change.
StoreFails(m) ==
    /\ pc[m] = "store" /\ faults < MaxFaults
    /\ faults' = faults + 1
    /\ lock' = FALSE
    /\ export' = [export EXCEPT ![m] = NoExport]
    /\ Return(m)
    /\ UNCHANGED <<memory, generation, persisted, following, due, acked, calls, row, at>>

\* Mutant: the generation is read after the write instead of before the export.
PublishLatest(m) ==
    /\ pc[m] = "publish"
    /\ persisted' = generation
    /\ Goto(m, "send")
    /\ UNCHANGED <<memory, generation, lock, export, following, history, row, op, at>>

PublishGeneration(m) ==
    /\ pc[m] = "publish"
    /\ persisted' = export[m].pending
    /\ Goto(m, "send")
    /\ UNCHANGED <<memory, generation, lock, export, following, history, row, op, at>>

\* A watch channel without a receiver keeps its value.
Subscribed == ~sync.boot

SendRevision(m) ==
    /\ pc[m] = "send"
    /\ watch' = IF Subscribed THEN [value |-> export[m].revision, changed |-> TRUE] ELSE watch
    /\ lock' = FALSE
    /\ export' = [export EXCEPT ![m] = NoExport]
    /\ Acknowledge(m)
    /\ UNCHANGED <<memory, generation, persisted, sync, dataPlane, due, calls, faults, row, at>>

-----------------------------------------------------------------------------
(* The sync task of merge_personal_single_binary_app and snapshot_inner,   *)
(* which it calls. snapshot_inner purges, reads the details, purges again  *)
(* in list_upstream_accounts_inner, reads the accounts, and the revision.  *)

SyncGoto(where) == sync' = [sync EXCEPT !.pc = where]

SyncRemoveExpired ==
    /\ sync.pc = "read" /\ Expired
    /\ maps' = Removed
    /\ SyncGoto("purged")
    /\ UNCHANGED <<revision, persisting, watch, dataPlane, history, row, pc, op, at>>

SyncBumpPurged ==
    /\ sync.pc = "purged"
    /\ revision' = revision + 1
    /\ SyncGoto("read")
    /\ UNCHANGED <<maps, persisting, watch, dataPlane, history, row, pc, op, at>>

SnapshotMap ==
    /\ sync.pc = "read" /\ ~Expired
    /\ sync' = [sync EXCEPT !.maps = [sync.maps EXCEPT ![sync.next] = maps[sync.next]],
                            !.pc = IF sync.next = "details" THEN "read" ELSE "revision",
                            !.next = IF sync.next = "details" THEN "accounts" ELSE "details"]
    /\ UNCHANGED <<memory, persisting, watch, dataPlane, history, row, pc, op, at>>

SnapshotRevision ==
    /\ sync.pc = "revision"
    /\ sync' = [sync EXCEPT !.revision = revision, !.pc = "apply"]
    /\ UNCHANGED <<memory, persisting, watch, dataPlane, history, row, pc, op, at>>

IsNewer(r) == r > dataPlane.revision

\* AppState::apply_snapshot; the cursor of these snapshots is their revision.
ApplySnapshot ==
    /\ sync.pc = "apply"
    /\ dataPlane' = IF IsNewer(sync.revision)
                    THEN [maps |-> sync.maps, revision |-> sync.revision]
                    ELSE dataPlane
    /\ sync' = [sync EXCEPT !.pc = IF sync.boot THEN "subscribe" ELSE "wait",
                            !.maps = Empty, !.revision = 0]
    /\ UNCHANGED <<memory, persisting, watch, history, row, pc, op, at>>

\* The receiver exists before the task that reads from it first runs.
SubscribeRevisions ==
    /\ sync.pc = "subscribe"
    /\ sync' = [sync EXCEPT !.boot = FALSE, !.pc = "start"]
    /\ UNCHANGED <<memory, persisting, watch, dataPlane, history, row, pc, op, at>>

\* revision_rx.borrow() leaves the change unseen.
BorrowFirst ==
    /\ sync.pc = "start"
    /\ sync' = [sync EXCEPT !.last = watch.value, !.pc = "wait"]
    /\ UNCHANGED <<memory, persisting, watch, dataPlane, history, row, pc, op, at>>

\* A revision sent between changed() and borrow() is as one sent before both,
\* but for a wake-up that finds nothing new.
RevisionChanged ==
    /\ sync.pc = "wait" /\ watch.changed
    /\ watch' = [watch EXCEPT !.changed = FALSE]
    /\ sync' = IF watch.value <= sync.last THEN sync
               ELSE [sync EXCEPT !.last = watch.value, !.pc = "read"]
    /\ UNCHANGED <<memory, persisting, dataPlane, history, row, pc, op, at>>

-----------------------------------------------------------------------------
\* The process dies and starts again from the row: connect, from_sqlite_state.
Restart ==
    /\ faults < MaxFaults
    /\ faults' = faults + 1
    /\ maps' = row.maps /\ revision' = row.revision
    /\ generation' = row.revision /\ persisted' = row.revision /\ lock' = FALSE
    /\ watch' = [value |-> row.revision, changed |-> FALSE]
    /\ pc' = [m \in Callers |-> "idle"]
    /\ export' = [m \in Callers |-> NoExport]
    /\ sync' = Booting
    /\ dataPlane' = [maps |-> Empty, revision |-> 0]
    /\ op' = [m \in Callers |-> NoOp] /\ at' = [m \in Callers |-> 1]
    /\ UNCHANGED <<row, due, acked, calls>>

CallStep(m) ==
    \/ WriteMap(m) \/ BumpRevision(m)
    \/ RemoveExpired(m) \/ BumpPurged(m) \/ PersistIfRevisionChanged(m)
    \/ MarkPersistPending(m) \/ CheckPersisted(m) \/ TakeLock(m)
    \/ ExportMap(m) \/ ExportRevision(m) \/ StoreRow(m)
    \/ PublishGeneration(m) \/ SendRevision(m)

SyncStep ==
    \/ SyncRemoveExpired \/ SyncBumpPurged
    \/ SnapshotMap \/ SnapshotRevision \/ ApplySnapshot
    \/ SubscribeRevisions \/ BorrowFirst \/ RevisionChanged

Next ==
    \/ \E m \in Callers :
        \/ \E k \in AllKinds : BeginCall(m, k)
        \/ CallStep(m)
        \/ StoreFails(m)
    \/ SyncStep
    \/ TokenExpires
    \/ Restart

SafetySpec == Init /\ [][Next]_vars

\* The runtime polls every task that can run; persist_lock is a fair mutex.
Spec ==
    /\ SafetySpec
    /\ \A m \in Callers : WF_vars(CallStep(m))
    /\ WF_vars(SyncStep)

-----------------------------------------------------------------------------
\* A call that returned Ok is on disk: whatever it wrote is in the row, also
\* when it returned without a write of its own (persist_state, 293-340).
AckedIsDurable == \A t \in Maps : acked[t] \subseteq row.maps[t]

\* The full-state writes never overwrite a newer row with an older export:
\* no change leaves the row once it is in, and its revision never falls.
RowKeepsChanges ==
    [][/\ \A t \in Maps : row.maps[t] \subseteq row'.maps[t]
       /\ row'.revision >= row.revision]_vars

=============================================================================
