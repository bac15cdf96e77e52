--------------------------- MODULE SnapshotOutbox ---------------------------
(***************************************************************************)
(* How a data plane of the Postgres edition follows the control plane.     *)
(* A control-plane transaction changes an item (an upstream account, or    *)
(* the bundle of plan and settings a RoutingPlanRefresh event stands for), *)
(* marks the snapshot state dirty and appends an event to                  *)
(* data_plane_outbox; a loop turns dirty into the next revision, another   *)
(* one deletes old events.  The SnapshotPoller of the data plane loads a   *)
(* full snapshot, long-polls for the events after its cursor, and loads a  *)
(* full snapshot again when the control plane answers 410 cursor_gone.     *)
(*                                                                         *)
(* An item is the number of changes made to it; a deletion is its last     *)
(* change.  Events carry no data: the account is read when the event is    *)
(* handed out.  Event ids come from a Postgres sequence, so they are taken *)
(* before the transaction commits and in no relation to commit order.      *)
(***************************************************************************)
EXTENDS Naturals

CONSTANTS Items,      \* what events are about
          Writers,    \* control-plane transactions that may run at once
          Limit,      \* the events limit of one poll
          MaxEvents,  \* bound: ids taken from the sequence
          Budgets     \* bounds: ids, ticks of the cleanup loop that delete something,
                      \* lost responses and restarts of the data plane

ASSUME OutboxAssumption ==
    /\ Items # {}
    /\ Limit \in Nat \ {0}
    /\ MaxEvents \in Nat
    /\ Budgets \subseteq [ids : 1..MaxEvents, cleanups : Nat, faults : Nat]

VARIABLES stored,     \* committed state of each item
          outbox,     \* committed events
          nextId,     \* the id sequence of data_plane_outbox
          revision,   \* snapshot_state.revision
          dirty,      \* snapshot_state.dirty
          tx,         \* each writer's transaction
          local,      \* AppState of the data plane: items, revision, cursor
          pc,         \* where SnapshotPoller::run is
          answer,     \* what the request in flight has read so far
          newest,     \* id of each item's newest event, deleted or not; 0: none yet
          late,       \* items whose newest event committed behind the data plane's back
          missed,     \* items whose newest event was deleted and is not looked for
          lastId, cleanups, faults   \* what is left of the bounds

database == <<stored, outbox, nextId, revision, dirty>>
history == <<newest, late, missed, lastId>>
vars == <<stored, outbox, nextId, revision, dirty, tx, local, pc, answer,
          newest, late, missed, lastId, cleanups, faults>>

Events == [id : 1..MaxEvents, item : Items]
Nothing == [i \in Items |-> 0]

NoTx == [at |-> "idle", id |-> 0, item |-> CHOOSE i \in Items : TRUE, marks |-> FALSE]
\* batch: events still to be loaded; loaded: the items loaded for the others, 0: none.
NoAnswer == [again |-> FALSE, revision |-> 0, cursor |-> 0, items |-> Nothing,
             batch |-> {}, loaded |-> Nothing]
NoLocal == [items |-> Nothing, revision |-> 0, cursor |-> 0]

Init ==
    /\ stored = Nothing
    /\ outbox = {} /\ nextId = 1
    /\ revision = 1 /\ dirty = FALSE
    /\ tx = [w \in Writers |-> NoTx]
    /\ local = NoLocal
    /\ pc = "loop" /\ answer = NoAnswer
    /\ newest = Nothing /\ late = {} /\ missed = {}
    /\ \E b \in Budgets : lastId = b.ids /\ cleanups = b.cleanups /\ faults = b.faults

Max(S) == CHOOSE x \in S : \A y \in S : y <= x
Min(S) == CHOOSE x \in S : \A y \in S : x <= y

LastId == Max({e.id : e \in outbox} \cup {0})
FirstId == Min({e.id : e \in outbox})

-----------------------------------------------------------------------------
(* What is lost to the data plane.                                         *)

\* Of the events, none is at the place a poll with cursor c starts from, and
\* the poll notices that: it is answered with cursor_gone.
GapShows(c, events) == events # {} /\ \A e \in events : e.id > c + 1

\* The data plane, or the snapshot on its way to it, lacks the newest state.
Behind(i) ==
    \/ local.revision # 0 /\ local.items[i] < stored[i]
    \/ pc = "apply" /\ answer.items[i] < stored[i]

\* The newest event of item i, of id n, is not among the events; a poll with
\* the cursor the data plane has, or is about to have, does not notice.
Vanished(i, n, events) ==
    /\ Behind(i) /\ n > local.cursor
    /\ ~\E e \in events : e.item = i /\ e.id = n
    /\ \/ ~GapShows(local.cursor, events)
       \/ pc \in {"apply", "load", "answer"} /\ n > answer.cursor /\ ~GapShows(answer.cursor, events)

\* The request in flight, or the one after an empty snapshot, does not notice
\* that events disappear now.
Unwatched == pc = "rows" \/ (local.cursor = 0 /\ pc # "loop")

-----------------------------------------------------------------------------
(* Transactions of the control plane.                                      *)

\* bump_revision_tx.  A clean state is marked and its row stays locked until the
\* end; a second transaction waits for that lock.  A state seen dirty is left.
BumpRevision(w, i) ==
    /\ dirty \/ \A v \in Writers : ~tx[v].marks
    /\ tx' = [tx EXCEPT ![w] = [at |-> "append", id |-> 0, item |-> i, marks |-> ~dirty]]

\* UPDATE or INSERT of the item, whose row stays locked too.
ChangeItem(w, i) ==
    /\ tx[w].at = "idle" /\ nextId <= lastId
    /\ \A v \in Writers : tx[v].at # "idle" => tx[v].item # i
    /\ BumpRevision(w, i)
    /\ UNCHANGED <<database, local, pc, answer, history, cleanups, faults>>

NextEventId == nextId

\* append_data_plane_outbox_event_tx; invisible until the commit.
AppendEvent(w) ==
    /\ tx[w].at = "append" /\ nextId <= lastId
    /\ tx' = [tx EXCEPT ![w].at = "commit", ![w].id = NextEventId]
    /\ nextId' = nextId + 1
    /\ UNCHANGED <<stored, outbox, revision, dirty, local, pc, answer, history,
                   cleanups, faults>>

\* The event may come below a cursor that was read already, and may fill the
\* gap that deleted events left.
Commit(w) ==
    LET i == tx[w].item
        n == tx[w].id
    IN  /\ tx[w].at = "commit"
        /\ stored' = [stored EXCEPT ![i] = @ + 1]
        /\ outbox' = outbox \cup {[id |-> n, item |-> i]}
        /\ dirty' = (dirty \/ tx[w].marks)
        /\ newest' = [newest EXCEPT ![i] = n]
        /\ late' = IF n <= local.cursor \/ n <= answer.cursor THEN late \cup {i} ELSE late \ {i}
        /\ missed' = (missed \cup {j \in Items : Vanished(j, newest[j], outbox')}) \ {i}
        /\ tx' = [tx EXCEPT ![w] = NoTx]
        /\ UNCHANGED <<nextId, revision, local, pc, answer, lastId, cleanups, faults>>

\* Any statement may fail; the id is used up.
Rollback(w) ==
    /\ tx[w].at # "idle"
    /\ tx' = [tx EXCEPT ![w] = NoTx]
    /\ UNCHANGED <<database, local, pc, answer, history, cleanups, faults>>

-----------------------------------------------------------------------------
(* The background loops of the control plane.                              *)

\* flush_snapshot_revision_batch: the second round finds nothing to do.
FlushRevision ==
    /\ dirty
    /\ revision' = revision + 1 /\ dirty' = FALSE
    /\ UNCHANGED <<stored, outbox, nextId, tx, local, pc, answer, history, cleanups, faults>>

\* cleanup_data_plane_outbox.  The age of an event is that of its transaction,
\* which may have begun before or after those whose ids are next to its own: what
\* goes is in no relation to the ids, nor to those of open transactions.
CleanupOutbox(left) ==
    /\ left # outbox
    /\ cleanups > 0 /\ cleanups' = cleanups - 1
    /\ outbox' = left
    /\ missed' = missed \cup
          {i \in Items :
             \/ Vanished(i, newest[i], left)
             \/ /\ Unwatched /\ Behind(i) /\ newest[i] > local.cursor
                /\ ~\E e \in left : e.item = i /\ e.id = newest[i]}
    /\ UNCHANGED <<stored, nextId, revision, dirty, tx, local, pc, answer, newest, late, lastId, faults>>

-----------------------------------------------------------------------------
(* Full snapshots: PostgresStore::snapshot_inner reads the revision, the   *)
(* cursor and the items one after the other.                               *)

ReadRevision ==
    /\ pc = "gone" \/ (pc = "loop" /\ local.cursor = 0)
    /\ answer' = [NoAnswer EXCEPT !.again = (pc = "gone"), !.revision = revision]
    /\ pc' = "cursor"
    /\ UNCHANGED <<database, tx, local, history, cleanups, faults>>

ReadCursor ==
    /\ pc = "cursor"
    /\ answer' = [answer EXCEPT !.cursor = LastId]
    /\ pc' = "items"
    /\ UNCHANGED <<database, tx, local, history, cleanups, faults>>

ReadItems ==
    /\ pc = "items"
    /\ answer' = [answer EXCEPT !.items = stored]
    /\ pc' = "apply"
    /\ UNCHANGED <<database, tx, local, history, cleanups, faults>>

IsNewer(s) ==
    \/ s.revision > local.revision
    \/ s.revision = local.revision /\ s.cursor > local.cursor

\* apply_snapshot.  A snapshot asked for at the top of the loop is followed by
\* a poll whatever its cursor, one after cursor_gone by another round.
ApplySnapshot ==
    /\ pc = "apply"
    /\ local' = IF IsNewer(answer)
                THEN [items |-> answer.items, revision |-> answer.revision,
                      cursor |-> answer.cursor]
                ELSE local
    /\ pc' = IF answer.again THEN "loop" ELSE "poll"
    /\ answer' = NoAnswer
    /\ UNCHANGED <<database, tx, history, cleanups, faults>>

-----------------------------------------------------------------------------
(* Polls: data_plane_snapshot_events and load_data_plane_snapshot_events.  *)

ReadHighWatermark ==
    /\ pc = "poll" \/ (pc = "loop" /\ local.cursor > 0)
    /\ answer' = [answer EXCEPT !.cursor = Max({answer.cursor, LastId, local.cursor})]
    /\ pc' = "min"
    /\ UNCHANGED <<database, tx, local, history, cleanups, faults>>

\* Mutant: the poller only polls again after 410.
AfterGoneLoop == "loop"

\* Where SnapshotPoller::run goes on after CursorGone.
AfterGone == "gone"

CheckMinCursor ==
    /\ pc = "min"
    /\ IF local.cursor > 0 /\ outbox # {} /\ local.cursor + 1 < FirstId
         THEN pc' = AfterGone /\ answer' = NoAnswer
         ELSE pc' = "rows" /\ UNCHANGED answer
    /\ UNCHANGED <<database, tx, local, history, cleanups, faults>>

\* S has n members or more.
AtLeast(n, S) == \E f \in [1..n -> S] : \A i, j \in 1..n : f[i] = f[j] => i = j

\* ORDER BY id LIMIT: the oldest events after the cursor.
NextBatch ==
    LET rows == {e \in outbox : e.id > local.cursor}
    IN  {e \in rows : ~AtLeast(Limit, {d \in rows : d.id < e.id})}

\* Mutant: the batch is taken to reach the high watermark.
HighWatermark(batch) == Max({answer.cursor} \cup {e.id : e \in batch})

LastOfBatch(batch) == Max({e.id : e \in batch})

\* Without rows the request is answered when its time is up, and looks again
\* 200 ms later before that.
ReadRows ==
    /\ pc = "rows"
    /\ IF NextBatch = {}
         THEN pc' \in {"poll", "answer"} /\ UNCHANGED answer
         ELSE /\ answer' = [answer EXCEPT !.batch = NextBatch, !.cursor = LastOfBatch(NextBatch)]
              /\ pc' = "load"
    /\ UNCHANGED <<database, tx, local, history, cleanups, faults>>

\* load_snapshot_account_by_id, or nothing for the event of a deletion, which
\* is the last change of its item.
Loaded(e) == stored[e.item]

\* The events in the order of their ids: of two of an item the later load counts.
LoadItem ==
    /\ pc = "load"
    /\ \E e \in answer.batch :
          /\ \A d \in answer.batch : e.id <= d.id
          /\ answer' = [answer EXCEPT !.batch = @ \ {e}, !.loaded[e.item] = Loaded(e)]
          /\ pc' = IF answer.batch = {e} THEN "answer" ELSE "load"
    /\ UNCHANGED <<database, tx, local, history, cleanups, faults>>

\* apply_snapshot_events: the loaded items, then the cursor.
ApplyEvents ==
    /\ pc = "answer"
    /\ local' = [local EXCEPT
           !.items = [i \in Items |-> IF answer.loaded[i] = 0 THEN @[i] ELSE answer.loaded[i]],
           !.cursor = Max({@, answer.cursor})]
    /\ pc' = "loop" /\ answer' = NoAnswer
    /\ UNCHANGED <<database, tx, history, cleanups, faults>>

\* The request or its response is lost, or it fails on the control plane: the
\* poller sleeps and starts over with the cursor it has.  A request only reads,
\* so failing earlier makes no difference.
RequestFails ==
    /\ pc \in {"apply", "answer"} /\ faults > 0
    /\ faults' = faults - 1
    /\ pc' = "loop" /\ answer' = NoAnswer
    /\ UNCHANGED <<database, tx, local, history, cleanups>>

\* The data plane keeps nothing.
RestartDataPlane ==
    /\ faults > 0 /\ faults' = faults - 1
    /\ local' = NoLocal
    /\ pc' = "loop" /\ answer' = NoAnswer
    /\ UNCHANGED <<database, tx, history, cleanups>>

WriterStep(w) ==
    \/ AppendEvent(w)
    \/ Commit(w)
    \/ Rollback(w)

PollerStep ==
    \/ ReadRevision
    \/ ReadCursor
    \/ ReadItems
    \/ ApplySnapshot
    \/ ReadHighWatermark
    \/ CheckMinCursor
    \/ ReadRows
    \/ LoadItem
    \/ ApplyEvents

Next ==
    \/ \E w \in Writers : WriterStep(w) \/ \E i \in Items : ChangeItem(w, i)
    \/ FlushRevision
    \/ \E left \in SUBSET outbox : CleanupOutbox(left)
    \/ PollerStep
    \/ RequestFails
    \/ RestartDataPlane

SafetySpec == Init /\ [][Next]_vars

\* The poller is a task that never ends, and a transaction is committed or
\* rolled back in the end.
Spec == SafetySpec /\ WF_vars(PollerStep) /\ \A w \in Writers : WF_vars(WriterStep(w))

-----------------------------------------------------------------------------
Cursors == 0..MaxEvents
Transaction == [at : {"idle", "append", "commit"}, id : Cursors, item : Items, marks : BOOLEAN]

\* Types of the database, the transactions and the poller's state.
OutboxTypeOK ==
    /\ stored \in [Items -> Nat]
    /\ outbox \subseteq Events
    /\ nextId \in 1..(MaxEvents + 1)
    /\ revision \in Nat /\ dirty \in BOOLEAN
    /\ tx \in [Writers -> Transaction]
    /\ local \in [items : [Items -> Nat], revision : Nat, cursor : Cursors]
    /\ pc \in {"loop", "gone", "cursor", "items", "apply", "poll", "min", "rows",
               "load", "answer"}
    /\ answer \in [again : BOOLEAN, revision : Nat, cursor : Cursors,
                   items : [Items -> Nat], batch : SUBSET Events, loaded : [Items -> Nat]]
    /\ newest \in [Items -> Cursors]
    /\ late \subseteq Items /\ missed \subseteq Items
    /\ lastId \in 1..MaxEvents /\ cleanups \in Nat /\ faults \in Nat

Pending(i) == \E e \in outbox : e.item = i /\ e.id > local.cursor
GoneIsNoticed == GapShows(local.cursor, outbox)

\* The two ways an update can be lost: its transaction committed under an id
\* the data plane's cursor, or the one of the request in flight, was past
\* already; or a cleanup deleted its event before the data plane had it, and
\* what is in the outbox does not show the gap to the next poll.
Lost(i) == i \in late \cup missed

\* An item the data plane is behind on is announced by an event after its
\* cursor, or the next poll is answered with cursor_gone, or the first snapshot
\* is still to come - but for the updates of Lost.  The order of the reads in
\* snapshot_inner, the cursor of a limited batch and the 410 answer make it so.
BehindIsPending ==
    \A i \in Items : local.items[i] < stored[i] =>
        \/ local.revision = 0
        \/ Pending(i)
        \/ GoneIsNoticed
        \/ Lost(i)

\* Snapshots and events, applied in the order the poller receives them, never
\* take an item back to an older state unless the data plane restarts: accounts
\* are read when an event is handed out, never stored with it.
NeverGoesBack ==
    [][\A i \in Items : local'.items[i] >= local.items[i] \/ local'.revision = 0]_vars

\* When changes stop, the data plane ends up with the newest state of every
\* item but those of Lost: a lost response, a limited batch or an expired
\* cursor is made up for.
Converges == <>[](\A i \in Items : local.items[i] = stored[i] \/ Lost(i))
=============================================================================
