------------------------------- MODULE Router -------------------------------
(***************************************************************************)
(* RoundRobinRouter of the data plane: concurrent picks of an upstream     *)
(* account, the sticky sessions, the health penalties and the changes of   *)
(* the account list by the snapshot task.                                  *)
(*                                                                         *)
(* The router is a bundle of separately locked maps and an atomic cursor.  *)
(* A step is what happens under one lock; a pick without a route holds the *)
(* read lock of the account list from its first look to its last probe.    *)
(***************************************************************************)
EXTENDS Integers, FiniteSets, Sequences, SequencesExt

CONSTANTS
    RouterAccounts,    \* account ids
    Keys,        \* sticky keys
    Pickers,     \* requests that pick an account
    Workloads,   \* what the requests ask for, and a bound on the picks and bindings
    MaxSticky,   \* sticky_session_max_entries
    Initial,     \* the account list at start
    Cycle,       \* the cursor's range: a multiple of every length of the list
    MaxChanges,  \* bound: changes of the account list
    NoSticky,
    NoChoice

\* The arguments of pick_for_model: the sticky key, the candidates of the
\* compiled plan (<<>>: no plan applies), the accounts tried already, and
\* prefer_non_conflicting.
PickCall == [key : Keys \cup {NoSticky}, route : Seq(RouterAccounts),
             excluded : SUBSET RouterAccounts, prefer : BOOLEAN]

ASSUME RouterAssumption ==
    /\ MaxSticky \in Nat \ {0} /\ MaxChanges \in Nat
    /\ NoSticky \notin Keys
    /\ NoChoice \notin RouterAccounts
    /\ Workloads \subseteq [asks : [Pickers -> PickCall], picks : Nat]
    /\ Initial \in Seq(RouterAccounts)
    /\ \A n \in 1 .. Cardinality(RouterAccounts) : Cycle % n = 0

VARIABLES
    accounts,   \* ids in list order
    enabledAccounts,    \* accounts whose enabled flag is set
    cursor,     \* modulo Cycle
    unhealthy,  \* accounts with a penalty that has not run out
    recent,     \* recent_success: accounts, the latest success last
    sticky,     \* the account of each key
    lru,        \* bound keys, the least recently used first
    pickTask,   \* what the snapshot task has left to do
    changes,    \* how often the list has changed
    picks,      \* picks and bindings that may still begin
    work,       \* what each request asks for, again and again
    pick,       \* the call each request is in
    alive,      \* history: accounts listed and enabled at some time,
    stayed      \* and routable at all times, since each pick (along a route) began

list == <<accounts, enabledAccounts>>
table == <<sticky, lru>>
task == <<pickTask, changes, work>>
routerVars == <<list, cursor, unhealthy, recent, table, task, picks, pick, alive, stayed>>

NoPick == [pc |-> "idle", prefer |-> FALSE, avoid |-> {}, left |-> 0, result |-> NoChoice]

-----------------------------------------------------------------------------
Listed == ToSet(accounts) \cap enabledAccounts

\* pick_specific: listed, enabled and healthy.
RouterRoutable == Listed \ unhealthy

RouterInit ==
    /\ accounts = Initial
    /\ enabledAccounts = ToSet(Initial)
    /\ cursor = 0
    /\ unhealthy = {}
    /\ recent = <<>>
    /\ sticky = [k \in Keys |-> NoChoice]
    /\ lru = <<>>
    /\ pickTask = [pc |-> "idle", gone |-> {}]
    /\ changes = 0
    /\ \E w \in Workloads : work = w.asks /\ picks = w.picks
    /\ pick = [p \in Pickers |-> NoPick]
    /\ alive = [p \in Pickers |-> {}]
    /\ stayed = [p \in Pickers |-> {}]

Key(p) == work[p].key

Route(p) == work[p].route

\* Puts x at the end of s, once.
Touch(s, x) == Append(SelectSeq(s, LAMBDA y : y # x), x)

Without(s, S) == SelectSeq(s, LAMBDA y : y \notin S)

\* The history of the picks under way; a conjunct of every step.
Under(p) == pick[p].pc \notin {"idle", "bind", "success", "unbind"}

ObservePicker ==
    LET now == ToSet(accounts') \cap enabledAccounts'
    IN  /\ alive' = [p \in Pickers |-> IF Under(p)' THEN alive[p] \cup now ELSE {}]
        /\ stayed' = [p \in Pickers |->
               IF Under(p)' /\ Route(p) # <<>>
               THEN (IF Under(p) THEN stayed[p] ELSE RouterAccounts) \cap (now \ unhealthy')
               ELSE {}]

PickerAt(p, pc) == pick[p].pc = pc

Goto(p, pc) == pick' = [pick EXCEPT ![p].pc = pc]

LeavePicker(p) == pick' = [pick EXCEPT ![p] = NoPick]

Found(p, a) ==
    pick' = [pick EXCEPT ![p].result = a,
                         ![p].pc = IF a # NoChoice /\ Key(p) # NoSticky THEN "insert" ELSE "done"]

-----------------------------------------------------------------------------
\* pick_for_model: with a key the sticky session is looked up first.
PickForModel(p) ==
    /\ PickerAt(p, "idle") /\ picks > 0 /\ picks' = picks - 1
    /\ Goto(p, IF Key(p) = NoSticky THEN "search" ELSE "lookup")
    /\ UNCHANGED <<list, cursor, unhealthy, recent, table, task>>

\* The search for an account that is not bound already.
Search(p) ==
    pick' = [pick EXCEPT ![p] = [NoPick EXCEPT !.pc = IF work[p].prefer THEN "collect" ELSE "search"]]

\* get_sticky_account_id
GetSticky(p) ==
    LET k == Key(p)
    IN  /\ PickerAt(p, "lookup")
        /\ IF sticky[k] # NoChoice
           THEN /\ lru' = Touch(lru, k)
                /\ pick' = [pick EXCEPT ![p].pc = "check", ![p].result = sticky[k]]
           ELSE /\ Search(p)
                /\ UNCHANGED lru
        /\ UNCHANGED <<list, cursor, unhealthy, recent, sticky, task>>

Offered(p, a) == Route(p) = <<>> \/ a \in ToSet(Route(p))

CheckStickyTrusting(p) ==
    LET a == pick[p].result
    IN  /\ PickerAt(p, "check")
        /\ IF a \notin work[p].excluded /\ Offered(p, a) /\ a \notin unhealthy
           THEN Goto(p, "done")
           ELSE Goto(p, "drop")
        /\ UNCHANGED <<list, cursor, unhealthy, recent, table, task>>

CheckSticky(p) ==
    LET a == pick[p].result
    IN  /\ PickerAt(p, "check")
        /\ IF a \notin work[p].excluded /\ Offered(p, a) /\ a \in RouterRoutable
           THEN Goto(p, "done")
           ELSE Goto(p, "drop")
        /\ UNCHANGED <<list, cursor, unhealthy, recent, table, task>>

\* remove_sticky_mapping: whatever the key is bound to by now.
DropSticky(p) ==
    /\ PickerAt(p, "drop")
    /\ sticky' = [sticky EXCEPT ![Key(p)] = NoChoice]
    /\ lru' = Without(lru, {Key(p)})
    /\ Search(p)
    /\ UNCHANGED <<list, cursor, unhealthy, recent, task>>

\* collect_conflict_account_ids: the accounts of the other keys are avoided.
CollectConflicts(p) ==
    /\ PickerAt(p, "collect")
    /\ pick' = [pick EXCEPT ![p].pc = "search", ![p].prefer = TRUE,
                            ![p].avoid = {sticky[j] : j \in Keys \ {Key(p)}} \ {NoChoice}]
    /\ UNCHANGED <<list, cursor, unhealthy, recent, table, task>>

-----------------------------------------------------------------------------
Eligible(p) == RouterRoutable \ work[p].excluded

\* The preferred account among S: the latest success.
LatestSuccess(S) == LET s == SelectSeq(recent, LAMBDA a : a \in S) IN s[Len(s)]

StartLoop(p) ==
    pick' = [pick EXCEPT ![p].pc = IF Route(p) = <<>> THEN "scan" ELSE "walk",
                         ![p].left = IF Route(p) = <<>> THEN Len(accounts) ELSE Len(Route(p))]

\* The loop that avoids conflicts is followed by a full search.
SearchAll(p) == pick' = [pick EXCEPT ![p] = [NoPick EXCEPT !.pc = "search"]]

\* pick_avoiding_sticky_conflicts and pick_candidate_account_avoiding_conflicts
\* go through the accounts at once.
PickAvoidingConflicts(p) ==
    /\ PickerAt(p, "search") /\ pick[p].prefer
    /\ IF Route(p) = <<>> /\ accounts = <<>> THEN SearchAll(p) ELSE StartLoop(p)
    /\ UNCHANGED <<list, cursor, unhealthy, recent, table, task>>

\* pick_excluding: the latest success among the eligible accounts.
PickExcluding(p) ==
    LET succeeded == Eligible(p) \cap ToSet(recent)
    IN  /\ PickerAt(p, "search") /\ ~pick[p].prefer
        /\ Route(p) = <<>>
        /\ IF accounts = <<>> THEN Found(p, NoChoice)
           ELSE IF succeeded # {} THEN Found(p, LatestSuccess(succeeded))
           ELSE Goto(p, "probed")
        /\ UNCHANGED <<list, cursor, unhealthy, recent, table, task>>

\* pick_candidate_account: the latest success of the untried candidates,
PickCandidateAccount(p) ==
    LET succeeded == (ToSet(Route(p)) \ work[p].excluded) \cap ToSet(recent)
    IN  /\ PickerAt(p, "search") /\ ~pick[p].prefer
        /\ Route(p) # <<>>
        /\ IF succeeded # {}
           THEN pick' = [pick EXCEPT ![p].pc = "latest", ![p].result = LatestSuccess(succeeded)]
           ELSE Goto(p, "probed")
        /\ UNCHANGED <<list, cursor, unhealthy, recent, table, task>>

CheckLatestOnly(p) ==
    /\ PickerAt(p, "latest")
    /\ Found(p, IF pick[p].result \in RouterRoutable THEN pick[p].result ELSE NoChoice)
    /\ UNCHANGED <<list, cursor, unhealthy, recent, table, task>>

\* if it is routable once recent_success is unlocked;
CheckLatest(p) ==
    /\ PickerAt(p, "latest")
    /\ IF pick[p].result \in RouterRoutable
       THEN Found(p, pick[p].result)
       ELSE pick' = [pick EXCEPT ![p].pc = "probed", ![p].result = NoChoice]
    /\ UNCHANGED <<list, cursor, unhealthy, recent, table, task>>

\* or a probed account; which ones the snapshot calls fresh is left open. If
\* there is none, or the candidate is not routable, the loop goes through them.
PickProbed(p) ==
    /\ PickerAt(p, "probed")
    /\ \/ \E a \in {b \in Eligible(p) : Offered(p, b)} : Found(p, a)
       \/ StartLoop(p)
    /\ UNCHANGED <<list, cursor, unhealthy, recent, table, task>>

\* One probe of a loop over accounts, a being the account probed.
Probe(p, a, last) ==
    IF a \in Eligible(p) \ pick[p].avoid THEN Found(p, a)
    ELSE IF ~last THEN pick' = [pick EXCEPT ![p].left = @ - 1]
    ELSE IF pick[p].prefer THEN SearchAll(p)
    ELSE Found(p, NoChoice)

\* fetch_add on the cursor, then the account it names.
Scan(p) ==
    /\ PickerAt(p, "scan")
    /\ cursor' = (cursor + 1) % Cycle
    /\ Probe(p, accounts[(cursor % Len(accounts)) + 1], pick[p].left = 1)
    /\ UNCHANGED <<list, unhealthy, recent, table, task>>

\* One candidate of the plan; no lock is held from one to the next.
WalkRoute(p) ==
    /\ PickerAt(p, "walk")
    /\ Probe(p, Route(p)[Len(Route(p)) - pick[p].left + 1], pick[p].left = 1)
    /\ UNCHANGED <<list, cursor, unhealthy, recent, table, task>>

-----------------------------------------------------------------------------

\* enforce_sticky_capacity makes room before it looks whether the key is
\* already bound.
Evict(k) ==
    IF Len(lru) >= MaxSticky THEN {lru[i] : i \in 1 .. Len(lru) - MaxSticky + 1} ELSE {}

InsertSticky(p) ==
    LET k == Key(p)
        evicted == Evict(k)
    IN  /\ pick[p].pc \in {"insert", "bind"}
        /\ sticky' = [j \in Keys |-> IF j = k THEN pick[p].result
                                     ELSE IF j \in evicted THEN NoChoice ELSE sticky[j]]
        /\ lru' = Touch(Without(lru, evicted), k)
        /\ IF PickerAt(p, "bind") THEN LeavePicker(p) ELSE Goto(p, "done")
        /\ UNCHANGED <<list, cursor, unhealthy, recent, task>>

\* bind_sticky with an account of the shared routing cache, or with the one a
\* WebSocket session has connected to: it is looked up, then inserted.
BindSticky(p, a) ==
    /\ PickerAt(p, "idle") /\ picks > 0 /\ picks' = picks - 1
    /\ Key(p) # NoSticky
    /\ a \in RouterRoutable
    /\ pick' = [pick EXCEPT ![p].pc = "bind", ![p].result = a]
    /\ UNCHANGED <<list, cursor, unhealthy, recent, table, task>>

\* The request is over. A successful one checks that its account is still
\* enabled, and records the success in a second step.
Finish(p) ==
    /\ PickerAt(p, "done")
    /\ \/ LeavePicker(p)
       \/ pick[p].result \in Listed /\ Goto(p, "success")
    /\ UNCHANGED <<list, cursor, unhealthy, recent, table, task>>

RecordSuccess(p) ==
    /\ PickerAt(p, "success")
    /\ recent' = Touch(recent, pick[p].result)
    /\ LeavePicker(p)
    /\ UNCHANGED <<list, cursor, unhealthy, table, task>>

\* A failed one marks the account; a ttl of zero is one that runs out at once.
MarkUnhealthy(p) ==
    /\ PickerAt(p, "done") /\ pick[p].result # NoChoice
    /\ unhealthy' = unhealthy \cup {pick[p].result}
    /\ \/ LeavePicker(p)
       \/ Key(p) # NoSticky /\ Goto(p, "unbind")
    /\ UNCHANGED <<list, cursor, recent, table, task>>

\* It unbinds its key after it has written to the shared routing cache.
UnbindSticky(p) ==
    /\ PickerAt(p, "unbind")
    /\ sticky' = [sticky EXCEPT ![Key(p)] = NoChoice]
    /\ lru' = Without(lru, {Key(p)})
    /\ LeavePicker(p)
    /\ UNCHANGED <<list, cursor, unhealthy, recent, task>>

\* A penalty runs out or is cleared (clear_unhealthy).
BecomeHealthy(a) ==
    /\ a \in unhealthy
    /\ unhealthy' = unhealthy \ {a}
    /\ UNCHANGED <<list, cursor, recent, table, task, pick>>

\* A sticky entry expires and is pruned.
ExpireSticky(k) ==
    /\ sticky[k] # NoChoice
    /\ sticky' = [sticky EXCEPT ![k] = NoChoice]
    /\ lru' = Without(lru, {k})
    /\ UNCHANGED <<list, cursor, unhealthy, recent, task, pick>>

-----------------------------------------------------------------------------
\* The picks that hold the read lock of the account list.
Reading == {p \in Pickers : pick[p].pc \in {"probed", "scan"} /\ Route(p) = <<>>}

\* The snapshot task changes the list, then the cursor if the list has a new
\* order, and then takes the accounts that are gone out of one map after the
\* other.
ChangeAccounts(new, on, gone, moved) ==
    /\ pickTask.pc = "idle" /\ Reading = {}
    /\ changes < MaxChanges /\ changes' = changes + 1
    /\ accounts' = new
    /\ enabledAccounts' = on
    /\ pickTask' = [pc |-> IF moved THEN "cursor" ELSE "health", gone |-> gone]
    /\ UNCHANGED <<cursor, unhealthy, recent, table, work, pick>>

UpsertAccount(a, on) ==
    LET new == a \notin ToSet(accounts)
    IN  ChangeAccounts(IF new THEN Append(accounts, a) ELSE accounts,
                       IF on THEN enabledAccounts \cup {a} ELSE enabledAccounts \ {a},
                       IF on THEN {} ELSE {a}, new)

DeleteAccount(a) ==
    /\ a \in ToSet(accounts)
    /\ ChangeAccounts(Without(accounts, {a}), enabledAccounts \ {a}, {a}, FALSE)

\* replace_accounts with any list. Accounts that are listed and disabled stay
\* in the maps.
ReplaceAccounts(S) ==
    \E new \in SetToSeqs(S), on \in SUBSET S :
        ChangeAccounts(new, on, RouterAccounts \ S, TRUE)

TaskGoes(from, to) ==
    /\ pickTask.pc = from
    /\ pickTask' = IF pickTask.gone = {} THEN [pc |-> "idle", gone |-> {}] ELSE [pickTask EXCEPT !.pc = to]
    /\ UNCHANGED <<list, changes, work, pick>>

ResetCursor ==
    /\ TaskGoes("cursor", "health")
    /\ cursor' = 0
    /\ UNCHANGED <<unhealthy, recent, table>>

ForgetHealth ==
    /\ TaskGoes("health", "recent")
    /\ unhealthy' = unhealthy \ pickTask.gone
    /\ UNCHANGED <<cursor, recent, table>>

ForgetSuccess ==
    /\ TaskGoes("recent", "sticky")
    /\ recent' = Without(recent, pickTask.gone)
    /\ UNCHANGED <<cursor, unhealthy, table>>

UnbindGone ==
    LET stale == {k \in Keys : sticky[k] \in pickTask.gone}
    IN  /\ pickTask.pc = "sticky"
        /\ sticky' = [k \in Keys |-> IF k \in stale THEN NoChoice ELSE sticky[k]]
        /\ lru' = Without(lru, stale)
        /\ pickTask' = [pc |-> "idle", gone |-> {}]
        /\ UNCHANGED <<list, cursor, unhealthy, recent, changes, work, pick>>

PickStep(p) ==
    /\ \/ GetSticky(p) \/ CheckSticky(p) \/ DropSticky(p)
       \/ CollectConflicts(p) \/ PickAvoidingConflicts(p)
       \/ PickExcluding(p) \/ PickCandidateAccount(p) \/ CheckLatest(p) \/ PickProbed(p)
       \/ Scan(p) \/ WalkRoute(p) \/ InsertSticky(p)
       \/ Finish(p) \/ RecordSuccess(p) \/ MarkUnhealthy(p) \/ UnbindSticky(p)
    /\ UNCHANGED picks /\ ObservePicker

Request(p) ==
    /\ PickForModel(p) \/ \E a \in RouterAccounts : BindSticky(p, a)
    /\ ObservePicker

SnapshotTask ==
    /\ \/ \E a \in RouterAccounts : DeleteAccount(a) \/ \E on \in BOOLEAN : UpsertAccount(a, on)
       \/ \E S \in SUBSET RouterAccounts : ReplaceAccounts(S)
       \/ ResetCursor \/ ForgetHealth \/ ForgetSuccess \/ UnbindGone
    /\ UNCHANGED picks /\ ObservePicker

Timers ==
    /\ \/ \E a \in RouterAccounts : BecomeHealthy(a)
       \/ \E k \in Keys : ExpireSticky(k)
    /\ UNCHANGED picks /\ ObservePicker

RouterNext == (\E p \in Pickers : Request(p) \/ PickStep(p)) \/ Timers \/ SnapshotTask

RouterSafetySpec == RouterInit /\ [][RouterNext]_routerVars

-----------------------------------------------------------------------------
\* A pick returns an account that was listed and enabled while it ran, outside
\* the caller's exclusions: a sticky entry or a recorded success written after
\* its account was deleted never brings the account back.
PickIsCurrent ==
    \A p \in Pickers : PickerAt(p, "done") /\ pick[p].result # NoChoice =>
        pick[p].result \in alive[p] \ work[p].excluded

\* A pick along a compiled route finds an account whenever one of the route's
\* untried accounts was routable all along, whatever other requests and the
\* snapshot task do.
RoutedPickFindsAccount ==
    \A p \in Pickers :
        PickerAt(p, "done") /\ pick[p].result = NoChoice /\ Route(p) # <<>> =>
            ToSet(Route(p)) \cap (stayed[p] \ work[p].excluded) = {}

=============================================================================
