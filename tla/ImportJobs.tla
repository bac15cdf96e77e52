----------------------------- MODULE ImportJobs -----------------------------
(***************************************************************************)
(* One OAuth import job of the control plane: OAuthImportJobManager, which *)
(* spawns runners and takes the operators' calls, over the SQLite store,   *)
(* which holds the job row and its items.                                  *)
(*                                                                         *)
(* A step is one statement or one transaction of the store. Several        *)
(* runners of one job can be alive: the manager spawns one whenever a job  *)
(* is created, resumed, retried or found at start-up, and keeps no record  *)
(* of them.                                                                *)
(***************************************************************************)
EXTENDS Integers, FiniteSets

CONSTANTS
    Items,       \* item ids, in the order of the file
    Broken,      \* items whose record could not be parsed
    Runners,     \* ids of spawned run_job tasks
    Operators,   \* concurrent API calls
    Batch,       \* claim_batch_size
    Budgets      \* bounds: the operator calls, and the faults (failing store
                 \* calls, clients that hang up, restarts of the process)

ASSUME ImportAssumption ==
    /\ Broken \subseteq Items
    /\ Items \subseteq Nat /\ IsFiniteSet(Items)
    /\ Batch \in Nat \ {0}
    /\ Budgets \subseteq [calls : Nat, faults : Nat]

VARIABLES
    status,    \* of the job row
    cancel,    \* cancel_requested
    items,     \* the status of each item
    counts,    \* processed and failed_count of the row
    runners,   \* the run_job tasks
    calls,     \* the API calls
    recovery,  \* resume_recoverable_jobs has not run yet
    budget,    \* what is left of the bounds
    seen       \* history: "call" an operator call, "resume" and "retry" accepted
               \* ones, "orphan" a runner that ended on a store error or was
               \* never spawned, as the call or the recovery broke off

vars == <<status, cancel, items, counts, runners, calls, recovery, budget, seen>>

Terminal == {"completed", "failed", "cancelled"}

\* Created and updated items are "done".
Finished == {"done", "failed", "cancelled"}

NoCounts == [processed |-> 0, failed |-> 0]

-----------------------------------------------------------------------------
Off == [pc |-> "off", batch |-> {}, flag |-> FALSE, counts |-> NoCounts]

Idle == [pc |-> "idle", counts |-> NoCounts]

With(S) == {i \in Items : items[i] \in S}

\* recompute_counts
Recount ==
    [processed |-> Cardinality(With({"done", "failed"})), failed |-> Cardinality(With({"failed"}))]

\* The table before the job exists, after start-up.
Init ==
    /\ status = "none"
    /\ cancel = FALSE
    /\ items = [i \in Items |-> IF i \in Broken THEN "failed" ELSE "pending"]
    /\ counts = Recount
    /\ runners = [r \in Runners |-> Off]
    /\ calls = [u \in Operators |-> Idle]
    /\ recovery = TRUE
    /\ budget \in Budgets
    /\ seen = {}

RunnerAt(r, pc) == runners[r].pc = pc

CallAt(u, pc) == calls[u].pc = pc

Go(r, pc) == runners' = [runners EXCEPT ![r].pc = pc]

Then(u, pc) == calls' = [calls EXCEPT ![u].pc = pc]

Return(u) == calls' = [calls EXCEPT ![u] = Idle]

Spawn == \E r \in Runners : RunnerAt(r, "off") /\ runners' = [runners EXCEPT ![r] = [Off EXCEPT !.pc = "start"]]

Reset(from, to) == items' = [i \in Items |-> IF items[i] = from THEN to ELSE items[i]]

-----------------------------------------------------------------------------
(* The manager's run_job. *)

\* The items start_job may claim. A job that is running already is taken to have
\* lost its runner: the items in process are claimed anew.
OpenPendingOnly == With({"pending"})

Open == With(IF status = "running" THEN {"pending", "processing"} ELSE {"pending"})

Claimed(S) ==
    items' = [i \in Items |-> IF i \in S THEN "processing" ELSE IF i \in Open THEN "pending" ELSE items[i]]

\* The first Batch of them, by item_id.
Claim(r) ==
    LET S == {i \in Open : Cardinality({j \in Open : j < i}) < Batch}
    IN  /\ Claimed(S)
        /\ runners' = [runners EXCEPT ![r].pc = IF S = {} THEN "summary" ELSE "batch", ![r].batch = S]

StartJob(r) ==
    /\ RunnerAt(r, "start")
    /\ IF cancel \/ status \in Terminal \cup {"paused"}
       THEN Go(r, "summary") /\ UNCHANGED <<status, items>>
       ELSE Claim(r) /\ status' = "running"
    /\ UNCHANGED <<cancel, counts, calls, recovery, budget, seen>>

\* An empty claim: a paused job is left alone, any other is finished.
GetJobSummary(r) ==
    /\ RunnerAt(r, "summary")
    /\ runners' = [runners EXCEPT ![r] = IF status = "paused" THEN Off ELSE [Off EXCEPT !.pc = "finish"]]
    /\ UNCHANGED <<status, cancel, items, counts, calls, recovery, budget, seen>>

\* An item of the batch has been imported or refused, and its mark is written
\* or fails; the failure is ignored.
Executed(r, i) ==
    LET left == runners[r].batch \ {i}
    IN  runners' = [runners EXCEPT ![r].batch = left, ![r].pc = IF left = {} THEN "start" ELSE "batch"]

\* mark_item_success, mark_item_failed
MarkItem(r, i, result) ==
    /\ RunnerAt(r, "batch") /\ i \in runners[r].batch
    /\ Executed(r, i)
    /\ IF items[i] = "processing"
       THEN /\ items' = [items EXCEPT ![i] = result]
            /\ counts' = [processed |-> counts.processed + 1,
                          failed |-> counts.failed + (IF result = "failed" THEN 1 ELSE 0)]
       ELSE UNCHANGED <<items, counts>>
    /\ UNCHANGED <<status, cancel, calls, recovery, budget, seen>>

MarkItemLost(r, i) ==
    /\ RunnerAt(r, "batch") /\ i \in runners[r].batch
    /\ budget.faults > 0
    /\ Executed(r, i)
    /\ budget' = [budget EXCEPT !.faults = @ - 1]
    /\ UNCHANGED <<status, cancel, items, counts, calls, recovery, seen>>

\* finish_job reads the flag,
FinishJob(r) ==
    /\ RunnerAt(r, "finish")
    /\ runners' = [runners EXCEPT ![r].flag = cancel, ![r].pc = IF cancel THEN "cancel" ELSE "count"]
    /\ UNCHANGED <<status, cancel, items, counts, calls, recovery, budget, seen>>

\* cancels what is open,
CancelItems(r) ==
    /\ RunnerAt(r, "cancel")
    /\ items' = [i \in Items |-> IF items[i] \in {"pending", "processing"} THEN "cancelled" ELSE items[i]]
    /\ Go(r, "count")
    /\ UNCHANGED <<status, cancel, counts, calls, recovery, budget, seen>>

\* counts,
CountItems(r) ==
    /\ RunnerAt(r, "count")
    /\ runners' = [runners EXCEPT ![r].counts = Recount, ![r].pc = "update"]
    /\ UNCHANGED <<status, cancel, items, counts, calls, recovery, budget, seen>>

\* and writes the row, whatever its status is by now.
UpdateJob(r) ==
    LET s == runners[r]
    IN  /\ RunnerAt(r, "update")
        /\ status' = IF s.flag THEN "cancelled" ELSE IF s.counts.failed > 0 THEN "failed" ELSE "completed"
        /\ counts' = s.counts
        /\ runners' = [runners EXCEPT ![r] = Off]
        /\ UNCHANGED <<cancel, items, calls, recovery, budget, seen>>

\* A store call of run_job fails and ends the task.
RunnerFails(r) ==
    /\ runners[r].pc \notin {"off", "batch"}
    /\ budget.faults > 0
    /\ budget' = [budget EXCEPT !.faults = @ - 1]
    /\ runners' = [runners EXCEPT ![r] = Off]
    /\ seen' = seen \cup {"orphan"}
    /\ UNCHANGED <<status, cancel, items, counts, calls, recovery>>

-----------------------------------------------------------------------------
(* The API. *)

\* create_job writes the rows, awaits the system event, then spawns a runner.
CreateJob(u) ==
    /\ CallAt(u, "idle")
    /\ status = "none"
    /\ status' = "queued"
    /\ Then(u, "spawn")
    /\ UNCHANGED <<cancel, items, counts, runners, recovery, budget, seen>>

SpawnJob(u) ==
    /\ CallAt(u, "spawn")
    /\ Spawn
    /\ Return(u)
    /\ UNCHANGED <<status, cancel, items, counts, recovery, budget, seen>>

Call(u) ==
    /\ CallAt(u, "idle")
    /\ status # "none"
    /\ budget.calls > 0
    /\ budget' = [budget EXCEPT !.calls = @ - 1]
    /\ seen' = seen \cup {"call"}

\* pause_job, resume_job and retry_failed read the row and refuse the call,
Ask(u, op, accepted) ==
    /\ Call(u)
    /\ accepted
    /\ Then(u, op)
    /\ UNCHANGED <<status, cancel, items, counts, runners, recovery>>

AskPause(u) == Ask(u, "pause", ~cancel /\ status \in {"queued", "running"})

AskResume(u) == Ask(u, "resume", ~cancel /\ status = "paused")

AskRetry(u) == Ask(u, "retry", status # "running")

\* or write it, without a second look.
PauseJob(u) ==
    /\ CallAt(u, "pause")
    /\ status' = "paused"
    /\ Return(u)
    /\ UNCHANGED <<cancel, items, counts, runners, recovery, budget, seen>>

ResumeJob(u) ==
    /\ CallAt(u, "resume")
    /\ Reset("processing", "pending")
    /\ status' = "queued"
    /\ cancel' = FALSE
    /\ Then(u, "spawn")
    /\ seen' = seen \cup {"resume"}
    /\ UNCHANGED <<counts, runners, recovery, budget>>

RetryFailed(u) ==
    /\ CallAt(u, "retry")
    /\ items' = [i \in Items |-> IF items[i] = "failed" /\ i \notin Broken THEN "pending" ELSE items[i]]
    /\ status' = "queued"
    /\ cancel' = FALSE
    /\ Then(u, "recount")
    /\ seen' = seen \cup {"retry"}
    /\ UNCHANGED <<counts, runners, recovery, budget>>

RetryRecount(u) ==
    /\ CallAt(u, "recount")
    /\ calls' = [calls EXCEPT ![u] = [pc |-> "refresh", counts |-> Recount]]
    /\ UNCHANGED <<status, cancel, items, counts, runners, recovery, budget, seen>>

RetryRefresh(u) ==
    /\ CallAt(u, "refresh")
    /\ counts' = calls[u].counts
    /\ calls' = [calls EXCEPT ![u] = [Idle EXCEPT !.pc = "spawn"]]
    /\ UNCHANGED <<status, cancel, items, runners, recovery, budget, seen>>

\* cancel_job: one statement; a running job is left to its runner.
CancelJob(u) ==
    /\ Call(u)
    /\ cancel' = TRUE
    /\ status' = IF status \in {"queued", "paused"} THEN "cancelled" ELSE status
    /\ UNCHANGED <<items, counts, runners, calls, recovery>>

\* The client hangs up: the handler is dropped at an await, what it wrote stays
\* and what it had still to do, the spawn included, is never done.
HangUp(u) ==
    /\ ~CallAt(u, "idle")
    /\ budget.faults > 0
    /\ budget' = [budget EXCEPT !.faults = @ - 1]
    /\ Return(u)
    /\ seen' = seen \cup {"orphan"}
    /\ UNCHANGED <<status, cancel, items, counts, runners, recovery>>

-----------------------------------------------------------------------------
RecoverQueuedOnly ==
    /\ recovery
    /\ recovery' = FALSE
    /\ IF status = "queued" /\ ~cancel THEN Spawn ELSE UNCHANGED runners
    /\ UNCHANGED <<status, cancel, items, counts, calls, budget, seen>>

\* resume_recoverable_jobs, a task of the start-up that runs beside the API.
ResumeRecoverableJobs ==
    /\ recovery
    /\ recovery' = FALSE
    /\ IF status \in {"queued", "running"} /\ ~cancel THEN Spawn ELSE UNCHANGED runners
    /\ UNCHANGED <<status, cancel, items, counts, calls, budget, seen>>

\* recoverable_job_ids fails: a warning, and no second try before the next start.
RecoveryFails ==
    /\ recovery
    /\ budget.faults > 0
    /\ budget' = [budget EXCEPT !.faults = @ - 1]
    /\ recovery' = FALSE
    /\ seen' = seen \cup {"orphan"}
    /\ UNCHANGED <<status, cancel, items, counts, runners, calls>>

\* The process stops between two statements and starts again.
Restart ==
    /\ budget.faults > 0
    /\ budget' = [budget EXCEPT !.faults = @ - 1]
    /\ runners' = [r \in Runners |-> Off]
    /\ calls' = [u \in Operators |-> Idle]
    /\ recovery' = TRUE
    /\ UNCHANGED <<status, cancel, items, counts, seen>>

RunJob(r) ==
    \/ StartJob(r) \/ GetJobSummary(r)
    \/ \E i \in Items, result \in {"done", "failed"} : MarkItem(r, i, result)
    \/ FinishJob(r) \/ CancelItems(r) \/ CountItems(r) \/ UpdateJob(r)

Serve(u) ==
    \/ SpawnJob(u) \/ PauseJob(u) \/ ResumeJob(u)
    \/ RetryFailed(u) \/ RetryRecount(u) \/ RetryRefresh(u)

Operate(u) == CreateJob(u) \/ AskPause(u) \/ AskResume(u) \/ AskRetry(u) \/ CancelJob(u)

Next ==
    \/ \E r \in Runners : RunJob(r) \/ RunnerFails(r) \/ \E i \in Items : MarkItemLost(r, i)
    \/ \E u \in Operators : Serve(u) \/ Operate(u) \/ HangUp(u)
    \/ ResumeRecoverableJobs \/ RecoveryFails
    \/ Restart

\* Tasks and calls in flight go on.
Fairness ==
    /\ \A r \in Runners : WF_vars(RunJob(r))
    /\ \A u \in Operators : WF_vars(Serve(u))
    /\ WF_vars(ResumeRecoverableJobs)

SafetySpec == Init /\ [][Next]_vars

Spec == SafetySpec /\ Fairness

-----------------------------------------------------------------------------

\* A job that ended as completed or failed has no row left that is open.  (A
\* runner may still hold an item that another one claimed and marked.)
FinishedMeansDone ==
    status \in {"completed", "failed"} => With({"pending", "processing"}) = {}

Reopened == seen \cap {"resume", "retry"} # {}

\* This holds for a job that nobody resumed or retried, whatever pauses,
\* cancellations, restarts and runners of the same job it met.
UndisturbedMeansDone == ~Reopened => FinishedMeansDone

\* It is what a resume should keep: a resumed job goes on with its items.
ResumedMeansDone == "retry" \notin seen => FinishedMeansDone

\* A job that no operator touches ends, across restarts and lost marks, unless a
\* store error ended its runner or it never got one: the caller hung up before
\* the spawn, or the recovery could not read the jobs.
JobsEnd ==
    status = "queued" ~> (status \in Terminal \/ seen \cap {"call", "orphan"} # {})
=============================================================================
