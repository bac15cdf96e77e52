--------------------------- MODULE RateLimitJobs ---------------------------
(***************************************************************************)
(* The cache of upstream rate limits: the loop that refreshes expired       *)
(* entries, the refresh jobs an operator starts, the refresh after a        *)
(* successful request, and what the data planes are told of an account.     *)
(* The store is "postgres", shared by several instances that crash and        *)
(* restart, or "memory", with one instance.  Time is abstracted to one bit  *)
(* per entry: whether its expires_at has passed.                            *)
(***************************************************************************)
EXTENDS Integers, FiniteSets, FiniteSetsExt, SequencesExt

CONSTANTS Accounts,        \* account ids, natural numbers: jobs walk them in order
          Bearer,          \* accounts with a one-time access token
          Fallback,        \* OAuth accounts with a usable fallback access token
          Spoilt,          \* OAuth accounts whose refresh token is terminally invalid
          Instances, Jobs,
          BatchSize, Concurrency,
          LimitWorlds           \* deployments: the store, the instances configured to run the
                           \* loop, the answers of the usage endpoint, and how many
                           \* events of each kind happen

\* What the code tells apart in an answer of the usage endpoint: "window" is
\* an answer that reports an exhausted window, the others but "free" errors.
LimitSignals == {"free", "window", "quota", "auth", "other"}

ASSUME LimitConstants == /\ Accounts \subseteq Nat /\ \A w \in LimitWorlds : w.answers \subseteq LimitSignals
                         /\ Fallback \cup Spoilt \subseteq Accounts \ Bearer
                         /\ BatchSize \in Nat \ {0} /\ Concurrency \in Nat \ {0}

VARIABLES limitWorld,      \* the deployment, a member of Worlds
          accts,      \* enabled and whether the access token is still valid
          cache,      \* per account: is the entry due, and its last error
          published,  \* what the data planes hold as the account's enabled flag
          jobs,       \* rows of oauth_rate_limit_refresh_jobs
          work,       \* per instance: the loop, the seen_ok task, a runner per job
          calling,    \* per instance: a create call between its check and its insert
          alive,      \* instances that run
          visits,     \* history: how often a job settled an account
          steady,     \* history: accounts eligible since the job read its first batch
          lost,       \* history: jobs whose last write failed
          spent       \* how much of each bound is used

rlVars == <<limitWorld, accts, cache, published, jobs, work, calling, alive, visits, steady, lost, spent>>

Tasks == {"loop", "seen"} \cup Range(Jobs)
Events == {"expiries", "changes", "seen", "calls", "crashes", "faults"}
Idle == [pc |-> "idle", cursor |-> 0, full |-> FALSE, batch |-> <<>>, flight |-> {}, good |-> 0, bad |-> 0]

Spend(b) == spent[b] < limitWorld.max[b] /\ spent' = [spent EXCEPT ![b] = @ + 1]

\* Outcomes of a statement that may fail: FALSE uses up a fault.
MayFail(ok) == IF ok THEN UNCHANGED spent ELSE Spend("faults")

Blocking(error) == error \in {"window", "quota", "auth"}
Blocked(a, c) == ~c[a].due /\ Blocking(c[a].error)

Terminal(a) == a \in Spoilt

EffectiveEnabled(a, ac, c) ==
    /\ ac[a].enabled
    /\ ac[a].valid \/ a \in Fallback
    /\ a \notin Bearer => ((Terminal(a) => a \in Fallback) /\ ~Blocked(a, c))

Eligible(a, ac) == ac[a].enabled /\ ac[a].valid /\ ~Terminal(a)

IdOrder == SetToSortSeq(Accounts, <)

\* The first n accounts of S in the order of their ids.
FirstTargets(S, n) == LET q == SelectSeq(IdOrder, LAMBDA a : a \in S) IN SubSeq(q, 1, IF Len(q) < n THEN Len(q) ELSE n)

DueTargets == FirstTargets({a \in Accounts : Eligible(a, accts) /\ cache[a].due}, BatchSize)
TargetsFrom(cursor) == FirstTargets({a \in Accounts : Eligible(a, accts) /\ a >= cursor}, BatchSize)
TargetsAfter(cursor) == FirstTargets({a \in Accounts : Eligible(a, accts) /\ a > cursor}, BatchSize)
CountTargets == Cardinality({a \in Accounts : Eligible(a, accts)})

RateLimitInit ==
    /\ limitWorld \in LimitWorlds
    /\ accts = [a \in Accounts |-> [enabled |-> TRUE, valid |-> TRUE]]
    /\ cache = [a \in Accounts |-> [due |-> TRUE, error |-> "none"]]
    /\ published = [a \in Accounts |-> EffectiveEnabled(a, accts, cache)]
    /\ jobs = <<>>
    /\ work = [i \in Instances |-> [t \in Tasks |-> Idle]]
    /\ calling = [i \in Instances |-> FALSE]
    /\ alive = IF limitWorld.store = "memory" THEN {CHOOSE i \in Instances : TRUE} ELSE Instances
    /\ visits = [j \in Range(Jobs) |-> [a \in Accounts |-> 0]]
    /\ steady = [j \in Range(Jobs) |-> {}]
    /\ lost = {}
    /\ spent = [b \in Events |-> 0]

Goes(i, t, w) == work' = [work EXCEPT ![i][t] = w]

---------------------------------------------------------------------------
\* Writes of the cache.  The event for the data planes is part of the
\* transaction; in memory the bumped revision makes them read a whole snapshot.

CacheAfterSuccess(a, answer) ==
    [cache EXCEPT ![a] = [due |-> FALSE, error |-> IF answer = "window" THEN "window" ELSE "none"]]

FailureBackoff(answer) == FALSE   \* of 120 s to 6 h: the entry is not due

CacheAfterFailure(a, answer) == [cache EXCEPT ![a] = [due |-> FailureBackoff(answer), error |-> answer]]

Publish(a, ac, c) ==
    published' = [b \in Accounts |-> IF b = a \/ limitWorld.store = "memory" THEN EffectiveEnabled(b, ac, c) ELSE published[b]]

WriteCache(a, answer) ==
    /\ cache' = IF answer \in {"free", "window"} THEN CacheAfterSuccess(a, answer) ELSE CacheAfterFailure(a, answer)
    /\ Publish(a, accts, cache')

\* The forced refresh that follows an auth signal reads two columns its query
\* does not select, and ends with that error before it claims the refresh.
RefreshedAfter(a, answer) == FALSE

---------------------------------------------------------------------------
\* Tasks that refresh targets.

\* The batch's next chunk: a job of the Postgres store reports after each
\* `concurrency` targets, everything else takes the batch as a whole.
NextChunk(w, whole) ==
    LET n == IF whole \/ Len(w.batch) < Concurrency THEN Len(w.batch) ELSE Concurrency
    IN  [w EXCEPT !.pc = "fetch", !.flight = Range(SubSeq(w.batch, 1, n)),
                  !.batch = SubSeq(@, n + 1, Len(@)), !.good = 0, !.bad = 0]

Begin(w, targets, whole) ==
    NextChunk([w EXCEPT !.batch = targets, !.full = Len(targets) = BatchSize,
                        !.cursor = Last(targets)], whole)

\* The pass over the expired entries reads a batch.
LoopLoads(i) ==
    /\ i \in alive \cap limitWorld.loops /\ work[i]["loop"].pc \in {"idle", "load"}
    /\ DueTargets # <<>> \/ work[i]["loop"].pc = "load"
    /\ \E ok \in BOOLEAN :
          /\ MayFail(ok)
          /\ Goes(i, "loop", IF ok /\ DueTargets # <<>> THEN Begin(Idle, DueTargets, TRUE) ELSE Idle)
    /\ UNCHANGED <<limitWorld, accts, cache, published, jobs, calling, alive, visits, steady, lost>>

\* A data plane reports a success: the handler starts a refresh of its own,
\* whether the entry is fresh or not.
SeenOk(i, a) ==
    /\ i \in alive /\ work[i]["seen"].pc = "idle" /\ Eligible(a, accts)
    /\ Spend("seen")
    /\ Goes(i, "seen", [Begin(Idle, <<a>>, TRUE) EXCEPT !.full = FALSE])
    /\ UNCHANGED <<limitWorld, accts, cache, published, jobs, calling, alive, visits, steady, lost>>

\* A data plane reports the limits it read from a response.
Observed(a, answer) ==
    /\ answer \in limitWorld.answers \cap {"free", "window"} /\ Spend("seen")
    /\ EffectiveEnabled(a, accts, cache)
    /\ WriteCache(a, answer)
    /\ UNCHANGED <<limitWorld, accts, jobs, work, calling, alive, visits, steady, lost>>

\* What a task does once every target of its chunk is settled.
AfterChunk(t, w) ==
    IF w.flight # {} THEN w
    ELSE IF t \in Range(Jobs) THEN [w EXCEPT !.pc = "append"]
    ELSE IF w.full THEN [Idle EXCEPT !.pc = "load"] ELSE Idle

\* One target of the chunk is answered and written; a failed write of a
\* success is followed by the write of a failure, which can fail as well.
SettleTarget(i, t, a, answer) ==
    /\ i \in alive /\ a \in work[i][t].flight /\ work[i][t].pc = "fetch"
    /\ \E ok \in BOOLEAN, second \in BOOLEAN :
          LET good == ok /\ answer \in {"free", "window"}
          IN /\ MayFail(ok) /\ (second => ~ok /\ answer \in {"free", "window"})
             /\ IF ok THEN WriteCache(a, answer)
                ELSE IF second THEN WriteCache(a, "other") ELSE UNCHANGED <<cache, published>>
             /\ Goes(i, t, AfterChunk(t, [work[i][t] EXCEPT
                       !.flight = @ \ {a}, !.good = @ + (IF good THEN 1 ELSE 0), !.bad = @ + (IF good THEN 0 ELSE 1)]))
    /\ ~RefreshedAfter(a, answer)
    /\ visits' = IF t \in Range(Jobs) THEN [visits EXCEPT ![t][a] = @ + 1] ELSE visits
    /\ UNCHANGED <<limitWorld, accts, jobs, calling, alive, steady, lost>>

---------------------------------------------------------------------------
\* Jobs.

NewJob == [status |-> "queued", total |-> IF limitWorld.store = "memory" THEN CountTargets ELSE 0,
           processed |-> 0, success |-> 0, failed |-> 0, recovered |-> 0]
ActiveJobs == {j \in DOMAIN jobs : jobs[j].status \in {"queued", "running"}}
Update(j, row) == jobs' = [jobs EXCEPT ![j] = row]
InsertJob == jobs' = [j \in DOMAIN jobs \cup {Jobs[Cardinality(DOMAIN jobs) + 1]} |->
                        IF j \in DOMAIN jobs THEN jobs[j] ELSE NewJob]
MayInsert == Cardinality(DOMAIN jobs) < Len(Jobs)
LatestActive == CHOOSE j \in ActiveJobs : \A k \in ActiveJobs :
                   \E m, n \in DOMAIN Jobs : Jobs[m] = k /\ Jobs[n] = j /\ m <= n

Spawned(i, j) == IF work[i][j].pc = "idle" THEN [work EXCEPT ![i][j].pc = "start"] ELSE work

\* The create call returns the latest active job, and has it run when it is
\* still queued.  The Postgres store inserts in a statement of its own.
CreateJob(i) ==
    /\ i \in alive /\ ~calling[i] /\ Spend("calls")
    /\ IF ActiveJobs # {}
       THEN /\ work' = IF jobs[LatestActive].status = "queued" THEN Spawned(i, LatestActive) ELSE work
            /\ UNCHANGED <<jobs, calling>>
       ELSE /\ MayInsert
            /\ IF limitWorld.store = "memory"
               THEN InsertJob /\ work' = Spawned(i, Jobs[Cardinality(DOMAIN jobs) + 1]) /\ UNCHANGED calling
               ELSE calling' = [calling EXCEPT ![i] = TRUE] /\ UNCHANGED <<jobs, work>>
    /\ UNCHANGED <<limitWorld, accts, cache, published, alive, visits, steady, lost>>

InsertCreated(i) ==
    /\ i \in alive /\ calling[i] /\ MayInsert
    /\ InsertJob
    /\ work' = Spawned(i, Jobs[Cardinality(DOMAIN jobs) + 1])
    /\ calling' = [calling EXCEPT ![i] = FALSE]
    /\ UNCHANGED <<limitWorld, accts, cache, published, alive, visits, steady, lost, spent>>

\* Only a queued job is taken up.
MarkRunning(i, j) ==
    /\ i \in alive /\ work[i][j].pc = "start"
    /\ IF jobs[j].status = "queued"
       THEN /\ Update(j, [jobs[j] EXCEPT !.status = "running",
                             !.total = IF limitWorld.store = "memory" THEN CountTargets ELSE @])
            /\ Goes(i, j, [Idle EXCEPT !.pc = IF limitWorld.store = "memory" THEN "load" ELSE "count"])
            /\ steady' = [steady EXCEPT ![j] = {a \in Accounts : Eligible(a, accts)}]
       ELSE Goes(i, j, Idle) /\ UNCHANGED <<jobs, steady>>
    /\ UNCHANGED <<limitWorld, accts, cache, published, calling, alive, visits, lost, spent>>

SetTotal(i, j) ==
    /\ i \in alive /\ work[i][j].pc = "count"
    /\ \E ok \in BOOLEAN :
          /\ MayFail(ok)
          /\ Goes(i, j, [work[i][j] EXCEPT !.pc = IF ok THEN "load" ELSE "fail"])
          /\ IF ok THEN Update(j, [jobs[j] EXCEPT !.total = CountTargets]) ELSE UNCHANGED jobs
    /\ UNCHANGED <<limitWorld, accts, cache, published, calling, alive, visits, steady, lost>>

JobLoads(i, j) ==
    /\ i \in alive /\ work[i][j].pc = "load"
    /\ LET w == work[i][j]
           targets == TargetsAfter(w.cursor)
       IN  \E ok \in BOOLEAN :
             /\ MayFail(ok) /\ (limitWorld.store = "memory" => ok)
             /\ Goes(i, j, IF ~ok THEN [w EXCEPT !.pc = "fail"]
                           ELSE IF targets = <<>> THEN [w EXCEPT !.pc = "finish"]
                           ELSE Begin(w, targets, limitWorld.store = "memory"))
    /\ UNCHANGED <<limitWorld, accts, cache, published, jobs, calling, alive, visits, steady, lost>>

\* The runner adds the chunk's counts to the row and goes on.
AppendProgress(i, j) ==
    /\ i \in alive /\ work[i][j].pc = "append"
    /\ LET w == work[i][j]
           next == IF w.batch # <<>> THEN NextChunk(w, FALSE)
                   ELSE [w EXCEPT !.pc = IF w.full THEN "load" ELSE "finish"]
       IN  \E ok \in BOOLEAN :
             /\ MayFail(ok) /\ (limitWorld.store = "memory" => ok)
             /\ Goes(i, j, IF ok THEN next ELSE [w EXCEPT !.pc = "fail"])
             /\ IF ok THEN Update(j, [jobs[j] EXCEPT !.processed = @ + w.good + w.bad, !.success = @ + w.good,
                                                     !.failed = @ + w.bad])
                ELSE UNCHANGED jobs
    /\ UNCHANGED <<limitWorld, accts, cache, published, calling, alive, visits, steady, lost>>

FinishJob(i, j) ==
    /\ i \in alive /\ work[i][j].pc = "finish"
    /\ \E ok \in BOOLEAN :
          /\ MayFail(ok) /\ (limitWorld.store = "memory" => ok)
          /\ Goes(i, j, IF ok THEN Idle ELSE [Idle EXCEPT !.pc = "fail"])
          /\ IF ok THEN Update(j, [jobs[j] EXCEPT !.status = "completed"]) ELSE UNCHANGED jobs
    /\ UNCHANGED <<limitWorld, accts, cache, published, calling, alive, visits, steady, lost>>

\* The error of a run is written to its row; an error of this write is dropped.
FailJob(i, j) ==
    /\ i \in alive /\ work[i][j].pc = "fail"
    /\ \E ok \in BOOLEAN :
          /\ MayFail(ok) /\ Goes(i, j, Idle)
          /\ IF ok THEN Update(j, [jobs[j] EXCEPT !.status = "failed", !.failed = @ + 1]) /\ UNCHANGED lost
             ELSE lost' = lost \cup {j} /\ UNCHANGED jobs
    /\ UNCHANGED <<limitWorld, accts, cache, published, calling, alive, visits, steady>>

RecoveredStatus(status) == IF status = "running" THEN "failed" ELSE status

Crash(i) ==
    /\ limitWorld.store = "postgres" /\ i \in alive /\ Spend("crashes")
    /\ alive' = alive \ {i}
    /\ work' = [work EXCEPT ![i] = [t \in Tasks |-> Idle]]
    /\ calling' = [calling EXCEPT ![i] = FALSE]
    /\ UNCHANGED <<limitWorld, accts, cache, published, jobs, visits, steady, lost>>

\* At start an instance fails every running job, those of other instances too.
Recover(i) ==
    /\ i \in Instances \ alive /\ limitWorld.store = "postgres"
    /\ alive' = alive \cup {i}
    /\ jobs' = [j \in DOMAIN jobs |->
                  [jobs[j] EXCEPT !.status = RecoveredStatus(@),
                                  !.recovered = IF jobs[j].status = "running" THEN @ + 1 ELSE @]]
    /\ UNCHANGED <<limitWorld, accts, cache, published, work, calling, visits, steady, lost, spent>>

---------------------------------------------------------------------------
\* The world: operators, tokens, time.

SetEnabled(a) ==
    /\ Spend("changes")
    /\ accts' = [accts EXCEPT ![a].enabled = ~@]
    /\ Publish(a, accts', cache)
    /\ steady' = [j \in DOMAIN steady |-> steady[j] \ {a}]
    /\ UNCHANGED <<limitWorld, cache, jobs, work, calling, alive, visits, lost>>

LimitTokenExpires(a) ==
    /\ accts[a].valid /\ Spend("changes")
    /\ accts' = [accts EXCEPT ![a].valid = FALSE]
    /\ steady' = [j \in DOMAIN steady |-> steady[j] \ {a}]
    /\ UNCHANGED <<limitWorld, cache, published, jobs, work, calling, alive, visits, lost>>

EntryExpires(a) ==
    /\ ~cache[a].due /\ Spend("expiries")
    /\ cache' = [cache EXCEPT ![a].due = TRUE]
    /\ UNCHANGED <<limitWorld, accts, published, jobs, work, calling, alive, visits, steady, lost>>

LimitLoopStep(i) == LoopLoads(i) \/ \E a \in Accounts, n \in limitWorld.answers : SettleTarget(i, "loop", a, n)
LimitJobStep(i, j) == \/ MarkRunning(i, j) \/ SetTotal(i, j) \/ JobLoads(i, j) \/ AppendProgress(i, j)
                 \/ FinishJob(i, j) \/ FailJob(i, j)
                 \/ \E a \in Accounts, n \in limitWorld.answers : SettleTarget(i, j, a, n)

RateLimitNext ==
    \/ \E i \in Instances :
          \/ LimitLoopStep(i) \/ CreateJob(i) \/ InsertCreated(i) \/ Crash(i) \/ Recover(i)
          \/ \E j \in DOMAIN jobs : LimitJobStep(i, j)
          \/ \E a \in Accounts : SeenOk(i, a) \/ \E n \in limitWorld.answers : SettleTarget(i, "seen", a, n)
    \/ \E a \in Accounts : SetEnabled(a) \/ LimitTokenExpires(a) \/ EntryExpires(a) \/ \E n \in limitWorld.answers : Observed(a, n)

RateLimitFairness == \A i \in Instances : /\ WF_rlVars(LimitLoopStep(i)) /\ WF_rlVars(Recover(i))
                                          /\ WF_rlVars(\E j \in DOMAIN jobs : LimitJobStep(i, j))

RateLimitSpec == RateLimitInit /\ [][RateLimitNext]_rlVars /\ RateLimitFairness

---------------------------------------------------------------------------
\* A job settles no account twice, one that completed has settled every
\* account that was eligible all along, and its row counts each of them once:
\* the cursor, the batches and the chunks neither skip nor repeat
\* (run_rate_limit_refresh_job), whatever operators change meanwhile.
JobVisitsEachOnce ==
    \A j \in DOMAIN jobs :
       /\ \A a \in Accounts : visits[j][a] <= 1
       /\ jobs[j].status = "completed" =>
             /\ \A a \in steady[j] : visits[j][a] = 1
             /\ jobs[j].processed = Cardinality({a \in Accounts : visits[j][a] = 1})
             /\ jobs[j].processed = jobs[j].success + jobs[j].failed

=============================================================================
