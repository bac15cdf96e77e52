--------------------------- MODULE UpstreamHealth ---------------------------
(***************************************************************************)
(* How traffic tells the control plane which accounts work, and how the    *)
(* data plane uses it.  Every finished request spawns a task that posts    *)
(* its outcome (data-plane/upstream_health.rs, proxy/entry.rs); the        *)
(* control plane stamps the report on receipt, records it and moves the    *)
(* account to the head of a list in Redis, the alive ring                  *)
(* (core_handlers/upstream_health.rs); the data plane keeps a copy of the  *)
(* ring and deals its accounts out in turn.                                *)
(***************************************************************************)
EXTENDS Integers, Sequences, FiniteSets

CONSTANTS
  HealthAccounts, ReportTasks, RingPickers,
  RingMax,            \* CONTROL_PLANE_ALIVE_RING_SIZE
  FetchLimit, CandidateCount,
  SeenOkInterval,     \* the store's own minimum between two writes
  MaxHealthTime, MaxServed

ASSUME HealthAssumption ==
  /\ {RingMax, FetchLimit, CandidateCount} \subseteq Nat \ {0}
  /\ {SeenOkInterval, MaxHealthTime, MaxServed} \subseteq Nat

VARIABLES
  healthStore,  \* "postgres" or "memory"
  healthNow,    \* the clock the control plane stamps reports with
  ring,         \* the Redis list, head first
  seenOkAt,     \* account -> the stored seen_ok_at, 0 for NULL
  lastLive,     \* account -> the stored outcome of the last live result
  reported,     \* SeenOkReporter: which accounts were reported within the
                \* interval (latest_reported, latest_live_reported)
  reportTask,         \* the spawned reporting tasks, with the handler they wait for
  ringCache,    \* AliveRingRouter.cache_state
  picker,       \* the requests that ask the ring for candidates
  dealt,        \* account -> times offered since the copy was taken
  outcome,      \* account -> outcome of its last request, as the data plane saw it
  served        \* requests so far

healthVars == <<healthStore, healthNow, ring, seenOkAt, lastLive, reported, reportTask,
                ringCache, picker, dealt, outcome, served>>

NoTask == [step |-> "none", account |-> "none", outcome |-> "none", stamp |-> 0]
NoPicker == [step |-> "none", ids |-> <<>>]

-----------------------------------------------------------------------------
\* SeenOkReporter.  The time of a report is kept before it is sent, so a
\* report that is lost silences its account for the interval all the same.

ShouldReport(a) == a \notin reported.seen

ShouldReportLiveResultByTime(a, o) == a \notin reported.live

\* Outcomes have different signatures; only a repetition is held back.
ShouldReportLiveResult(a, o) == a \notin reported.live \/ reported.said[a] # o

\* A request ends: spawn_seen_ok_reports for a success (live result, seen-ok
\* and the model's seen-ok, one after the other), spawn_failed_live_report for
\* a failure (the live result alone).
RequestEnds(t, a, o) ==
  /\ reportTask[t] = NoTask /\ served < MaxServed
  /\ served' = served + 1
  /\ outcome' = [outcome EXCEPT ![a] = o]
  /\ IF ShouldReportLiveResult(a, o)
       THEN /\ reported' = [reported EXCEPT !.live = @ \cup {a}, !.said[a] = o]
            /\ reportTask' = [reportTask EXCEPT ![t] = [step |-> "live", account |-> a, outcome |-> o, stamp |-> 0]]
       ELSE /\ UNCHANGED reported
            /\ reportTask' = [reportTask EXCEPT ![t] =
                 IF o = "ok" THEN [step |-> "seen", account |-> a, outcome |-> o, stamp |-> 0] ELSE NoTask]
  /\ UNCHANGED <<healthStore, healthNow, ring, seenOkAt, lastLive, ringCache, picker, dealt>>

AfterLive(t) == IF reportTask[t].outcome = "ok" THEN [reportTask[t] EXCEPT !.step = "seen", !.stamp = 0] ELSE NoTask

\* A post that fails is logged and forgotten.
ReportLost(t) ==
  /\ reportTask[t].step \in {"live", "seen_sent"}
  /\ reportTask' = [reportTask EXCEPT ![t] = IF reportTask[t].step = "live" THEN AfterLive(t) ELSE NoTask]
  /\ UNCHANGED <<healthStore, healthNow, ring, seenOkAt, lastLive, reported, ringCache, picker, dealt, outcome, served>>

ReportSeenOk(t) ==
  LET a == reportTask[t].account IN
  /\ reportTask[t].step = "seen"
  /\ IF ShouldReport(a)
       THEN /\ reported' = [reported EXCEPT !.seen = @ \cup {a}]
            /\ reportTask' = [reportTask EXCEPT ![t].step = "seen_sent"]
       ELSE /\ UNCHANGED reported
            /\ reportTask' = [reportTask EXCEPT ![t] = NoTask]
  /\ UNCHANGED <<healthStore, healthNow, ring, seenOkAt, lastLive, ringCache, picker, dealt, outcome, served>>

-----------------------------------------------------------------------------
\* The control plane's handlers read the clock, then write after an await.

StampReport(t) ==
  /\ reportTask[t].step \in {"live", "seen_sent"}
  /\ reportTask' = [reportTask EXCEPT ![t].stamp = healthNow,
                          ![t].step = IF reportTask[t].step = "live" THEN "record" ELSE "mark"]
  /\ UNCHANGED <<healthStore, healthNow, ring, seenOkAt, lastLive, reported, ringCache, picker, dealt, outcome, served>>

\* mark_account_seen_ok_inner of either store.
MarkRefused(a, at, interval) ==
  /\ seenOkAt[a] # 0
  /\ IF healthStore = "postgres" THEN seenOkAt[a] > at - interval ELSE seenOkAt[a] >= at - interval

Marked(a, at, interval) ==
  IF MarkRefused(a, at, interval) THEN seenOkAt
  ELSE [seenOkAt EXCEPT ![a] = IF at > @ THEN at ELSE @]

\* The store for Postgres keeps the trait's empty record_upstream_account_live_result.
RecordLiveResult(t) ==
  LET a == reportTask[t].account IN
  /\ reportTask[t].step = "record"
  /\ reportTask' = [reportTask EXCEPT ![t] = AfterLive(t)]
  /\ IF healthStore = "memory"
       THEN /\ lastLive' = [lastLive EXCEPT ![a] = reportTask[t].outcome]
            /\ seenOkAt' = IF reportTask[t].outcome = "ok" THEN Marked(a, reportTask[t].stamp, 0) ELSE seenOkAt
       ELSE UNCHANGED <<lastLive, seenOkAt>>
  /\ UNCHANGED <<healthStore, healthNow, ring, reported, ringCache, picker, dealt, outcome, served>>

MarkAccountSeenOk(t) ==
  LET a == reportTask[t].account IN
  /\ reportTask[t].step = "mark"
  /\ seenOkAt' = Marked(a, reportTask[t].stamp, SeenOkInterval)
  /\ reportTask' = IF MarkRefused(a, reportTask[t].stamp, SeenOkInterval) THEN [reportTask EXCEPT ![t] = NoTask]
             ELSE [reportTask EXCEPT ![t].step = "touch"]
  /\ UNCHANGED <<healthStore, healthNow, ring, lastLive, reported, ringCache, picker, dealt, outcome, served>>

\* UpstreamAliveRingClient::touch, one MULTI: LREM, LPUSH, LTRIM.
Touched(a) == LET moved == <<a>> \o SelectSeq(ring, LAMBDA b : b # a)
              IN  SubSeq(moved, 1, IF Len(moved) < RingMax THEN Len(moved) ELSE RingMax)

TouchRing(t) ==
  /\ reportTask[t].step = "touch"
  /\ reportTask' = [reportTask EXCEPT ![t] = NoTask]
  /\ ring' \in {Touched(reportTask[t].account), ring}   \* Redis may be away: a warning
  /\ UNCHANGED <<healthStore, healthNow, seenOkAt, lastLive, reported, ringCache, picker, dealt, outcome, served>>

-----------------------------------------------------------------------------
\* AliveRingRouter::next_candidate_ids.

RingIsStale == ~ringCache.fresh

AskRing(p) ==
  /\ picker[p] = NoPicker
  /\ picker' = [picker EXCEPT ![p].step = IF RingIsStale THEN "fetch" ELSE "deal"]
  /\ UNCHANGED <<healthStore, healthNow, ring, seenOkAt, lastLive, reported, reportTask, ringCache, dealt, outcome, served>>

FetchRing(p) ==
  /\ picker[p].step = "fetch"
  /\ picker' = [picker EXCEPT ![p] = [step |-> "install",
                  ids |-> SubSeq(ring, 1, IF Len(ring) < FetchLimit THEN Len(ring) ELSE FetchLimit)]]
  /\ UNCHANGED <<healthStore, healthNow, ring, seenOkAt, lastLive, reported, reportTask, ringCache, dealt, outcome, served>>

\* An error leaves the request without candidates; the old copy stays.
FetchRingFails(p) ==
  /\ picker[p].step = "fetch"
  /\ picker' = [picker EXCEPT ![p] = NoPicker]
  /\ UNCHANGED <<healthStore, healthNow, ring, seenOkAt, lastLive, reported, reportTask, ringCache, dealt, outcome, served>>

InstallRing(p) ==
  /\ picker[p].step = "install"
  /\ ringCache' = [ids |-> picker[p].ids, cursor |-> 0, fresh |-> TRUE]
  /\ dealt' = [a \in HealthAccounts |-> 0]
  /\ picker' = [picker EXCEPT ![p] = [step |-> "deal", ids |-> <<>>]]
  /\ UNCHANGED <<healthStore, healthNow, ring, seenOkAt, lastLive, reported, reportTask, outcome, served>>

MaxTake == IF CandidateCount < Len(ringCache.ids) THEN CandidateCount ELSE Len(ringCache.ids)
CandidateIds == [k \in 1..MaxTake |-> ringCache.ids[((ringCache.cursor + k - 1) % Len(ringCache.ids)) + 1]]

CursorAfter == (ringCache.cursor + MaxTake) % Len(ringCache.ids)

\* The whole loop runs under the write lock.  The request then takes the first
\* candidate it has not tried and the router accepts, or none.
DealCandidates(p) ==
  /\ picker[p].step = "deal"
  /\ \A a \in HealthAccounts : dealt[a] < 2   \* bound
  /\ picker' = [picker EXCEPT ![p] = NoPicker]
  /\ IF ringCache.ids = <<>>
       THEN UNCHANGED <<ringCache, dealt>>
       ELSE /\ ringCache' = [ringCache EXCEPT !.cursor = CursorAfter]
            /\ dealt' = [a \in HealthAccounts |->
                 dealt[a] + Cardinality({k \in DOMAIN CandidateIds : CandidateIds[k] = a})]
  /\ UNCHANGED <<healthStore, healthNow, ring, seenOkAt, lastLive, reported, reportTask, outcome, served>>

-----------------------------------------------------------------------------
HealthTick ==
  /\ healthNow < MaxHealthTime
  /\ healthNow' = healthNow + 1
  /\ UNCHANGED <<healthStore, ring, seenOkAt, lastLive, reported, reportTask, ringCache, picker, dealt, outcome, served>>

\* The lifetime of the copy, and an account's reporting interval, run out.
RingAges ==
  /\ ringCache.fresh
  /\ ringCache' = [ringCache EXCEPT !.fresh = FALSE]
  /\ UNCHANGED <<healthStore, healthNow, ring, seenOkAt, lastLive, reported, reportTask, picker, dealt, outcome, served>>

IntervalEnds(a) ==
  /\ a \in reported.seen \cup reported.live
  /\ reported' = [reported EXCEPT !.seen = @ \ {a}, !.live = @ \ {a}]
  /\ UNCHANGED <<healthStore, healthNow, ring, seenOkAt, lastLive, reportTask, ringCache, picker, dealt, outcome, served>>

HealthInit ==
  /\ healthStore \in {"postgres", "memory"}
  /\ healthNow = 1
  /\ ring = <<>>
  /\ seenOkAt = [a \in HealthAccounts |-> 0]
  /\ lastLive = [a \in HealthAccounts |-> "none"]
  /\ reported = [seen |-> {}, live |-> {},
                 said |-> [a \in HealthAccounts |-> "none"]]
  /\ reportTask = [t \in ReportTasks |-> NoTask]
  /\ ringCache = [ids |-> <<>>, cursor |-> 0, fresh |-> FALSE]
  /\ picker = [p \in RingPickers |-> NoPicker]
  /\ dealt = [a \in HealthAccounts |-> 0]
  /\ outcome = [a \in HealthAccounts |-> "none"]
  /\ served = 0

HealthNext ==
  \/ HealthTick \/ RingAges \/ \E a \in HealthAccounts : IntervalEnds(a)
  \/ \E t \in ReportTasks :
       \/ \E a \in HealthAccounts, o \in {"ok", "failed"} : RequestEnds(t, a, o)
       \/ ReportLost(t) \/ ReportSeenOk(t) \/ StampReport(t)
       \/ RecordLiveResult(t) \/ MarkAccountSeenOk(t) \/ TouchRing(t)
  \/ \E p \in RingPickers :
       AskRing(p) \/ FetchRing(p) \/ FetchRingFails(p) \/ InstallRing(p) \/ DealCandidates(p)

HealthSpec == HealthInit /\ [][HealthNext]_healthVars

-----------------------------------------------------------------------------

\* An account whose last outcome differs from the one before is never kept
\* quiet: what the data plane last reported is the account's last outcome.
ChangesAreReported ==
  \A a \in HealthAccounts : reported.said[a] = outcome[a]

=============================================================================
