------------------------------- MODULE MCUsage -------------------------------
(***************************************************************************)
(* The usage pipeline and the usage repositories on one small instance.    *)
(* The pipeline, the two SQL repositories and ClickHouse share no state:   *)
(* focus, fixed in the initial state, says which of them moves.            *)
(***************************************************************************)
EXTENDS UsageWorker, UsageReports

VARIABLE focus

MCKinds == {<<"final", "malformed">>, <<"open", "final">>}

Event(i, a, t, k, at, open, tok, m) ==
    [id |-> i, account |-> a, tenant |-> t, apiKey |-> k, at |-> at, open |-> open,
     tokens |-> tok, model |-> m]
\* Two keys of a tenant in one hour, a request without a tenant, an open stream.
MCEvents == {Event(1, 1, 1, 1, 0, FALSE, 1, 1), Event(2, 1, 1, 2, 1, FALSE, 2, 2),
             Event(3, 2, 0, 0, 3, FALSE, 1, 0), Event(4, 2, 1, 1, 2, TRUE, 0, 1)}

usageVars == <<focus, usageWorkerVars, reportVars>>

Pipeline(A) == focus = "pipeline" /\ A /\ UNCHANGED <<focus, reportVars>>

UsageInit ==
    /\ focus \in {"pipeline", "sql", "clickhouse"}
    /\ UsageWorkerInit /\ ReportInit

UsageNext ==
    \/ Pipeline(UsageWorkerNext)
    \/ focus = "sql" /\ SqlNext /\ UNCHANGED <<focus, usageWorkerVars>>
    \/ focus = "clickhouse" /\ ClickHouseNext /\ UNCHANGED <<focus, usageWorkerVars>>

\* Time passes and the group has a running worker; over the group, a poll that is
\* repeated for ever does not time out every time, nor stay below the batch size past
\* flush_interval.  No single worker is assumed to make progress.
UsageSpec ==
    /\ UsageInit /\ [][UsageNext]_usageVars
    /\ WF_usageVars(Pipeline(\E e \in Entries : BecomeIdle(e)))
    /\ WF_usageVars(Pipeline(\E w \in UsageWorkers : StartWorker(w) \/ WorkerStep(w)))
    /\ SF_usageVars(Pipeline(\E w \in UsageWorkers : KeepReading(w) \/ StartFlush(w)))
    /\ SF_usageVars(Pipeline(\E w \in UsageWorkers : StartFlush(w)))
=============================================================================
