----------------------------- MODULE UsageWorker -----------------------------
(***************************************************************************)
(* The usage pipeline of the Postgres edition: a data plane appends one    *)
(* request-log event per request to a Redis stream, and usage workers of   *)
(* one consumer group move the events to ClickHouse.  A worker reclaims    *)
(* entries that were pending for too long, reads new ones, buffers them,   *)
(* and flushes the buffer with three calls that may each fail: the request *)
(* logs, the hourly counts (three tables), the acknowledgement.            *)
(*                                                                         *)
(* Stream entries are 1, 2, ... in the order of XADD.  An entry is final   *)
(* (counted and logged), open (the streaming_open record of a request,     *)
(* only logged) or malformed.                                              *)
(***************************************************************************)
EXTENDS Naturals, FiniteSets, Sequences

CONSTANTS UsageWorkers,          \* consumers of the group
          EntryKindChoices,      \* the kinds of entry 1, entry 2, ...: sequences of one length
          StreamReadCount, ReclaimCount, FlushMinBatch, MaxConsecutiveErrors,
          MaxUsageFaults         \* bound: failed calls and crashes

ASSUME UsageWorkerAssumption ==
    /\ IsFiniteSet(UsageWorkers)
    /\ EntryKindChoices \subseteq Seq({"final", "open", "malformed"})
    /\ \A s, t \in EntryKindChoices : Len(s) = Len(t)
    /\ {StreamReadCount, ReclaimCount} \subseteq Nat \ {0}
    /\ {FlushMinBatch, MaxConsecutiveErrors, MaxUsageFaults} \subseteq Nat

Entries == 1..Len(CHOOSE s \in EntryKindChoices : TRUE)
HourlyTables == {"account", "tenant_api_key", "tenant_account"}

VARIABLES entryKinds,  \* the kind of each entry, fixed at the start
          published,   \* entries the data plane has emitted
          hasGroup,    \* the consumer group exists
          entryAt,     \* each entry: unsent, queued, pending, acked or lost
          idleFor,     \* pending entries idle for reclaim_min_idle or longer
          workerAt,    \* where run_until_shutdown is
          stopping,    \* the flush in progress is the one of the shutdown
          claimed,     \* messages reclaimed by the read in progress
          buffered, batch, consecutiveErrors,
          requestLogs, \* ClickHouse: entries with a row in the request log
          counted,     \* entries in a batch an hourly table has received
          usageFaults

stream == <<entryKinds, published, hasGroup, entryAt, idleFor>>
worker == <<workerAt, stopping, claimed, buffered, batch, consecutiveErrors>>
clickhouse == <<requestLogs, counted>>
usageWorkerVars == <<stream, worker, clickhouse, usageFaults>>

UsageWorkerInit ==
    /\ entryKinds \in EntryKindChoices
    /\ published = 0 /\ hasGroup = FALSE /\ idleFor = {}
    /\ entryAt = [e \in Entries |-> "unsent"]
    /\ workerAt = [w \in UsageWorkers |-> "off"]
    /\ stopping = [w \in UsageWorkers |-> FALSE]
    /\ claimed = [w \in UsageWorkers |-> <<>>]
    /\ buffered = [w \in UsageWorkers |-> <<>>]
    /\ batch = [w \in UsageWorkers |-> <<>>]
    /\ consecutiveErrors = [w \in UsageWorkers |-> 0]
    /\ requestLogs = {} /\ counted = [t \in HourlyTables |-> {}]
    /\ usageFaults = 0

Fault == usageFaults < MaxUsageFaults /\ usageFaults' = usageFaults + 1

\* The first n of a set of entries, in stream order.
FirstEntries(S, n) ==
    LET inOrder == SelectSeq([e \in Entries |-> e], LAMBDA e : e \in S)
    IN  SubSeq(inOrder, 1, IF n < Len(inOrder) THEN n ELSE Len(inOrder))
Elements(s) == {s[i] : i \in DOMAIN s}
WellFormed(s) == SelectSeq(s, LAMBDA e : entryKinds[e] # "malformed")
IsMalformed(e) == entryKinds[e] = "malformed"

-----------------------------------------------------------------------------
(* The stream.                                                             *)

\* emit_request_log.  A publication that fails is only logged; an entry that is
\* older than the group is never delivered to it.
EmitRequestLog ==
    /\ published < Len(entryKinds)
    /\ published' = published + 1
    /\ \/ /\ entryAt' = [entryAt EXCEPT ![published + 1] =
                             IF hasGroup THEN "queued" ELSE "lost"]
          /\ UNCHANGED usageFaults
       \/ entryAt' = [entryAt EXCEPT ![published + 1] = "lost"] /\ Fault
    /\ UNCHANGED <<entryKinds, hasGroup, idleFor, worker, clickhouse>>

\* Time: a pending entry that nobody claims reaches reclaim_min_idle.
BecomeIdle(e) ==
    /\ entryAt[e] = "pending" /\ e \notin idleFor
    /\ idleFor' = idleFor \cup {e}
    /\ UNCHANGED <<entryKinds, published, hasGroup, entryAt, worker, clickhouse, usageFaults>>

Queued == {e \in Entries : entryAt[e] = "queued"}
Acknowledge(at, S) == [e \in Entries |-> IF e \in S THEN "acked" ELSE at[e]]
Deliver(at, S) == [e \in Entries |-> IF e \in S THEN "pending" ELSE at[e]]

-----------------------------------------------------------------------------
(* A worker.                                                               *)

\* ensure_consumer_group at "$", and an empty buffer.
StartWorker(w) ==
    /\ workerAt[w] = "off"
    /\ hasGroup' = TRUE
    /\ workerAt' = [workerAt EXCEPT ![w] = "reclaim"]
    /\ consecutiveErrors' = [consecutiveErrors EXCEPT ![w] = 0]
    /\ UNCHANGED <<entryKinds, published, entryAt, idleFor, stopping, claimed, buffered, batch,
                   clickhouse, usageFaults>>

Forget(w) ==
    /\ claimed' = [claimed EXCEPT ![w] = <<>>]
    /\ batch' = [batch EXCEPT ![w] = <<>>]

\* handle_runtime_error: back off and poll again, or leave at the limit.
HandleRuntimeError(w) ==
    LET errors == consecutiveErrors[w] + 1
        leaves == MaxConsecutiveErrors > 0 /\ errors >= MaxConsecutiveErrors
    IN  /\ workerAt' = [workerAt EXCEPT ![w] =
                            IF leaves \/ stopping[w] THEN "off" ELSE "reclaim"]
        /\ stopping' = [stopping EXCEPT ![w] = FALSE]
        /\ consecutiveErrors' = [consecutiveErrors EXCEPT ![w] = IF leaves THEN 0 ELSE errors]
        /\ buffered' = [buffered EXCEPT ![w] = IF leaves THEN <<>> ELSE @]
        /\ Forget(w)

\* Mutant: a malformed entry is left unacknowledged.
ParseOnly(at, S, failed) == at

\* parse_messages_and_ack_invalid: malformed entries are acknowledged whether or not
\* the dead-letter stream took them; failed says that this acknowledgement failed.
ParseAndAckInvalid(at, S, failed) ==
    IF failed THEN at ELSE Acknowledge(at, {e \in S : IsMalformed(e)})

\* reclaim_pending: XAUTOCLAIM from 0-0 resets the idle time of what it returns.
ReclaimPending(w) ==
    LET taken == FirstEntries(idleFor, ReclaimCount)
        S == Elements(taken)
    IN  /\ workerAt[w] = "reclaim"
        /\ idleFor' = idleFor \ S
        /\ \/ /\ entryAt' = ParseAndAckInvalid(entryAt, S, FALSE)
              /\ claimed' = [claimed EXCEPT ![w] = WellFormed(taken)]
              /\ workerAt' = [workerAt EXCEPT ![w] = "read"]
              /\ UNCHANGED <<stopping, buffered, batch, consecutiveErrors, usageFaults>>
           \/ /\ entryAt' = ParseAndAckInvalid(entryAt, S, TRUE)
              /\ Fault /\ HandleRuntimeError(w)
        /\ UNCHANGED <<entryKinds, published, hasGroup, clickhouse>>

\* read_group that succeeds.
ReadGroup(w) ==
    LET taken == FirstEntries(Queued, StreamReadCount)
    IN  /\ workerAt[w] = "read"
        /\ entryAt' = ParseAndAckInvalid(Deliver(entryAt, Elements(taken)), Elements(taken), FALSE)
        /\ claimed' = [claimed EXCEPT ![w] = <<>>]
        /\ UNCHANGED <<entryKinds, published, hasGroup, idleFor, stopping, clickhouse, usageFaults>>

\* What run_until_shutdown then has in its buffer.
Received(w) == buffered[w] \o claimed[w] \o WellFormed(FirstEntries(Queued, StreamReadCount))
EnoughForFlush(messages) == FlushMinBatch = 0 \/ Len(messages) >= FlushMinBatch

\* The buffer is below flush_min_batch and flush_interval has not elapsed.
KeepReading(w) ==
    /\ ReadGroup(w)
    /\ Received(w) = <<>> \/ ~EnoughForFlush(Received(w))
    /\ buffered' = [buffered EXCEPT ![w] = Received(w)]
    /\ workerAt' = [workerAt EXCEPT ![w] = "reclaim"]
    /\ consecutiveErrors' = [consecutiveErrors EXCEPT ![w] = 0]
    /\ UNCHANGED batch

\* flush_buffered_messages takes the whole buffer: a failed flush leaves it empty.
TakeBatch(w, messages) ==
    /\ batch' = [batch EXCEPT ![w] = messages]
    /\ buffered' = [buffered EXCEPT ![w] = <<>>]
    /\ workerAt' = [workerAt EXCEPT ![w] = "logs"]

\* The buffer is full enough, or flush_interval has elapsed.
StartFlush(w) ==
    /\ ReadGroup(w)
    /\ Received(w) # <<>>
    /\ TakeBatch(w, Received(w))
    /\ UNCHANGED consecutiveErrors

\* An error that looks like a timeout is an idle poll: the reclaimed messages are
\* dropped and the buffer is not flushed.
ReadTimesOut(w) ==
    /\ workerAt[w] = "read"
    /\ workerAt' = [workerAt EXCEPT ![w] = "reclaim"]
    /\ consecutiveErrors' = [consecutiveErrors EXCEPT ![w] = 0]
    /\ claimed' = [claimed EXCEPT ![w] = <<>>]
    /\ UNCHANGED <<stream, stopping, buffered, batch, clickhouse, usageFaults>>

\* Any other error, before or after Redis handed the entries to this consumer.
ReadFails(w) ==
    /\ workerAt[w] = "read"
    /\ \E S \in {{}, Elements(FirstEntries(Queued, StreamReadCount))} :
           entryAt' = ParseAndAckInvalid(Deliver(entryAt, S), S, TRUE)
    /\ Fault /\ HandleRuntimeError(w)
    /\ UNCHANGED <<entryKinds, published, hasGroup, idleFor, clickhouse>>

\* upsert_request_logs
UpsertRequestLogs(w) ==
    /\ workerAt[w] = "logs"
    /\ \/ /\ requestLogs' = requestLogs \cup Elements(batch[w])
          /\ workerAt' = [workerAt EXCEPT ![w] = "hourly"]
          /\ UNCHANGED <<stopping, claimed, buffered, batch, consecutiveErrors, usageFaults>>
       \/ Fault /\ HandleRuntimeError(w) /\ UNCHANGED requestLogs
    /\ UNCHANGED <<stream, counted>>

\* What flush_messages hands to aggregate_by_hour.
AggregationEvents(w) == {e \in Elements(batch[w]) : entryKinds[e] # "open"}

\* Mutant: an error of the second or third insert is not propagated.
UpsertHourlyAnyDone(w) ==
    /\ workerAt[w] = "hourly"
    /\ \E done \in {{"account"}, {"account", "tenant_api_key"}, HourlyTables} :
        counted' = [t \in HourlyTables |->
                       counted[t] \cup IF t \in done THEN AggregationEvents(w) ELSE {}]
    /\ workerAt' = [workerAt EXCEPT ![w] = "ack"]
    /\ UNCHANGED <<stream, stopping, claimed, buffered, batch, consecutiveErrors,
                   requestLogs, usageFaults>>

\* upsert_hourly: three inserts in this order; an error may leave the first few done.
UpsertHourly(w) ==
    /\ workerAt[w] = "hourly"
    /\ \E done \in {{}, {"account"}, {"account", "tenant_api_key"}, HourlyTables} :
        /\ counted' = [t \in HourlyTables |->
                          counted[t] \cup IF t \in done THEN AggregationEvents(w) ELSE {}]
        /\ \/ /\ done = HourlyTables
              /\ workerAt' = [workerAt EXCEPT ![w] = "ack"]
              /\ UNCHANGED <<stopping, claimed, buffered, batch, consecutiveErrors, usageFaults>>
           \/ Fault /\ HandleRuntimeError(w)
    /\ UNCHANGED <<stream, requestLogs>>

\* XACK of the batch: applied, or an error with the command applied or not.
AckBatch(w) ==
    /\ workerAt[w] = "ack"
    /\ \/ /\ entryAt' = Acknowledge(entryAt, Elements(batch[w]))
          /\ idleFor' = idleFor \ Elements(batch[w])
          /\ workerAt' = [workerAt EXCEPT ![w] = IF stopping[w] THEN "off" ELSE "reclaim"]
          /\ stopping' = [stopping EXCEPT ![w] = FALSE]
          /\ consecutiveErrors' = [consecutiveErrors EXCEPT ![w] = 0]
          /\ batch' = [batch EXCEPT ![w] = <<>>]
          /\ UNCHANGED <<claimed, buffered, usageFaults>>
       \/ \E S \in {{}, Elements(batch[w])} :
             /\ entryAt' = Acknowledge(entryAt, S) /\ idleFor' = idleFor \ S
             /\ Fault /\ HandleRuntimeError(w)
    /\ UNCHANGED <<entryKinds, published, hasGroup, clickhouse>>

\* The shutdown signal wins the select: the read in progress is dropped, with what it
\* had reclaimed, and the buffer is flushed a last time.
Shutdown(w) ==
    /\ workerAt[w] \in {"reclaim", "read"} /\ Fault
    /\ claimed' = [claimed EXCEPT ![w] = <<>>]
    /\ IF buffered[w] = <<>>
       THEN /\ workerAt' = [workerAt EXCEPT ![w] = "off"]
            /\ UNCHANGED <<batch, buffered, stopping>>
       ELSE /\ TakeBatch(w, buffered[w])
            /\ stopping' = [stopping EXCEPT ![w] = TRUE]
    /\ UNCHANGED <<stream, consecutiveErrors, clickhouse>>

\* The process dies.
CrashWorker(w) ==
    /\ workerAt[w] # "off" /\ Fault
    /\ workerAt' = [workerAt EXCEPT ![w] = "off"]
    /\ buffered' = [buffered EXCEPT ![w] = <<>>]
    /\ stopping' = [stopping EXCEPT ![w] = FALSE]
    /\ Forget(w)
    /\ UNCHANGED <<stream, consecutiveErrors, clickhouse>>

WorkerStep(w) ==
    \/ ReclaimPending(w) \/ KeepReading(w) \/ StartFlush(w) \/ ReadTimesOut(w)
    \/ ReadFails(w) \/ UpsertRequestLogs(w) \/ UpsertHourly(w) \/ AckBatch(w)

UsageWorkerNext ==
    \/ EmitRequestLog
    \/ \E e \in Entries : BecomeIdle(e)
    \/ \E w \in UsageWorkers :
          StartWorker(w) \/ WorkerStep(w) \/ Shutdown(w) \/ CrashWorker(w)

UsageWorkerSafetySpec == UsageWorkerInit /\ [][UsageWorkerNext]_usageWorkerVars

-----------------------------------------------------------------------------
(* Properties.                                                             *)

\* An acknowledged entry is never seen again, so before it is acknowledged it must
\* have a request-log row and, unless it is an open record, be part of a batch that
\* all three hourly tables received: across failed calls, crashes, and entries that
\* two workers hold at once.
AckedIsStored ==
    \A e \in Entries : entryAt[e] = "acked" /\ ~IsMalformed(e) =>
        /\ e \in requestLogs
        /\ entryKinds[e] # "open" => \A t \in HourlyTables : e \in counted[t]

\* Every entry that reached the group is acknowledged in the end, whatever failed,
\* was dropped by a poll that timed out, or was in a buffer that was lost.
EveryEntryIsAcked ==
    \A e \in Entries : entryAt[e] = "queued" ~> entryAt[e] = "acked"
=============================================================================
