---------------------------- MODULE WorkerProofs -----------------------------
(***************************************************************************)
(* What is proved of the background workers: the usage worker, which       *)
(* acknowledges queue entries once ClickHouse has them (UsageWorker), and  *)
(* the refreshes of OAuth tokens (AccountPool).                            *)
(***************************************************************************)
EXTENDS UsageWorker, AccountPool, TLAPS

-----------------------------------------------------------------------------
\* UsageWorker: AckedIsStored for any number of workers, entries, failures and batch
\* sizes.  A worker that is about to acknowledge holds a batch whose logs and hourly
\* counts are stored; ClickHouse only grows, so no step of another worker takes that
\* back, even one that holds the same entries.

\* The functions the actions update.
Shapes ==
    /\ entryAt \in [Entries -> {"unsent", "queued", "pending", "acked", "lost"}]
    /\ workerAt \in [UsageWorkers -> {"off", "reclaim", "read", "logs", "hourly", "ack"}]
    /\ DOMAIN batch = UsageWorkers
    /\ DOMAIN counted = HourlyTables

\* Past upsert_request_logs the batch of a worker is logged.
LoggedBeforeHourly ==
    \A w \in UsageWorkers :
        workerAt[w] \in {"hourly", "ack"} => Elements(batch[w]) \subseteq requestLogs

\* Past upsert_hourly it is counted in the three tables as well.
CountedBeforeAck ==
    \A w \in UsageWorkers :
        workerAt[w] = "ack" => \A t \in HourlyTables : AggregationEvents(w) \subseteq counted[t]

UsageInv == Shapes /\ LoggedBeforeHourly /\ CountedBeforeAck /\ AckedIsStored

\* No action takes a row out of ClickHouse or changes what an entry is.
StorageGrows ==
    /\ entryKinds' = entryKinds
    /\ requestLogs \subseteq requestLogs'
    /\ \A t \in HourlyTables : counted[t] \subseteq counted'[t]

\* What the acknowledgements of a step may be: of malformed entries, or of the batch
\* of a worker past both inserts.
AcksAreDue ==
    \A e \in Entries : entryAt'[e] = "acked" =>
        \/ entryAt[e] = "acked"
        \/ IsMalformed(e)
        \/ \E w \in UsageWorkers : workerAt[w] = "ack" /\ e \in Elements(batch[w])

\* A worker enters a state past an insert with the batch it had, by the insert.
InsertsAreMade ==
    \A w \in UsageWorkers :
        /\ workerAt'[w] \in {"hourly", "ack"} =>
               /\ batch'[w] = batch[w]
               /\ \/ workerAt[w] \in {"hourly", "ack"}
                  \/ Elements(batch[w]) \subseteq requestLogs'
        /\ workerAt'[w] = "ack" =>
               \/ workerAt[w] = "ack"
               \/ \A t \in HourlyTables : AggregationEvents(w) \subseteq counted'[t]

Effect == Shapes' /\ StorageGrows /\ AcksAreDue /\ InsertsAreMade

\* These effects are all the invariant depends on.
LEMMA EffectKeepsInv == UsageInv /\ Effect => UsageInv'
<1> SUFFICES ASSUME UsageInv, Effect PROVE UsageInv'
  OBVIOUS
<1> USE DEF UsageInv, Effect
<1>1. LoggedBeforeHourly'
  BY DEF LoggedBeforeHourly, StorageGrows, InsertsAreMade
<1>2. CountedBeforeAck'
  <2> SUFFICES ASSUME NEW w \in UsageWorkers, workerAt'[w] = "ack", NEW t \in HourlyTables
               PROVE  AggregationEvents(w)' \subseteq counted'[t]
    BY DEF CountedBeforeAck
  <2>1. batch'[w] = batch[w] /\ entryKinds' = entryKinds
    BY DEF InsertsAreMade, StorageGrows
  <2>2. AggregationEvents(w)' = AggregationEvents(w)
    BY <2>1 DEF AggregationEvents, Elements
  <2>3. CASE workerAt[w] = "ack"
    BY <2>2, <2>3 DEF CountedBeforeAck, StorageGrows
  <2>4. CASE workerAt[w] # "ack"
    BY <2>2, <2>4 DEF InsertsAreMade
  <2> QED BY <2>3, <2>4
<1>3. AckedIsStored'
  <2> SUFFICES ASSUME NEW e \in Entries, entryAt'[e] = "acked", ~IsMalformed(e)'
               PROVE  /\ e \in requestLogs'
                      /\ entryKinds'[e] # "open" => \A t \in HourlyTables : e \in counted'[t]
    BY DEF AckedIsStored
  <2>1. entryKinds' = entryKinds /\ ~IsMalformed(e)
    BY DEF StorageGrows, IsMalformed
  <2>2. CASE entryAt[e] = "acked"
    BY <2>1, <2>2 DEF AckedIsStored, StorageGrows
  <2>3. CASE entryAt[e] # "acked"
    <3>1. PICK w \in UsageWorkers : workerAt[w] = "ack" /\ e \in Elements(batch[w])
      BY <2>1, <2>3 DEF AcksAreDue
    <3>2. e \in requestLogs
      BY <3>1 DEF LoggedBeforeHourly
    <3>3. entryKinds[e] # "open" => \A t \in HourlyTables : e \in counted[t]
      BY <3>1 DEF CountedBeforeAck, AggregationEvents
    <3> QED BY <2>1, <3>2, <3>3 DEF StorageGrows
  <2> QED BY <2>2, <2>3
<1> QED BY <1>1, <1>2, <1>3

\* handle_runtime_error, whatever failed before it: no acknowledgement is due and no
\* insert is made by it.
LEMMA ErrorEffect ==
  ASSUME Shapes, NEW w \in UsageWorkers, HandleRuntimeError(w)
  PROVE  /\ workerAt' \in [UsageWorkers -> {"off", "reclaim", "read", "logs", "hourly", "ack"}]
         /\ DOMAIN batch' = UsageWorkers
         /\ \A v \in UsageWorkers :
               workerAt'[v] \in {"hourly", "ack"} =>
                   workerAt'[v] = workerAt[v] /\ batch'[v] = batch[v]
  BY DEF Shapes, HandleRuntimeError, Forget

\* Parsing acknowledges malformed entries only.
LEMMA ParseEffect ==
  ASSUME Shapes, NEW at \in [Entries -> {"unsent", "queued", "pending", "acked", "lost"}],
         NEW S
  PROVE  /\ ParseAndAckInvalid(at, S, FALSE)
               \in [Entries -> {"unsent", "queued", "pending", "acked", "lost"}]
         /\ \A e \in Entries : ParseAndAckInvalid(at, S, FALSE)[e] = "acked" =>
               at[e] = "acked" \/ IsMalformed(e)
  BY DEF ParseAndAckInvalid, Acknowledge

\* Handing entries out acknowledges none.
LEMMA DeliverEffect ==
  ASSUME Shapes, NEW S
  PROVE  /\ Deliver(entryAt, S) \in [Entries -> {"unsent", "queued", "pending", "acked", "lost"}]
         /\ \A e \in Entries : Deliver(entryAt, S)[e] = "acked" => entryAt[e] = "acked"
  BY DEF Shapes, Deliver

\* Every step has these effects.
LEMMA StepEffect == Shapes /\ UsageWorkerNext => Effect
<1> SUFFICES ASSUME Shapes, UsageWorkerNext PROVE Effect
  OBVIOUS
<1> USE DEF Effect, stream, worker, clickhouse
<1>1. CASE EmitRequestLog
  BY <1>1 DEF EmitRequestLog, Shapes, StorageGrows, AcksAreDue, InsertsAreMade
<1>2. ASSUME NEW e \in Entries, BecomeIdle(e) PROVE Effect
  BY <1>2 DEF BecomeIdle, Shapes, StorageGrows, AcksAreDue, InsertsAreMade
<1>3. ASSUME NEW w \in UsageWorkers, StartWorker(w) PROVE Effect
  BY <1>3 DEF StartWorker, Shapes, StorageGrows, AcksAreDue, InsertsAreMade
<1>4. ASSUME NEW w \in UsageWorkers, ReclaimPending(w) PROVE Effect
  <2> DEFINE S == Elements(FirstEntries(idleFor, ReclaimCount))
  <2>0. entryAt' = entryAt \/ entryAt' = ParseAndAckInvalid(entryAt, S, FALSE)
    BY <1>4 DEF ReclaimPending, ParseAndAckInvalid
  <2> HIDE DEF S
  <2>1. /\ entryAt' \in [Entries -> {"unsent", "queued", "pending", "acked", "lost"}]
        /\ AcksAreDue
    <3>1. entryAt \in [Entries -> {"unsent", "queued", "pending", "acked", "lost"}]
      BY DEF Shapes
    <3>2. CASE entryAt' = entryAt
      BY <3>1, <3>2 DEF AcksAreDue
    <3>3. CASE entryAt' = ParseAndAckInvalid(entryAt, S, FALSE)
      BY <3>1, <3>3, ParseEffect, ZenonT(40) DEF AcksAreDue
    <3> QED BY <2>0, <3>2, <3>3, ZenonT(40)
  <2>2. UNCHANGED <<entryKinds, requestLogs, counted>>
    BY <1>4 DEF ReclaimPending
  <2>3. CASE HandleRuntimeError(w)
    BY <2>1, <2>2, <2>3, ErrorEffect DEF Shapes, StorageGrows, InsertsAreMade
  <2>4. CASE workerAt' = [workerAt EXCEPT ![w] = "read"] /\ batch' = batch
    BY <2>1, <2>2, <2>4 DEF Shapes, StorageGrows, InsertsAreMade
  <2> QED BY <1>4, <2>3, <2>4, ZenonT(40) DEF ReclaimPending
<1>5. ASSUME NEW w \in UsageWorkers, ReadGroup(w)
      PROVE  /\ entryAt' \in [Entries -> {"unsent", "queued", "pending", "acked", "lost"}]
             /\ AcksAreDue
             /\ StorageGrows /\ UNCHANGED counted
  <2> DEFINE S == Elements(FirstEntries(Queued, StreamReadCount))
  <2>1. entryAt' = ParseAndAckInvalid(Deliver(entryAt, S), S, FALSE)
    BY <1>5 DEF ReadGroup
  <2>2. UNCHANGED <<entryKinds, requestLogs, counted>>
    BY <1>5 DEF ReadGroup
  <2> HIDE DEF S
  <2>3. /\ entryAt' \in [Entries -> {"unsent", "queued", "pending", "acked", "lost"}]
        /\ AcksAreDue
    BY <2>1, ParseEffect, DeliverEffect, ZenonT(40) DEF AcksAreDue
  <2> QED BY <2>2, <2>3 DEF StorageGrows
<1>6. ASSUME NEW w \in UsageWorkers, KeepReading(w) PROVE Effect
  <2>1. ReadGroup(w) /\ workerAt' = [workerAt EXCEPT ![w] = "reclaim"] /\ batch' = batch
    BY <1>6 DEF KeepReading
  <2> QED BY <1>5, <2>1 DEF Shapes, InsertsAreMade
<1>7. ASSUME NEW w \in UsageWorkers, StartFlush(w) PROVE Effect
  <2>1. /\ ReadGroup(w) /\ workerAt' = [workerAt EXCEPT ![w] = "logs"]
        /\ batch' = [batch EXCEPT ![w] = Received(w)]
    BY <1>7 DEF StartFlush, TakeBatch
  <2> QED BY <1>5, <2>1 DEF Shapes, InsertsAreMade
<1>8. ASSUME NEW w \in UsageWorkers, ReadTimesOut(w) PROVE Effect
  BY <1>8 DEF ReadTimesOut, Shapes, StorageGrows, AcksAreDue, InsertsAreMade
<1>9. ASSUME NEW w \in UsageWorkers, ReadFails(w) PROVE Effect
  <2>1. PICK S : entryAt' = Deliver(entryAt, S)
    BY <1>9 DEF ReadFails, ParseAndAckInvalid
  <2>2. UNCHANGED <<entryKinds, requestLogs, counted>> /\ HandleRuntimeError(w)
    BY <1>9 DEF ReadFails
  <2>3. /\ entryAt' \in [Entries -> {"unsent", "queued", "pending", "acked", "lost"}]
        /\ AcksAreDue
    BY <2>1, DeliverEffect DEF AcksAreDue
  <2> QED BY <2>2, <2>3, ErrorEffect DEF Shapes, StorageGrows, InsertsAreMade
<1>10. ASSUME NEW w \in UsageWorkers, UpsertRequestLogs(w) PROVE Effect
  <2>1. CASE HandleRuntimeError(w) /\ UNCHANGED requestLogs
    BY <1>10, <2>1, ErrorEffect
       DEF UpsertRequestLogs, Shapes, StorageGrows, AcksAreDue, InsertsAreMade
  <2>2. CASE /\ requestLogs' = requestLogs \cup Elements(batch[w])
             /\ workerAt' = [workerAt EXCEPT ![w] = "hourly"] /\ batch' = batch
    BY <1>10, <2>2 DEF UpsertRequestLogs, Shapes, StorageGrows, AcksAreDue, InsertsAreMade
  <2> QED BY <1>10, <2>1, <2>2 DEF UpsertRequestLogs
<1>11. ASSUME NEW w \in UsageWorkers, UpsertHourly(w) PROVE Effect
  <2>1. PICK done :
        /\ counted' = [t \in HourlyTables |->
                          counted[t] \cup IF t \in done THEN AggregationEvents(w) ELSE {}]
        /\ \/ /\ done = HourlyTables
              /\ workerAt' = [workerAt EXCEPT ![w] = "ack"]
              /\ batch' = batch
           \/ HandleRuntimeError(w)
    BY <1>11 DEF UpsertHourly
  <2>2. workerAt[w] = "hourly" /\ UNCHANGED <<entryKinds, entryAt, requestLogs>>
    BY <1>11 DEF UpsertHourly
  <2>3. StorageGrows /\ AcksAreDue /\ DOMAIN counted' = HourlyTables
    BY <2>1, <2>2 DEF StorageGrows, AcksAreDue
  <2>4. CASE HandleRuntimeError(w)
    BY <2>2, <2>3, <2>4, ErrorEffect DEF Shapes, InsertsAreMade
  <2>5. CASE /\ done = HourlyTables
             /\ workerAt' = [workerAt EXCEPT ![w] = "ack"] /\ batch' = batch
    BY <2>1, <2>2, <2>3, <2>5 DEF Shapes, InsertsAreMade
  <2> QED BY <2>1, <2>4, <2>5
<1>12. ASSUME NEW w \in UsageWorkers, AckBatch(w) PROVE Effect
  <2>1. PICK S \in {{}, Elements(batch[w])} : entryAt' = Acknowledge(entryAt, S)
    BY <1>12 DEF AckBatch
  <2>2. workerAt[w] = "ack" /\ UNCHANGED <<entryKinds, requestLogs, counted>>
    BY <1>12 DEF AckBatch
  <2>3. /\ entryAt' \in [Entries -> {"unsent", "queued", "pending", "acked", "lost"}]
        /\ AcksAreDue
    BY <2>1, <2>2 DEF Acknowledge, Shapes, AcksAreDue
  <2>4. CASE HandleRuntimeError(w)
    BY <2>2, <2>3, <2>4, ErrorEffect DEF Shapes, StorageGrows, InsertsAreMade
  <2>5. CASE /\ workerAt' = [workerAt EXCEPT ![w] = IF stopping[w] THEN "off" ELSE "reclaim"]
             /\ batch' = [batch EXCEPT ![w] = <<>>]
    BY <2>2, <2>3, <2>5 DEF Shapes, StorageGrows, InsertsAreMade
  <2> QED BY <1>12, <2>4, <2>5 DEF AckBatch
<1>13. ASSUME NEW w \in UsageWorkers, Shutdown(w) PROVE Effect
  <2>1. \/ workerAt' = [workerAt EXCEPT ![w] = "off"] /\ batch' = batch
        \/ /\ workerAt' = [workerAt EXCEPT ![w] = "logs"]
           /\ batch' = [batch EXCEPT ![w] = buffered[w]]
    BY <1>13 DEF Shutdown, TakeBatch
  <2> QED BY <1>13, <2>1 DEF Shutdown, Shapes, StorageGrows, AcksAreDue, InsertsAreMade
<1>14. ASSUME NEW w \in UsageWorkers, CrashWorker(w) PROVE Effect
  BY <1>14 DEF CrashWorker, Forget, Shapes, StorageGrows, AcksAreDue, InsertsAreMade
<1> QED
  BY <1>1, <1>2, <1>3, <1>4, <1>6, <1>7, <1>8, <1>9, <1>10, <1>11, <1>12, <1>13, <1>14
     DEF UsageWorkerNext, WorkerStep

\* Whatever interleaving of workers, failed calls, crashes and redeliveries led to it,
\* an entry that XACK removed from the group has its request-log row and its hourly
\* counts (flush_messages inserts before it acknowledges).
THEOREM AckedAlwaysStored == UsageWorkerSafetySpec => []AckedIsStored
<1>1. UsageWorkerInit => UsageInv
  BY DEF UsageWorkerInit, UsageInv, Shapes, LoggedBeforeHourly, CountedBeforeAck, AckedIsStored
<1>2. UsageInv /\ [UsageWorkerNext]_usageWorkerVars => UsageInv'
  <2>1. UsageInv /\ UNCHANGED usageWorkerVars => UsageInv'
    BY DEF UsageInv, Shapes, LoggedBeforeHourly, CountedBeforeAck, AckedIsStored, AggregationEvents,
           Elements, IsMalformed, usageWorkerVars, stream, worker, clickhouse
  <2>2. UsageInv /\ UsageWorkerNext => UsageInv'
    BY StepEffect, EffectKeepsInv DEF UsageInv
  <2> QED BY <2>1, <2>2
<1>3. UsageInv => AckedIsStored
  BY DEF UsageInv
<1> QED BY <1>1, <1>2, <1>3, PTL DEF UsageWorkerSafetySpec

-----------------------------------------------------------------------------
\* AccountPool: an account whose refreshes did not overlap keeps the refresh token its
\* provider accepts, for every number of accounts, families, callers and calls.

Flights == [at : {"idle", "wait", "ok", "reused", "invalid", "other", "unkept"}, cred : Credential]

TokenTypes ==
    /\ cred \in [OAuth -> Credential] /\ live \in [OAuth -> Nat]
    /\ flight \in [Workers -> [OAuth -> Flights]] /\ disturbed \subseteq OAuth

\* A refresh in flight, of an account whose credential l is what the provider
\* accepts: before the provider rotated the token it carries that token, and
\* afterwards the one before; it is never refused as reused, nor is its new
\* credential lost.
FlightIsSound(f, l) ==
    /\ f.at = "idle" => f = NoFlight
    /\ f.at \in {"wait", "other", "invalid"} =>
         f.cred.kept /\ f.cred.code # "reused" /\ f.cred.token = l
    /\ f.at = "ok" => f.cred.kept /\ f.cred.token + 1 = l
    /\ f.at \notin {"reused", "unkept"}

\* An undisturbed account has at most one refresh in flight, and between two
\* of them the token that is stored is the provider's.
TokenIsSound(a) ==
    /\ cred[a].kept => cred[a].code # "reused"
    /\ cred[a].kept /\ (\A w \in Workers : flight[w][a] = NoFlight) => cred[a].token = live[a]
    /\ \A w \in Workers : FlightIsSound(flight[w][a], live[a])
    /\ \A w, v \in Workers : flight[w][a] # NoFlight /\ flight[v][a] # NoFlight => w = v

\* The loop has not started the accounts it has yet to start.
LoopIsFree == \A a \in pass : a \in OAuth /\ flight[Loop][a] = NoFlight

PoolInv == TokenTypes /\ LoopIsFree /\ \A a \in OAuth \ disturbed : TokenIsSound(a)

LEMMA NewCredentials ==
    /\ NoCredential \in Credential /\ ~NoCredential.kept /\ NoFlight \in Flights /\ NoFlight.at = "idle"
    /\ \A n \in Nat : /\ NewCredential(n) \in Credential /\ NewCredential(n).kept
                      /\ NewCredential(n).token = n /\ NewCredential(n).code = "none"
<1>1. NoCredential \in Credential /\ ~NoCredential.kept
  BY ZenonT(40) DEF NoCredential, NewCredential, Credential
<1>2. NoFlight \in Flights /\ NoFlight.at = "idle"
  BY <1>1 DEF NoFlight, Flights
<1> QED BY <1>1, <1>2 DEF NewCredential, Credential

\* Steps that leave the refreshes alone and change of a stored credential only
\* its flags, or drop it.
Settled(a) ==
    /\ cred'[a] \in Credential
    /\ cred'[a].kept => cred[a].kept /\ cred'[a].code = cred[a].code /\ cred'[a].token = cred[a].token

LEMMA SettledKeeps ==
    ASSUME PoolInv, UNCHANGED <<flight, live, disturbed, pass>>,
           cred' = [a \in OAuth |-> cred'[a]], \A a \in OAuth : Settled(a)
    PROVE  PoolInv'
<1>1. TokenTypes'
  BY DEF PoolInv, TokenTypes, Settled
<1>2. ASSUME NEW a \in OAuth \ disturbed PROVE TokenIsSound(a)'
  BY DEF PoolInv, Settled, TokenIsSound
<1>3. LoopIsFree'
  BY DEF PoolInv, LoopIsFree
<1> QED BY <1>1, <1>2, <1>3 DEF PoolInv

LEMMA StartKeeps ==
    ASSUME PoolInv, NEW w \in Workers, NEW a \in OAuth, cred[a].kept,
           flight[w][a] = NoFlight, StartRefresh(w, a),
           pass' \subseteq pass, w = Loop => a \notin pass'
    PROVE  PoolInv'
<1> DEFINE f == [at |-> "wait", cred |-> cred[a]]
<1>0. TokenTypes
  BY DEF PoolInv
<1>1. f \in Flights /\ f.at = "wait" /\ f.cred = cred[a] /\ f # NoFlight
  BY <1>0, NewCredentials DEF TokenTypes, Flights
<1>2. flight' = [flight EXCEPT ![w][a] = f] /\ UNCHANGED <<cred, live>>
  BY DEF StartRefresh
<1> HIDE DEF f
<1>3. /\ flight' \in [Workers -> [OAuth -> Flights]]
      /\ flight'[w][a] = f
      /\ \A v \in Workers, b \in OAuth : v # w \/ b # a => flight'[v][b] = flight[v][b]
  BY <1>0, <1>1, <1>2 DEF TokenTypes
<1>4. /\ disturbed \subseteq disturbed' /\ disturbed' \subseteq OAuth
      /\ a \notin disturbed' => \A v \in Workers : flight[v][a] = NoFlight
  BY <1>0 DEF StartRefresh, TokenTypes
<1>5. TokenTypes'
  BY <1>0, <1>2, <1>3, <1>4 DEF TokenTypes
<1>6. ASSUME NEW b \in OAuth \ disturbed' PROVE TokenIsSound(b)'
  <2>1. b \in OAuth \ disturbed /\ TokenIsSound(b)
    BY <1>4 DEF PoolInv
  <2>2. CASE b # a
    BY <1>2, <1>3, <2>1, <2>2 DEF TokenIsSound
  <2>3. CASE b = a
    <3>1. \A v \in Workers : v # w => flight'[v][a] = NoFlight
      BY <1>3, <1>4, <2>3
    <3>2. cred[a].code # "reused" /\ cred[a].token = live[a] /\ FlightIsSound(NoFlight, live[a])
      BY <1>4, <2>1, <2>3 DEF TokenIsSound
    <3>3. FlightIsSound(f, live[a])
      BY <1>1, <3>2 DEF FlightIsSound
    <3> QED BY <1>1, <1>2, <1>3, <2>3, <3>1, <3>2, <3>3 DEF TokenIsSound
  <2> QED BY <2>2, <2>3
<1>7. LoopIsFree'
  BY <1>3 DEF PoolInv, LoopIsFree, Workers
<1> QED BY <1>5, <1>6, <1>7 DEF PoolInv

LEMMA ProviderKeeps ==
    ASSUME PoolInv, NEW w \in Workers, NEW a \in OAuth, CallProvider(w, a)
    PROVE  PoolInv'
<1>0. TokenTypes
  BY DEF PoolInv
<1>1. PICK s \in {"ok", "reused", "invalid", "other", "unkept"} :
        /\ flight' = [flight EXCEPT ![w][a].at = s]
        /\ a \notin disturbed' =>
             \/ /\ s = "ok" /\ flight[w][a].cred.token = live[a]
                /\ live' = [live EXCEPT ![a] = @ + 1]
             \/ s = "reused" /\ flight[w][a].cred.token # live[a]
             \/ s \in {"invalid", "other"} /\ live' = live
  BY DEF CallProvider
<1>2. /\ live' = live \/ live' = [live EXCEPT ![a] = @ + 1]
      /\ disturbed' = disturbed \/ disturbed' = disturbed \cup {a}
      /\ flight[w][a].at = "wait" /\ UNCHANGED <<cred, pass>>
  BY DEF CallProvider
<1> DEFINE f == [flight[w][a] EXCEPT !.at = s]
<1>3. f \in Flights /\ f.at = s /\ f.cred = flight[w][a].cred /\ flight' = [flight EXCEPT ![w][a] = f]
  BY <1>0, <1>1 DEF TokenTypes, Flights
<1> HIDE DEF f
<1>4. /\ flight' \in [Workers -> [OAuth -> Flights]]
      /\ flight'[w][a] = f
      /\ \A v \in Workers, b \in OAuth : v # w \/ b # a => flight'[v][b] = flight[v][b]
  BY <1>0, <1>3 DEF TokenTypes
<1>5. live' \in [OAuth -> Nat] /\ \A b \in OAuth : b # a => live'[b] = live[b]
  BY <1>0, <1>2 DEF TokenTypes
<1>6. TokenTypes'
  BY <1>0, <1>2, <1>4, <1>5 DEF TokenTypes
<1>7. ASSUME NEW b \in OAuth \ disturbed' PROVE TokenIsSound(b)'
  <2>1. b \in OAuth \ disturbed /\ TokenIsSound(b)
    BY <1>2 DEF PoolInv
  <2>2. CASE b # a
    BY <1>2, <1>4, <1>5, <2>1, <2>2 DEF TokenIsSound
  <2>3. CASE b = a
    <3>1. /\ flight[w][a].cred.kept /\ flight[w][a].cred.code # "reused"
          /\ flight[w][a].cred.token = live[a] /\ flight[w][a] # NoFlight
      BY <1>2, <2>1, <2>3, NewCredentials DEF TokenIsSound, FlightIsSound
    <3>2. \A v \in Workers : v # w => flight'[v][a] = NoFlight
      BY <1>4, <2>1, <2>3, <3>1 DEF TokenIsSound
    <3>3. f # NoFlight
      BY <1>3, NewCredentials
    <3>4. FlightIsSound(f, live'[a])
      <4>1. CASE s = "ok" /\ live' = [live EXCEPT ![a] = @ + 1]
        BY <1>0, <1>3, <3>1, <4>1 DEF FlightIsSound, TokenTypes
      <4>2. CASE s \in {"invalid", "other"} /\ live' = live
        BY <1>3, <3>1, <4>2 DEF FlightIsSound
      <4> QED BY <1>1, <2>3, <3>1, <4>1, <4>2
    <3>5. FlightIsSound(NoFlight, live'[a])
      BY NewCredentials DEF FlightIsSound
    <3>6. cred'[a].kept => cred'[a].code # "reused"
      BY <1>2, <2>1, <2>3 DEF TokenIsSound
    <3> QED BY <1>4, <2>3, <3>2, <3>3, <3>4, <3>5, <3>6 DEF TokenIsSound
  <2> QED BY <2>2, <2>3
<1>8. LoopIsFree'
  BY <1>2, <1>4, NewCredentials DEF PoolInv, LoopIsFree, Workers
<1> QED BY <1>6, <1>7, <1>8 DEF PoolInv

LEMMA FinishKeeps ==
    ASSUME PoolInv, NEW w \in Workers, NEW a \in OAuth, FinishRefresh(w, a)
    PROVE  PoolInv'
<1> DEFINE f == flight[w][a]
           c == IF f.at = "unkept" THEN cred[a]
                ELSE IF f.at = "ok" THEN Rotated(f.cred) ELSE Failed(f.cred, f.at)
<1>0. TokenTypes
  BY DEF PoolInv
<1>1. /\ flight' = [flight EXCEPT ![w][a] = NoFlight] /\ cred' = [cred EXCEPT ![a] = c]
      /\ f.at \notin {"idle", "wait"} /\ UNCHANGED <<live, disturbed, pass>>
  BY DEF FinishRefresh
<1>2. f \in Flights /\ f.at \in {"ok", "reused", "invalid", "other", "unkept"}
  <2>1. f \in Flights
    BY <1>0 DEF TokenTypes
  <2> QED BY <1>1, <2>1 DEF Flights
<1>3. f.at = "ok" => c \in Credential /\ c.kept /\ c.code = "none" /\ c.token = f.cred.token + 1
  BY <1>2, NewCredentials DEF Rotated, Flights, Credential
<1>4. f.at \in {"reused", "invalid", "other"} =>
        c \in Credential /\ c.kept = f.cred.kept /\ c.code = f.at /\ c.token = f.cred.token
  BY <1>2, ZenonT(40) DEF Failed, Flights, Credential
<1>11. f.at = "unkept" => c \in Credential
  BY <1>0 DEF TokenTypes
<1>5. f # NoFlight
  BY <1>2, NewCredentials
<1> HIDE DEF c
<1>6. /\ flight' \in [Workers -> [OAuth -> Flights]]
      /\ flight'[w][a] = NoFlight
      /\ \A v \in Workers, b \in OAuth : v # w \/ b # a => flight'[v][b] = flight[v][b]
  BY <1>0, <1>1, NewCredentials DEF TokenTypes
<1>7. cred' \in [OAuth -> Credential] /\ cred'[a] = c /\ \A b \in OAuth : b # a => cred'[b] = cred[b]
  BY <1>0, <1>1, <1>2, <1>3, <1>4, <1>11 DEF TokenTypes
<1>8. TokenTypes'
  BY <1>0, <1>1, <1>6, <1>7 DEF TokenTypes
<1>9. ASSUME NEW b \in OAuth \ disturbed' PROVE TokenIsSound(b)'
  <2>1. b \in OAuth \ disturbed /\ TokenIsSound(b)
    BY <1>1 DEF PoolInv
  <2>2. CASE b # a
    BY <1>1, <1>6, <1>7, <2>1, <2>2 DEF TokenIsSound
  <2>3. CASE b = a
    <3>1. FlightIsSound(f, live[a])
      BY <2>1, <2>3 DEF TokenIsSound
    <3>2. c.kept /\ c.code # "reused" /\ c.token = live[a]
      BY <1>2, <1>3, <1>4, <3>1 DEF FlightIsSound
    <3>3. \A v \in Workers : flight'[v][a] = NoFlight
      BY <1>5, <1>6, <2>1, <2>3 DEF TokenIsSound
    <3>4. FlightIsSound(NoFlight, live[a])
      BY NewCredentials DEF FlightIsSound
    <3> QED BY <1>1, <1>7, <2>3, <3>2, <3>3, <3>4 DEF TokenIsSound
  <2> QED BY <2>2, <2>3
<1>10. LoopIsFree'
  BY <1>1, <1>6 DEF PoolInv, LoopIsFree, Workers
<1> QED BY <1>8, <1>9, <1>10 DEF PoolInv

\* Every step of the pool keeps the invariant.
LEMMA PoolStep == PoolInv /\ [PoolNext]_poolVars => PoolInv'
<1> SUFFICES ASSUME PoolInv, [PoolNext]_poolVars PROVE PoolInv'
  OBVIOUS
<1>0. TokenTypes
  BY DEF PoolInv
<1>1. CASE UNCHANGED <<cred, flight, live, disturbed>> /\ pass' \subseteq pass
  BY <1>1 DEF PoolInv, TokenTypes, TokenIsSound, LoopIsFree
<1>2. ASSUME NEW w \in Workers, NEW a \in OAuth, CallProvider(w, a) \/ FinishRefresh(w, a)
      PROVE  PoolInv'
  BY <1>2, ProviderKeeps, FinishKeeps
<1>3. ASSUME NEW a \in OAuth, LoopRefresh(a) PROVE PoolInv'
  <2>1. CASE MayRefresh(a, FALSE) /\ StartRefresh(Loop, a)
    <3>1. Loop \in Workers /\ cred[a].kept
      BY <2>1 DEF Workers, MayRefresh
    <3>2. flight[Loop][a] = NoFlight /\ pass' \subseteq pass /\ a \notin pass'
      BY <1>3 DEF PoolInv, LoopIsFree, LoopRefresh
    <3> QED BY <2>1, <3>1, <3>2, StartKeeps
  <2> QED BY <1>1, <1>3, <2>1, ZenonT(40) DEF LoopRefresh
<1>4. ASSUME NEW c \in Callers, NEW a \in OAuth, ForceRefresh(c, a) PROVE PoolInv'
  <2>1. c \in Workers /\ c # Loop
    BY PoolAssumption DEF Workers
  <2>2. /\ cred[a].kept /\ flight[c][a] = NoFlight /\ StartRefresh(c, a)
        /\ pass' = pass
    BY <1>4 DEF ForceRefresh, MayRefresh
  <2> QED BY <2>1, <2>2, StartKeeps
<1>5. ASSUME NEW c \in Callers, NEW a \in OAuth, NEW on \in BOOLEAN, SetFamilyEnabled(c, a, on)
      PROVE  PoolInv'
  <2>1. /\ cred' = [b \in OAuth |-> IF on /\ b \in FamilyOf(a)
                                THEN [cred[b] EXCEPT !.reused = FALSE, !.backoff = FALSE] ELSE cred[b]]
        /\ UNCHANGED <<flight, live, disturbed, pass>>
    BY <1>5, ZenonT(40) DEF SetFamilyEnabled
  <2>2. ASSUME NEW b \in OAuth PROVE Settled(b)
    <3>1. cred[b] \in Credential
      BY <1>0 DEF TokenTypes
    <3>2. cred'[b] \in {cred[b], [cred[b] EXCEPT !.reused = FALSE, !.backoff = FALSE]}
      BY <2>1, ZenonT(40)
    <3> QED BY <3>1, <3>2, ZenonT(40) DEF Settled, Credential
  <2>3. cred' = [b \in OAuth |-> cred'[b]]
    BY <2>1, ZenonT(40)
  <2> QED BY <2>1, <2>2, <2>3, SettledKeeps, ZenonT(40)
<1>6. ASSUME NEW a, ForgetAccount(a), UNCHANGED <<flight, live, disturbed, pass>> PROVE PoolInv'
  <2>1. cred' = [b \in OAuth |-> IF b = a THEN NoCredential ELSE cred[b]]
    BY <1>6 DEF ForgetAccount
  <2>2. \A b \in OAuth : Settled(b)
    BY <1>0, <2>1, NewCredentials DEF TokenTypes, Settled
  <2> QED BY <1>6, <2>1, <2>2, SettledKeeps
<1>7. ASSUME NEW a \in OAuth, TokenNearsExpiry(a) \/ BackoffEnds(a) \/ FallbackExpires(a) PROVE PoolInv'
  <2>1. UNCHANGED <<flight, live, disturbed, pass>>
        /\ (\/ cred' = [cred EXCEPT ![a].expiring = TRUE] \/ cred' = [cred EXCEPT ![a].backoff = FALSE]
            \/ cred' = [cred EXCEPT ![a].fallback = FALSE])
    BY <1>7 DEF TokenNearsExpiry, BackoffEnds, FallbackExpires
  <2>2. ASSUME NEW b \in OAuth PROVE Settled(b)
    <3>1. cred[b] \in Credential
      BY <1>0 DEF TokenTypes
    <3>2. cred'[b] \in {cred[b], [cred[b] EXCEPT !.expiring = TRUE], [cred[b] EXCEPT !.backoff = FALSE],
                     [cred[b] EXCEPT !.fallback = FALSE]}
      BY <1>0, <2>1 DEF TokenTypes
    <3> QED BY <3>1, <3>2, ZenonT(40) DEF Settled, Credential
  <2>3. cred' = [b \in OAuth |-> cred'[b]]
    BY <1>0, <2>1 DEF TokenTypes
  <2> QED BY <2>1, <2>2, <2>3, SettledKeeps
<1>8. CASE UNCHANGED poolVars
  BY <1>1, <1>8 DEF poolVars
<1>9. ASSUME NEW w \in Workers, WriteSome(w) PROVE PoolInv'
  BY <1>1, <1>9 DEF WriteSome, WriteState, SwitchAccounts
<1>10. CASE StartPurge \/ PurgeFallsDue \/ (\E a \in OneTime : ExpireOneTime(a))
            \/ (\E a \in Accounts : QuarantineEnds(a))
  BY <1>1, <1>10 DEF StartPurge, PurgeFallsDue, ExpireOneTime, QuarantineEnds
<1>11. CASE PurgeNext
  BY <1>1, <1>6, <1>11 DEF PurgeNext
<1>12. ASSUME NEW c \in Callers, NEW a \in Accounts,
              \/ \E r \in {"ok", "deactivated", "limited", "invalidated", "other"} : LiveResult(c, a, r)
              \/ MarkPendingPurge(c, a) \/ DeleteAccount(c, a) \/ StartProbe(c, a)
              \/ \E on \in BOOLEAN : SetEnabled(c, a, on)
       PROVE  PoolInv'
  BY <1>1, <1>6, <1>12 DEF LiveResult, MarkPendingPurge, DeleteAccount, StartProbe, SetEnabled
<1>13. ASSUME NEW c \in Callers, NEW outcome \in {"ok", "fatal", "limited"}, EndProbe(c, outcome)
       PROVE  PoolInv'
  BY <1>1, <1>13 DEF EndProbe
<1>14. CASE StartPass
  <2>1. /\ pass' \subseteq OAuth /\ \A a \in OAuth : flight[Loop][a] = NoFlight
        /\ UNCHANGED <<cred, flight, live, disturbed>>
    BY <1>14, ZenonT(40) DEF StartPass
  <2> QED BY <2>1 DEF PoolInv, TokenTypes, TokenIsSound, LoopIsFree
<1> QED BY <1>2, <1>3, <1>4, <1>5, <1>7, <1>8, <1>9, <1>10, <1>11, <1>12, <1>13, <1>14
     DEF PoolNext, Work, LoopOn

\* The stored refresh token of an account is the one its provider accepts,
\* unless its refreshes overlapped, an answer was lost or the provider revoked
\* it: whatever was deleted, purged, enabled or reported in between.
THEOREM StoredTokenAlwaysLive == PoolSafetySpec => []StoredTokenIsLive
<1>1. PoolInit => PoolInv
  <2> SUFFICES ASSUME PoolInit PROVE PoolInv
    OBVIOUS
  <2>1. ASSUME NEW a \in OAuth
        PROVE  cred[a] \in Credential /\ cred[a].code = "none" /\ cred[a].token = 0
    <3>1. cred[a] \in {NewCredential(0), [NewCredential(0) EXCEPT !.fallback = TRUE],
                     [NewCredential(0) EXCEPT !.sealed = TRUE], NoCredential}
      BY DEF PoolInit
    <3>2. /\ NewCredential(0) \in Credential /\ NewCredential(0).kept
          /\ NewCredential(0).code = "none" /\ NewCredential(0).token = 0
      BY NewCredentials
    <3>3. NoCredential \in Credential /\ NoCredential.code = "none" /\ NoCredential.token = 0
      BY <3>2, NewCredentials, ZenonT(40) DEF NoCredential, NewCredential
    <3> QED BY <3>1, <3>2, <3>3, ZenonT(40) DEF Credential
  <2>2. TokenTypes
    BY <2>1, NewCredentials DEF PoolInit, TokenTypes
  <2>3. \A w \in Workers, a \in OAuth : flight[w][a] = NoFlight /\ live[a] = 0
    BY DEF PoolInit
  <2>4. FlightIsSound(NoFlight, 0)
    BY NewCredentials DEF FlightIsSound
  <2> QED BY <2>1, <2>2, <2>3, <2>4 DEF PoolInv, PoolInit, LoopIsFree, TokenIsSound
<1>2. PoolInv => StoredTokenIsLive
  BY DEF PoolInv, TokenIsSound, StoredTokenIsLive
<1> QED BY <1>1, <1>2, PoolStep, PTL DEF PoolSafetySpec
=============================================================================
