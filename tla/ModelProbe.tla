----------------------------- MODULE ModelProbe -----------------------------
(***************************************************************************)
(* What the control plane believes about models                            *)
(* (core_handlers/models_probe.rs).  A cycle, started by a timer or by an  *)
(* administrator, asks every enabled account for its list of models,       *)
(* records what each supports (ModelRouting routes by it), and replaces    *)
(* the cache behind the administrators' page; meanwhile the data plane     *)
(* reports models that served a request, and the page lays the request     *)
(* log over the cache.                                                     *)
(***************************************************************************)
EXTENDS Integers, Sequences, FiniteSets

CONSTANTS
  ProbeAccounts,   \* enabled accounts, in the order of the snapshot
  WorkspaceOf,     \* account -> its workspace, or "none"
  PrModels, Catalog,
  Lists,           \* the lists an account may answer with
  Cycles,          \* cycles that may run at once
  MaxCycles, MaxMarks

VARIABLES
  prCache,      \* [age, entries]: age of updated_at; model -> status
  recorded,     \* account -> models last recorded as supported
  logged,       \* models with a recent successful request in the log
  cycle,        \* the cycles in progress
  listedEver, servedEver,   \* history: what an account listed, what served
  marks, cyclesRun

prVars == <<prCache, recorded, logged, cycle, listedEver, servedEver, marks, cyclesRun>>

NoCycle == [step |-> "none"]
Fresh == "fresh"          \* younger than MODEL_PROBE_CACHE_TTL_SEC
Recent == "recent"        \* younger than twice that
Members(s) == {s[i] : i \in DOMAIN s}
AvailableIn(e) == {m \in DOMAIN e : e[m] = "available"}

-----------------------------------------------------------------------------
\* The accounts of a cycle: one per workspace, the first of the snapshot (the
\* order never rotates: the preferred label is a summary, not an account's).
DedupeProbeAccounts ==
  SelectSeq(ProbeAccounts, LAMBDA a :
    \/ WorkspaceOf[a] = "none"
    \/ \A k \in DOMAIN ProbeAccounts :
         WorkspaceOf[ProbeAccounts[k]] = WorkspaceOf[a] =>
           \E l \in 1..k : ProbeAccounts[l] = a)

\* fetch_upstream_models_for_account: listed models, an answer that is not a
\* list, an error status, or no answer.
FetchResults == {[ok |-> TRUE, models |-> S] : S \in Lists} \cup {[ok |-> FALSE, models |-> {}]}
IsSuccessfulModelsFetch(r) == r.ok

\* build_probe_entries_from_account_results.
ProbeEntriesAsRequested(results, requested) ==
  LET listed == UNION {results[a].models : a \in DOMAIN results} \cup requested
  IN  [m \in Catalog \cup listed |-> IF m \in listed THEN "available" ELSE "unavailable"]

ProbeEntries(results, requested) ==
  LET listed == UNION {results[a].models : a \in {b \in DOMAIN results : IsSuccessfulModelsFetch(results[b])}}
      targets == Catalog \cup requested \cup listed
  IN  [m \in targets |-> IF m \in listed THEN "available" ELSE "unavailable"]

\* apply_recent_successful_request_models; without a usage repository, or when
\* the query fails, nothing is laid over.
Overlay(e, models) == [m \in DOMAIN e \cup models |-> IF m \in models THEN "available" ELSE e[m]]

-----------------------------------------------------------------------------
\* run_model_probe_cycle.

BeginCycle(c, force, requested) ==
  /\ cycle[c] = NoCycle /\ cyclesRun < MaxCycles
  /\ force \/ requested # {} \/ prCache.age # Fresh
  /\ DedupeProbeAccounts # <<>>
  /\ cyclesRun' = cyclesRun + 1
  /\ cycle' = [cycle EXCEPT ![c] = [step |-> "fetch", force |-> force, requested |-> requested]]
  /\ UNCHANGED <<prCache, recorded, logged, listedEver, servedEver, marks>>

\* The fetches run concurrently and are collected in the accounts' order.
FetchAll(c) ==
  /\ cycle[c].step = "fetch"
  /\ \E results \in [Members(DedupeProbeAccounts) -> FetchResults] :
       /\ cycle' = [cycle EXCEPT ![c] = [step |-> "record", force |-> cycle[c].force,
                      requested |-> cycle[c].requested, results |-> results, left |-> DedupeProbeAccounts]]
       /\ listedEver' = listedEver \cup UNION {results[a].models : a \in DOMAIN results}
  /\ UNCHANGED <<prCache, recorded, logged, servedEver, marks, cyclesRun>>

\* One awaited write per account that answered; an error is only logged.
RecordSupport(c) ==
  /\ cycle[c].step = "record" /\ cycle[c].left # <<>>
  /\ LET a == Head(cycle[c].left) IN
       /\ cycle' = [cycle EXCEPT ![c].left = Tail(@)]
       /\ recorded' \in IF IsSuccessfulModelsFetch(cycle[c].results[a])
                          THEN {[recorded EXCEPT ![a] = cycle[c].results[a].models], recorded}
                          ELSE {recorded}
  /\ UNCHANGED <<prCache, logged, listedEver, servedEver, marks, cyclesRun>>

\* A cycle nobody forced that found nothing leaves a recent cache that had
\* something as it is.
KeepsPrevious(c, entries) ==
  /\ ~cycle[c].force
  /\ DOMAIN entries # {} /\ AvailableIn(entries) = {}
  /\ AvailableIn(prCache.entries) # {} /\ prCache.age \in {Fresh, Recent}

CheckCycle(c) ==
  /\ cycle[c].step = "record" /\ cycle[c].left = <<>>
  /\ \E seen \in {logged, {}} :
       LET entries == Overlay(ProbeEntries(cycle[c].results, cycle[c].requested), seen) IN
         cycle' = [cycle EXCEPT ![c] =
           IF KeepsPrevious(c, entries) THEN NoCycle
           ELSE [step |-> "write", force |-> cycle[c].force, entries |-> entries, raced |-> FALSE]]
  /\ UNCHANGED <<prCache, recorded, logged, listedEver, servedEver, marks, cyclesRun>>

\* History: the cache was written between a cycle's look and its write.
Raced == [c \in Cycles |-> IF cycle[c].step = "write" THEN [cycle[c] EXCEPT !.raced = TRUE] ELSE cycle[c]]

\* The write takes the lock again: a mark can come in between.
WriteProbeCache(c) ==
  /\ cycle[c].step = "write"
  /\ prCache' = [age |-> Fresh, entries |-> cycle[c].entries]
  /\ cycle' = [Raced EXCEPT ![c] = NoCycle]
  /\ UNCHANGED <<recorded, logged, listedEver, servedEver, marks, cyclesRun>>

\* A request with the model succeeds: the data plane reports it
\* (internal_mark_upstream_model_seen_ok), the log gets its row on its own way.
MarkModelAvailable(m) ==
  /\ marks < MaxMarks
  /\ marks' = marks + 1
  /\ servedEver' = servedEver \cup {m}
  /\ \/ /\ prCache' = [age |-> Fresh, entries |-> Overlay(prCache.entries, {m})]
        /\ cycle' = Raced
     \/ UNCHANGED <<prCache, cycle>>   \* the report is throttled or lost
  /\ UNCHANGED <<recorded, logged, listedEver, cyclesRun>>

\* The row of a served request enters the window of the query, and leaves it.
LogRow(m) ==
  /\ m \in servedEver
  /\ logged' = IF m \in logged THEN logged \ {m} ELSE logged \cup {m}
  /\ UNCHANGED <<prCache, recorded, cycle, listedEver, servedEver, marks, cyclesRun>>

CacheAges ==
  /\ prCache.age \in {Fresh, Recent}
  /\ prCache' = [prCache EXCEPT !.age = IF @ = Fresh THEN Recent ELSE "old"]
  /\ UNCHANGED <<recorded, logged, cycle, listedEver, servedEver, marks, cyclesRun>>

-----------------------------------------------------------------------------
\* build_admin_model_items: the catalogue with the status of each model, and
\* the models outside it that are available.  A price set by hand hides the
\* catalogue's.
AdminModelItems(entries) ==
  {[id |-> m, status |-> IF m \in DOMAIN entries THEN entries[m] ELSE "unknown"] : m \in Catalog}
    \cup {[id |-> m, status |-> "available"] : m \in AvailableIn(entries) \ Catalog}

AdminModels == AdminModelItems(Overlay(prCache.entries, logged))

PrInit ==
  /\ prCache = [age |-> "never", entries |-> <<>>]
  /\ recorded = [a \in Members(ProbeAccounts) |-> {}]
  /\ logged = {} /\ listedEver = {} /\ servedEver = {}
  /\ cycle = [c \in Cycles |-> NoCycle]
  /\ marks = 0 /\ cyclesRun = 0

CycleStep(c) == FetchAll(c) \/ RecordSupport(c) \/ CheckCycle(c) \/ WriteProbeCache(c)

PrNext ==
  \/ \E c \in Cycles : CycleStep(c) \/ \E force \in BOOLEAN, S \in {{}, PrModels \ Catalog} : BeginCycle(c, force, S)
  \/ \E m \in PrModels : MarkModelAvailable(m) \/ LogRow(m)
  \/ CacheAges

PrSpec == PrInit /\ [][PrNext]_prVars

-----------------------------------------------------------------------------
\* A model on the administrators' page as available was listed by an account
\* or served a request; and the page shows every model once.
AvailableHasEvidence ==
  /\ \A i \in AdminModels : i.status = "available" => i.id \in listedEver \cup servedEver
  /\ \A i, j \in AdminModels : i.id = j.id => i = j

=============================================================================
