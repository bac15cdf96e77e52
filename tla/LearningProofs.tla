--------------------------- MODULE LearningProofs ----------------------------
(***************************************************************************)
(* What is proved of what the control plane learns from traffic: a model   *)
(* is available on evidence alone (ModelProbe), and a template counts      *)
(* every error it stands for (ErrorLearning).                              *)
(***************************************************************************)
EXTENDS ModelProbe, ErrorLearning, TLAPS

-----------------------------------------------------------------------------
\* ModelProbe: what calls a model available, for any number of cycles, accounts and
\* models.

Evidence == listedEver \cup servedEver

\* Entries that call no model available without evidence.
Backed(entries) == AvailableIn(entries) \subseteq Evidence

\* What a cycle carries from its fetches to its write.
CycleIsBacked(c) ==
  /\ cycle[c].step = "record" => \A a \in DOMAIN cycle[c].results : cycle[c].results[a].models \subseteq listedEver
  /\ cycle[c].step = "write" => Backed(cycle[c].entries)

ProbeInv ==
  /\ cycle = [c \in Cycles |-> cycle[c]]
  /\ logged \subseteq servedEver
  /\ Backed(prCache.entries)
  /\ \A c \in Cycles : CycleIsBacked(c)

LEMMA OverlayIsBacked ==
  ASSUME NEW e, NEW S, Backed(e), S \subseteq Evidence
  PROVE  Backed(Overlay(e, S))
  BY DEF Backed, AvailableIn, Overlay

LEMMA ProbeEntriesAreBacked ==
  ASSUME NEW results, NEW requested,
         \A a \in DOMAIN results : results[a].models \subseteq listedEver
  PROVE  Backed(ProbeEntries(results, requested))
  BY DEF Backed, AvailableIn, ProbeEntries, Evidence

LEMMA ProbeInitInv == PrInit => ProbeInv
<1> SUFFICES ASSUME PrInit PROVE ProbeInv OBVIOUS
<1>1. Backed(prCache.entries)
  BY DEF PrInit, Backed, AvailableIn
<1>2. cycle = [c \in Cycles |-> cycle[c]] /\ \A c \in Cycles : cycle[c].step = "none"
  BY DEF PrInit, NoCycle
<1> QED BY <1>1, <1>2 DEF PrInit, ProbeInv, CycleIsBacked

\* Evidence is never lost, so what is backed stays so.
LEMMA EvidenceGrows ==
  ASSUME PrNext
  PROVE  listedEver \subseteq listedEver' /\ servedEver \subseteq servedEver'
  BY ZenonT(40) DEF PrNext, CycleStep, BeginCycle, FetchAll, RecordSupport, CheckCycle, WriteProbeCache,
         MarkModelAvailable, LogRow, CacheAges

LEMMA StaysBacked ==
  ASSUME listedEver \subseteq listedEver', servedEver \subseteq servedEver', NEW e, Backed(e)
  PROVE  AvailableIn(e) \subseteq Evidence'
  BY DEF Backed, Evidence

\* A cycle that does not move stays backed.
LEMMA CycleStaysBacked ==
  ASSUME ProbeInv, listedEver \subseteq listedEver', servedEver \subseteq servedEver',
         NEW c \in Cycles, cycle'[c] = cycle[c]
  PROVE  CycleIsBacked(c)'
  BY DEF ProbeInv, CycleIsBacked, Backed, Evidence

\* One cycle moves, and carries only what it has evidence for.
LEMMA CycleMoves ==
  ASSUME ProbeInv, listedEver \subseteq listedEver', servedEver \subseteq servedEver',
         UNCHANGED <<prCache, logged>>, NEW c \in Cycles, NEW v, cycle' = [cycle EXCEPT ![c] = v],
         v.step = "record" => \A a \in DOMAIN v.results : v.results[a].models \subseteq listedEver',
         v.step = "write" => AvailableIn(v.entries) \subseteq Evidence'
  PROVE  ProbeInv'
<1>1. cycle' = [d \in Cycles |-> IF d = c THEN v ELSE cycle[d]]
  BY DEF ProbeInv
<1>2. ASSUME NEW d \in Cycles PROVE CycleIsBacked(d)'
  <2>1. CASE d = c BY <1>1, <2>1 DEF CycleIsBacked, Backed
  <2>2. CASE d # c BY <1>1, <2>2, CycleStaysBacked
  <2> QED BY <2>1, <2>2
<1>3. Backed(prCache.entries)' /\ logged' \subseteq servedEver'
  BY DEF ProbeInv, Backed, Evidence
<1> QED BY <1>1, <1>2, <1>3 DEF ProbeInv

LEMMA RacedIsBacked ==
  ASSUME ProbeInv, listedEver \subseteq listedEver', servedEver \subseteq servedEver',
         NEW c \in Cycles, cycle'[c] = Raced[c]
  PROVE  CycleIsBacked(c)'
<1>1. CASE cycle[c].step = "write"
  <2>1. cycle'[c].step = "write" /\ cycle'[c].entries = cycle[c].entries
    BY <1>1 DEF Raced
  <2> QED BY <1>1, <2>1 DEF ProbeInv, CycleIsBacked, Backed, Evidence
<1>2. CASE cycle[c].step # "write"
  BY <1>2, CycleStaysBacked DEF Raced
<1> QED BY <1>1, <1>2

LEMMA CycleStepInv ==
  ASSUME ProbeInv, NEW c \in Cycles, CycleStep(c)
  PROVE  ProbeInv'
<1>0. listedEver \subseteq listedEver' /\ servedEver \subseteq servedEver'
  BY EvidenceGrows DEF PrNext
<1>1. CASE FetchAll(c)
  <2>1. PICK results \in [Members(DedupeProbeAccounts) -> FetchResults] :
          /\ cycle' = [cycle EXCEPT ![c] = [step |-> "record", force |-> cycle[c].force,
                        requested |-> cycle[c].requested, results |-> results, left |-> DedupeProbeAccounts]]
          /\ listedEver' = listedEver \cup UNION {results[a].models : a \in DOMAIN results}
    BY <1>1, ZenonT(40) DEF FetchAll
  <2>2. \A a \in DOMAIN results : results[a].models \subseteq listedEver'
    BY <2>1
  <2> QED BY <1>0, <1>1, <2>1, <2>2, CycleMoves, ZenonT(40) DEF FetchAll
<1>2. CASE RecordSupport(c)
  <2> DEFINE v == [cycle[c] EXCEPT !.left = Tail(@)]
  <2>1. cycle' = [cycle EXCEPT ![c] = v]
    BY <1>2 DEF RecordSupport
  <2>2. v.step = cycle[c].step /\ v.results = cycle[c].results /\ cycle[c].step = "record"
    BY <1>2 DEF RecordSupport
  <2> HIDE DEF v
  <2>3. \A a \in DOMAIN v.results : v.results[a].models \subseteq listedEver'
    BY <1>0, <2>2 DEF ProbeInv, CycleIsBacked
  <2> QED BY <1>0, <1>2, <2>1, <2>2, <2>3, CycleMoves, ZenonT(40) DEF RecordSupport
<1>3. CASE CheckCycle(c)
  <2>1. PICK seen \in {logged, {}} :
          LET entries == Overlay(ProbeEntries(cycle[c].results, cycle[c].requested), seen)
          IN  cycle' = [cycle EXCEPT ![c] = IF KeepsPrevious(c, entries) THEN NoCycle
                 ELSE [step |-> "write", force |-> cycle[c].force, entries |-> entries, raced |-> FALSE]]
    BY <1>3, ZenonT(40) DEF CheckCycle
  <2> DEFINE entries == Overlay(ProbeEntries(cycle[c].results, cycle[c].requested), seen)
             v == IF KeepsPrevious(c, entries) THEN NoCycle
                  ELSE [step |-> "write", force |-> cycle[c].force, entries |-> entries, raced |-> FALSE]
  <2>2. Backed(entries)
    <3>1. \A a \in DOMAIN cycle[c].results : cycle[c].results[a].models \subseteq listedEver
      BY <1>3 DEF CheckCycle, ProbeInv, CycleIsBacked
    <3>2. Backed(ProbeEntries(cycle[c].results, cycle[c].requested))
      BY <3>1, ProbeEntriesAreBacked
    <3>3. seen \subseteq Evidence
      BY DEF ProbeInv, Evidence
    <3> QED BY <3>2, <3>3, OverlayIsBacked
  <2>3. cycle' = [cycle EXCEPT ![c] = v]
    BY <2>1
  <2>4. v.step = "none" \/ (v.step = "write" /\ v.entries = entries)
    BY DEF NoCycle
  <2>5. AvailableIn(entries) \subseteq Evidence'
    BY <1>0, <2>2, StaysBacked
  <2> HIDE DEF v, entries
  <2> QED BY <1>0, <1>3, <2>3, <2>4, <2>5, CycleMoves, ZenonT(40) DEF CheckCycle
<1>4. CASE WriteProbeCache(c)
  <2>1. cycle' = [Raced EXCEPT ![c] = NoCycle]
    BY <1>4 DEF WriteProbeCache
  <2>2. cycle' = [d \in Cycles |-> IF d = c THEN NoCycle ELSE Raced[d]]
    BY <2>1, ZenonT(40) DEF Raced
  <2>3. ASSUME NEW d \in Cycles PROVE CycleIsBacked(d)'
    <3>1. CASE d = c BY <2>2, <3>1 DEF CycleIsBacked, NoCycle
    <3>2. CASE d # c BY <1>0, <2>2, <3>2, RacedIsBacked
    <3> QED BY <3>1, <3>2
  <2>4. Backed(prCache.entries)'
    BY <1>4 DEF WriteProbeCache, ProbeInv, CycleIsBacked, Backed, Evidence
  <2>5. logged' \subseteq servedEver'
    BY <1>4 DEF WriteProbeCache, ProbeInv
  <2> QED BY <2>2, <2>3, <2>4, <2>5 DEF ProbeInv
<1> QED BY <1>1, <1>2, <1>3, <1>4 DEF CycleStep

LEMMA BeginCycleInv ==
  ASSUME ProbeInv, NEW c \in Cycles, NEW force, NEW requested, BeginCycle(c, force, requested)
  PROVE  ProbeInv'
<1> DEFINE v == [step |-> "fetch", force |-> force, requested |-> requested]
<1>1. cycle' = [cycle EXCEPT ![c] = v] /\ v.step = "fetch"
  BY DEF BeginCycle
<1> HIDE DEF v
<1> QED BY <1>1, CycleMoves, ZenonT(40) DEF BeginCycle

LEMMA MarkInv ==
  ASSUME ProbeInv, NEW m \in PrModels, MarkModelAvailable(m)
  PROVE  ProbeInv'
<1>0. /\ listedEver' = listedEver /\ servedEver' = servedEver \cup {m} /\ logged' = logged
  BY DEF MarkModelAvailable
<1>1. CASE UNCHANGED <<prCache, cycle>>
  BY <1>0, <1>1, CycleStaysBacked DEF ProbeInv, Backed, Evidence
<1>2. CASE prCache' = [age |-> Fresh, entries |-> Overlay(prCache.entries, {m})] /\ cycle' = Raced
  <2>1. Backed(prCache.entries)'
    BY <1>0, <1>2 DEF ProbeInv, Backed, Evidence, Overlay, AvailableIn
  <2>2. cycle' = [d \in Cycles |-> cycle'[d]]
    BY <1>2 DEF Raced
  <2> QED BY <1>0, <1>2, <2>1, <2>2, RacedIsBacked DEF ProbeInv
<1> QED BY <1>1, <1>2 DEF MarkModelAvailable

LEMMA ProbeNextInv == ProbeInv /\ [PrNext]_prVars => ProbeInv'
<1> SUFFICES ASSUME ProbeInv, [PrNext]_prVars PROVE ProbeInv' OBVIOUS
<1>1. CASE UNCHANGED prVars
  BY <1>1 DEF prVars, ProbeInv, CycleIsBacked, Backed, Evidence
<1>2. ASSUME NEW m \in PrModels, LogRow(m) PROVE ProbeInv'
  <2>1. /\ UNCHANGED <<prCache, cycle, listedEver, servedEver>> /\ logged' \subseteq servedEver'
    BY <1>2 DEF LogRow, ProbeInv
  <2> QED BY <2>1, CycleStaysBacked DEF ProbeInv, Backed, Evidence
<1>3. CASE CacheAges
  <2>1. /\ UNCHANGED <<logged, cycle, listedEver, servedEver>> /\ prCache'.entries = prCache.entries
    BY <1>3 DEF CacheAges
  <2> QED BY <2>1, CycleStaysBacked DEF ProbeInv, Backed, Evidence
<1> QED BY <1>1, <1>2, <1>3, CycleStepInv, BeginCycleInv, MarkInv DEF PrNext

LEMMA ProbeInvShowsEvidence == ProbeInv => AvailableHasEvidence
<1> SUFFICES ASSUME ProbeInv PROVE AvailableHasEvidence OBVIOUS
<1> DEFINE shown == Overlay(prCache.entries, logged)
<1>1. Backed(shown)
  BY OverlayIsBacked DEF ProbeInv, Evidence
<1>2. ASSUME NEW i \in AdminModels, i.status = "available"
      PROVE  i.id \in listedEver \cup servedEver
  BY <1>1, <1>2 DEF AdminModels, AdminModelItems, Backed, AvailableIn, Evidence
<1>3. ASSUME NEW i \in AdminModels, NEW j \in AdminModels, i.id = j.id PROVE i = j
  <2> HIDE DEF shown
  <2>1. \A x \in AdminModels :
          x = [id |-> x.id, status |-> IF x.id \in Catalog
                                       THEN IF x.id \in DOMAIN shown THEN shown[x.id] ELSE "unknown"
                                       ELSE "available"]
    BY DEF AdminModels, AdminModelItems, shown
  <2> QED BY <1>3, <2>1
<1> QED BY <1>2, <1>3 DEF AvailableHasEvidence

\* For any accounts, cycles and reports: what the page shows as available was listed
\* by an account or served a request, and every model is shown once.
THEOREM AvailableAlwaysHasEvidence == PrSpec => []AvailableHasEvidence
  BY ProbeInitInv, ProbeNextInv, ProbeInvShowsEvidence, PTL DEF PrSpec

-----------------------------------------------------------------------------
\* ErrorLearning: the hits of a template, for any number of requests, reviewers and
\* fingerprints.

Texts == [ErrLocales -> {"none", "default", "ai", "admin"}]
Actions == {"none", "fail", "retry_cross"}
CodeNames == Codes \cup {"none", "novel"}
Template == [status : {"absent", "provisional", "pending", "approved", "rejected"},
             code : CodeNames, action : Actions, texts : Texts,
             hits : Nat, saves : Nat, reviewed : Nat]
Resolve == [step : {"idle", "lock", "work", "save", "done"}, error : UpstreamErrors \cup {NoOne},
            locale : ErrLocales, row : Template, answer : {"none", "default", "ai", "admin"}]
Review == [step : {"idle", "save"}, op : {"none", "approve", "reject", "update", "rewrite"},
           print : Prints \cup {NoOne}, row : Template]

TemplateTypes ==
  /\ templates \in [Prints -> Template] /\ served \in [Prints -> Template]
  /\ templateOverrides \in [Codes -> Texts]
  /\ lockOf \in [Prints -> ErrRequests \cup {NoOne}]
  /\ resolves \in [ErrRequests -> Resolve]
  /\ reviews \in [Admins -> Review]
  /\ answered \in [Prints -> Nat]

\* A row that is not there has no hits and was never reviewed.
Blank(row) == row.status = "absent" => row.hits = 0 /\ row.reviewed = 0

\* What a resolution makes of the row it read, against the row as it is now: only a
\* review can have replaced that.
StillOwns(res, now) ==
  /\ res.row.reviewed <= now.reviewed
  /\ res.step = "work" => Blank(res.row) /\ (res.row.reviewed = now.reviewed => res.row.hits = now.hits)
  /\ res.step = "save" =>
       /\ res.row.status # "absent"
       /\ res.row.reviewed = now.reviewed => res.row.hits = now.hits + 1

\* A resolution under way holds the lock of its fingerprint.
ResolveOk(r) ==
  /\ resolves[r].step \in {"lock", "work", "save"} => resolves[r].error \in UpstreamErrors
  /\ resolves[r].step \in {"work", "save"} =>
       lockOf[PrintOf(r)] = r /\ StillOwns(resolves[r], templates[PrintOf(r)])

\* A review under way has the row as stored, unless it was saved since.
SavesTell(row, now) ==
  /\ row.status # "absent" /\ row.saves <= now.saves
  /\ row.saves = now.saves => row.hits = now.hits

ReviewOk(a) ==
  reviews[a].step = "save" =>
    reviews[a].print \in Prints /\ SavesTell(reviews[a].row, templates[reviews[a].print])

TemplateInv ==
  /\ TemplateTypes
  /\ \A f \in Prints : Blank(templates[f])
  /\ \A r \in ErrRequests : ResolveOk(r)
  /\ \A a \in Admins : ReviewOk(a)
  /\ HitsAreCounted

\* The parts of the invariant.
LEMMA InvTemplates == TemplateInv => TemplateTypes
  BY DEF TemplateInv
LEMMA InvBlank == TemplateInv => \A f \in Prints : Blank(templates[f])
  BY DEF TemplateInv
LEMMA InvResolves == TemplateInv => \A r \in ErrRequests : ResolveOk(r)
  BY DEF TemplateInv
LEMMA InvReviews == TemplateInv => \A a \in Admins : ReviewOk(a)
  BY DEF TemplateInv
LEMMA InvHits == TemplateInv => HitsAreCounted
  BY DEF TemplateInv

LEMMA RowNumbers ==
  ASSUME NEW row \in Template
  PROVE  row.hits \in Nat /\ row.saves \in Nat /\ row.reviewed \in Nat
  BY DEF Template

-----------------------------------------------------------------------------
(* Templates. *)

LEMMA NoTemplateType == NoTemplate \in Template /\ NoTexts \in Texts /\ DefaultTexts \in Texts
  BY DEF NoTemplate, Template, NoTexts, DefaultTexts, Texts, CodeNames, Actions

LEMMA OverlayTexts ==
  ASSUME NEW t \in Texts, NEW o \in Texts
  PROVE  TemplateOverlay(t, o) \in Texts
  BY DEF TemplateOverlay, Texts

LEMMA FillMissingTexts ==
  ASSUME NEW t \in Texts, NEW locales, NEW o \in Texts
  PROVE  FillMissing(t, locales, o) \in Texts
  BY DEF FillMissing, Texts

LEMMA GenerationsTypes ==
  ASSUME NEW e, NEW locales, NEW isNew, NEW g \in Generations(e, locales, isNew)
  PROVE  g.code \in CodeNames /\ g.action \in Actions /\ g.texts \in Texts
<1>1. HeuristicClassification(e).code \in CodeNames /\ HeuristicClassification(e).action \in Actions
  BY DEF HeuristicClassification, CodeNames, Codes, Actions
<1>2. CASE g = HeuristicTemplate(e, locales)
  BY <1>1, <1>2, FillMissingTexts, NoTemplateType DEF HeuristicTemplate
<1>3. CASE g \in RemoteTemplates(e, locales)
  <2>1. PICK c \in {"novel", HeuristicClassification(e).code},
             t \in {NoTexts, [l \in ErrLocales |-> IF l \in locales THEN "ai" ELSE "none"]} :
          g = [code |-> c, action |-> "retry_cross", texts |-> FillMissing(t, locales, DefaultTexts)]
    BY <1>3 DEF RemoteTemplates
  <2>2. t \in Texts
    BY NoTemplateType DEF Texts
  <2>3. FillMissing(t, locales, DefaultTexts) \in Texts
    BY <2>2, NoTemplateType, FillMissingTexts
  <2> QED BY <1>1, <2>1, <2>3 DEF CodeNames, Actions
<1> QED BY <1>2, <1>3 DEF Generations

LEMMA BuiltinKeeps ==
  ASSUME TemplateTypes, NEW row \in Template
  PROVE  LET b == ApplyBuiltinHeuristic(row)
         IN  b \in Template /\ b.status = row.status /\ b.hits = row.hits
             /\ b.saves = row.saves /\ b.reviewed = row.reviewed
<1>1. CASE row.code \notin Codes
  BY <1>1 DEF ApplyBuiltinHeuristic
<1>2. CASE row.code \in Codes
  <2> DEFINE t == TemplateOverlay(DefaultTexts, templateOverrides[row.code])
             act == IF row.code = "quota_exhausted" THEN "retry_cross" ELSE "fail"
  <2>1. t \in Texts /\ act \in Actions
    BY <1>2, OverlayTexts, NoTemplateType DEF TemplateTypes, Actions
  <2>2. ApplyBuiltinHeuristic(row) = [row EXCEPT !.texts = t, !.action = act]
    BY <1>2 DEF ApplyBuiltinHeuristic
  <2> HIDE DEF t, act
  <2> QED BY <2>1, <2>2, ZenonT(40) DEF Template
<1> QED BY <1>1, <1>2

LEMMA NewRowIsBlank ==
  ASSUME TemplateTypes, NEW g, g.code \in CodeNames, g.action \in Actions, g.texts \in Texts
  PROVE  /\ NewRow(g) \in Template /\ NewRow(g).status = "provisional"
         /\ NewRow(g).hits = 0 /\ NewRow(g).reviewed = 0
<1> DEFINE n == [NoTemplate EXCEPT !.status = "provisional", !.code = g.code, !.action = g.action,
                                   !.texts = g.texts]
<1>1. n \in Template /\ n.status = "provisional" /\ n.hits = 0 /\ n.reviewed = 0
  <2>1. /\ NoTemplate \in Template /\ NoTemplate.hits = 0 /\ NoTemplate.reviewed = 0
    BY NoTemplateType DEF NoTemplate
  <2> QED BY <2>1, ZenonT(40) DEF Template
<1>2. NewRow(g) = ApplyBuiltinHeuristic(n)
  BY DEF NewRow
<1> HIDE DEF n
<1> QED BY <1>1, <1>2, BuiltinKeeps

LEMMA WithGeneratedKeeps ==
  ASSUME TemplateTypes, NEW row \in Template, NEW g, g.action \in Actions, g.texts \in Texts
  PROVE  LET b == WithGenerated(row, g)
         IN  b \in Template /\ b.status = row.status /\ b.hits = row.hits /\ b.reviewed = row.reviewed
<1> DEFINE t == TemplateOverlay(row.texts, g.texts)
           n == [row EXCEPT !.action = g.action, !.texts = t]
<1>1. t \in Texts
  BY OverlayTexts DEF Template
<1> HIDE DEF t
<1>2. n \in Template /\ n.status = row.status /\ n.hits = row.hits /\ n.reviewed = row.reviewed
  BY <1>1, ZenonT(40) DEF Template
<1>3. WithGenerated(row, g) = ApplyBuiltinHeuristic(n)
  BY DEF WithGenerated, t
<1> HIDE DEF n
<1> QED BY <1>2, <1>3, BuiltinKeeps

\* What a request makes of the row it read: one more hit.
LEMMA HitIsOneMore ==
  ASSUME NEW full \in Template, full.status # "absent"
  PROVE  LET b == ReviewPending([full EXCEPT !.hits = full.hits + 1])
         IN  b \in Template /\ b.status # "absent" /\ b.hits = full.hits + 1 /\ b.reviewed = full.reviewed
<1> DEFINE n == [full EXCEPT !.hits = full.hits + 1]
<1>1. n \in Template /\ n.status # "absent" /\ n.hits = full.hits + 1 /\ n.reviewed = full.reviewed
  BY DEF Template
<1> HIDE DEF n
<1>2. /\ [n EXCEPT !.status = "pending"] \in Template /\ [n EXCEPT !.status = "pending"].status = "pending"
      /\ [n EXCEPT !.status = "pending"].hits = n.hits /\ [n EXCEPT !.status = "pending"].reviewed = n.reviewed
  BY <1>1 DEF Template
<1>3. ReviewPending(n) = n \/ ReviewPending(n) = [n EXCEPT !.status = "pending"]
  BY DEF ReviewPending
<1>4. ReviewPending(n) \in Template /\ ReviewPending(n).status # "absent"
      /\ ReviewPending(n).hits = full.hits + 1 /\ ReviewPending(n).reviewed = full.reviewed
  BY <1>1, <1>2, <1>3, ZenonT(40)
<1> QED BY <1>4 DEF n

\* An administrator's change leaves the hits and the counts of saves alone.
LEMMA ReviewKeeps ==
  ASSUME NEW op, NEW f, NEW row \in Template, row.status # "absent", NEW b \in Reviewed(op, row, f)
  PROVE  /\ b \in Template /\ b.status # "absent" /\ b.hits = row.hits
         /\ b.saves = row.saves /\ b.reviewed = row.reviewed
<1>1. CASE b = [row EXCEPT !.status = "approved"] \/ b = [row EXCEPT !.status = "rejected"]
  BY <1>1 DEF Template
<1>2. CASE b = [row EXCEPT !.action = "retry_cross", !.texts = [NoTexts EXCEPT !["en"] = "admin"]]
  <2> DEFINE t == [NoTexts EXCEPT !["en"] = "admin"]
  <2>1. t \in Texts /\ "retry_cross" \in Actions
    BY NoTemplateType DEF Texts, ErrLocales, Actions
  <2>2. b = [row EXCEPT !.action = "retry_cross", !.texts = t]
    BY <1>2
  <2> HIDE DEF t
  <2> QED BY <2>1, <2>2, ZenonT(40) DEF Template
<1>3. CASE b \in Rewritten(row, f)
  <2>1. PICK g \in UNION {Generations(e, ErrLocales, FALSE) : e \in {x \in UpstreamErrors : Fingerprint(x) = f}} :
          b = [row EXCEPT !.code = g.code, !.action = g.action, !.texts = g.texts]
    BY <1>3, ZenonT(40) DEF Rewritten
  <2>2. PICK e \in UpstreamErrors : g \in Generations(e, ErrLocales, FALSE)
    BY ZenonT(40)
  <2>3. g.code \in CodeNames /\ g.action \in Actions /\ g.texts \in Texts
    BY <2>2, GenerationsTypes, ZenonT(40)
  <2> QED BY <2>1, <2>3, ZenonT(40) DEF Template
<1> QED BY <1>1, <1>2, <1>3 DEF Reviewed, Approved, Rejected, TemplateUpdated

-----------------------------------------------------------------------------
(* Steps. *)

LEMMA TemplateInvInit == ElInit => TemplateInv
<1> SUFFICES ASSUME ElInit
             PROVE  TemplateInv
  OBVIOUS
<1>1. IdleResolve \in Resolve /\ IdleReview \in Review
  BY NoTemplateType DEF IdleResolve, IdleReview, Resolve, Review, ErrLocales
<1>2. TemplateTypes
  BY <1>1, NoTemplateType DEF ElInit, TemplateTypes
<1>3. \A f \in Prints : Blank(templates[f])
  BY DEF ElInit, Blank, NoTemplate
<1>4. \A r \in ErrRequests : ResolveOk(r)
  BY DEF ElInit, ResolveOk, IdleResolve
<1>5. \A a \in Admins : ReviewOk(a)
  BY DEF ElInit, ReviewOk, IdleReview
<1>6. HitsAreCounted
  BY DEF ElInit, HitsAreCounted, NoTemplate
<1> QED BY <1>2, <1>3, <1>4, <1>5, <1>6 DEF TemplateInv

LEMMA PrintOfAnError ==
  ASSUME NEW r, resolves[r].error \in UpstreamErrors
  PROVE  PrintOf(r) \in Prints
  BY DEF PrintOf, Prints

\* A step of one request that saves nothing.
LEMMA ResolveFrame ==
  ASSUME TemplateInv, NEW r \in ErrRequests, NEW v \in Resolve,
         resolves' = [resolves EXCEPT ![r] = v],
         UNCHANGED <<templates, templateOverrides, reviews, served, answered, raced>>,
         lockOf' \in [Prints -> ErrRequests \cup {NoOne}],
         \A q \in ErrRequests \ {r} :
           resolves[q].step \in {"work", "save"} => lockOf'[PrintOf(q)] = lockOf[PrintOf(q)],
         ResolveOk(r)'
  PROVE  TemplateInv'
<1>1. TemplateTypes'
  BY InvTemplates DEF TemplateTypes
<1>2. (\A f \in Prints : Blank(templates[f]))'
  BY InvBlank
<1>3. ASSUME NEW q \in ErrRequests
      PROVE  ResolveOk(q)'
  <2>1. CASE q # r
    <3>1. resolves'[q] = resolves[q]
      BY <2>1, InvTemplates DEF TemplateTypes
    <3>2. PrintOf(q)' = PrintOf(q)
      BY <3>1 DEF PrintOf
    <3>3. ResolveOk(q)
      BY InvResolves
    <3> QED BY <2>1, <3>1, <3>2, <3>3 DEF ResolveOk
  <2> QED BY <2>1
<1>4. ASSUME NEW a \in Admins
      PROVE  ReviewOk(a)'
  BY InvReviews DEF ReviewOk
<1>5. HitsAreCounted'
  BY InvHits DEF HitsAreCounted
<1> QED BY <1>1, <1>2, <1>3, <1>4, <1>5 DEF TemplateInv

\* A resolution that ends, answered or not, with its lock given back.
LEMMA DoneResolve ==
  ASSUME NEW answer \in {"none", "default", "ai", "admin"}
  PROVE  /\ [IdleResolve EXCEPT !.step = "done", !.answer = answer] \in Resolve
         /\ [IdleResolve EXCEPT !.step = "done", !.answer = answer].step = "done"
         /\ [IdleResolve EXCEPT !.step = "done"] \in Resolve
         /\ [IdleResolve EXCEPT !.step = "done"].step = "done"
<1>1. IdleResolve \in Resolve
  BY NoTemplateType DEF IdleResolve, Resolve, ErrLocales
<1> QED BY <1>1, ZenonT(40) DEF Resolve

LEMMA MessageIsText ==
  ASSUME NEW row \in Template, NEW l \in ErrLocales
  PROVE  LocalizedMessage(row, l) \in {"none", "default", "ai", "admin"}
  BY DEF LocalizedMessage, Template, Texts, ErrLocales

LEMMA ResolveStartsInv ==
  ASSUME TemplateInv, NEW r \in ErrRequests, NEW e \in UpstreamErrors, NEW raw, NEW j,
         ResolveUpstreamError(r, e, raw, j)
  PROVE  TemplateInv'
<1> DEFINE l == DetectRequestLocale(raw, j)
           f == Fingerprint(e)
           asks == [IdleResolve EXCEPT !.step = "lock", !.error = e, !.locale = l]
           m == IF served[f].status # "absent" THEN LocalizedMessage(served[f], l) ELSE "none"
           ends == [IdleResolve EXCEPT !.step = "done", !.answer = m]
<1>1. l \in ErrLocales
  BY DEF DetectRequestLocale, CanonicalizeLocale, ErrLocales
<1>2. f \in Prints
  BY DEF Prints
<1>3. m \in {"none", "default", "ai", "admin"}
  BY <1>1, <1>2, MessageIsText, InvTemplates DEF TemplateTypes
<1>4. resolves' = [resolves EXCEPT ![r] = ends] \/ resolves' = [resolves EXCEPT ![r] = asks]
  BY ZenonT(40) DEF ResolveUpstreamError
<1>5. UNCHANGED <<templates, templateOverrides, reviews, served, answered, raced, lockOf>>
  BY DEF ResolveUpstreamError
<1>6. lockOf' \in [Prints -> ErrRequests \cup {NoOne}]
  BY <1>5, InvTemplates DEF TemplateTypes
<1>7. ends \in Resolve /\ ends.step = "done"
  BY <1>3, DoneResolve, ZenonT(40)
<1>8. asks \in Resolve /\ asks.step = "lock" /\ asks.error = e
  <2>1. IdleResolve \in Resolve
    BY NoTemplateType DEF IdleResolve, Resolve, ErrLocales
  <2> HIDE DEF l
  <2> QED BY <1>1, <2>1, ZenonT(40) DEF Resolve
<1> HIDE DEF ends, asks, m
<1>9. PICK v \in {ends, asks} : resolves' = [resolves EXCEPT ![r] = v]
  BY <1>4
<1>10. resolves'[r] = v /\ v \in Resolve
  BY <1>7, <1>8, <1>9, InvTemplates DEF TemplateTypes
<1>11. ResolveOk(r)'
  BY <1>7, <1>8, <1>10 DEF ResolveOk
<1> QED BY <1>5, <1>6, <1>9, <1>10, <1>11, ResolveFrame, ZenonT(40)

LEMMA ReadTemplateInv ==
  ASSUME TemplateInv, NEW r \in ErrRequests, ReadTemplate(r)
  PROVE  TemplateInv'
<1> DEFINE f == PrintOf(r)
           v == [resolves[r] EXCEPT !.step = "work", !.row = templates[f]]
<1>1. resolves[r] \in Resolve /\ ResolveOk(r) /\ resolves[r].step = "lock" /\ lockOf[f] = NoOne
  BY InvTemplates, InvResolves DEF TemplateTypes, ReadTemplate, LockFree
<1>2. f \in Prints
  BY <1>1, PrintOfAnError DEF ResolveOk
<1>3. templates[f] \in Template /\ Blank(templates[f])
  BY <1>2, InvTemplates, InvBlank DEF TemplateTypes
<1>4. /\ resolves' = [resolves EXCEPT ![r] = v] /\ lockOf' = [lockOf EXCEPT ![f] = r]
      /\ UNCHANGED <<templates, templateOverrides, reviews, served, answered, raced>>
  BY ZenonT(40) DEF ReadTemplate
<1> HIDE DEF f
<1>5. v \in Resolve /\ v.step = "work" /\ v.error = resolves[r].error /\ v.row = templates[f]
  BY <1>1, <1>3, ZenonT(40) DEF Resolve
<1> HIDE DEF v
<1>6. lockOf' \in [Prints -> ErrRequests \cup {NoOne}] /\ lockOf'[f] = r
  BY <1>2, <1>4, InvTemplates DEF TemplateTypes
<1>7. ASSUME NEW q \in ErrRequests \ {r}, resolves[q].step \in {"work", "save"}
      PROVE  lockOf'[PrintOf(q)] = lockOf[PrintOf(q)]
  <2>1. lockOf[PrintOf(q)] = q /\ PrintOf(q) \in Prints
    BY <1>7, PrintOfAnError, InvResolves DEF ResolveOk
  <2>2. PrintOf(q) # f
    BY <1>1, <2>1, ErrorAssumption
  <2> QED BY <1>4, <2>1, <2>2, InvTemplates DEF TemplateTypes
<1>8. resolves'[r] = v
  BY <1>4, InvTemplates DEF TemplateTypes
<1>9. PrintOf(r)' = f
  BY <1>5, <1>8 DEF PrintOf, f
<1>10. ResolveOk(r)'
  <2>1. StillOwns(v, templates[f])
    BY <1>3, <1>5, RowNumbers DEF StillOwns
  <2>2. v.error \in UpstreamErrors
    BY <1>1, <1>5 DEF ResolveOk
  <2> QED BY <1>4, <1>6, <1>8, <1>9, <2>1, <2>2 DEF ResolveOk
<1> QED BY <1>4, <1>5, <1>6, <1>7, <1>10, ResolveFrame, ZenonT(40)

LEMMA PrepareTemplateInv ==
  ASSUME TemplateInv, NEW r \in ErrRequests, PrepareTemplate(r)
  PROVE  TemplateInv'
<1> DEFINE e == resolves[r].error
           l == resolves[r].locale
           old == resolves[r].row
           isNew == old.status = "absent"
           f == PrintOf(r)
<1>1. /\ resolves[r] \in Resolve /\ ResolveOk(r) /\ resolves[r].step = "work" /\ l \in ErrLocales
      /\ old \in Template /\ Blank(old) /\ TemplateTypes
  <2>1. resolves[r] \in Resolve /\ ResolveOk(r) /\ resolves[r].step = "work" /\ TemplateTypes
    BY InvTemplates, InvResolves DEF TemplateTypes, PrepareTemplate
  <2>2. Blank(old)
    BY <2>1 DEF ResolveOk, StillOwns
  <2> QED BY <2>1, <2>2 DEF Resolve
<1>2. PICK g \in Generations(e, {l}, isNew), h \in Generations(e, {l}, FALSE) :
        LET base == IF isNew THEN NewRow(g) ELSE old
            full == IF NeedsText(base, l) THEN WithGenerated(base, h) ELSE base
        IN  resolves' = [resolves EXCEPT ![r].step = "save",
                           ![r].row = ReviewPending([full EXCEPT !.hits = full.hits + 1])]
  BY ZenonT(40) DEF PrepareTemplate
<1> DEFINE base == IF isNew THEN NewRow(g) ELSE old
           full == IF NeedsText(base, l) THEN WithGenerated(base, h) ELSE base
           row == ReviewPending([full EXCEPT !.hits = full.hits + 1])
           v == [resolves[r] EXCEPT !.step = "save", !.row = row]
<1>3. /\ g.code \in CodeNames /\ g.action \in Actions /\ g.texts \in Texts
      /\ h.action \in Actions /\ h.texts \in Texts
  BY GenerationsTypes, ZenonT(40)
<1>4. base \in Template /\ base.status # "absent" /\ base.hits = old.hits /\ base.reviewed = old.reviewed
  BY <1>1, <1>3, NewRowIsBlank DEF Blank
<1>5. resolves' = [resolves EXCEPT ![r] = v]
  BY <1>2, ZenonT(40)
<1> HIDE DEF base
<1>6. full \in Template /\ full.status # "absent" /\ full.hits = old.hits /\ full.reviewed = old.reviewed
  BY <1>1, <1>3, <1>4, WithGeneratedKeeps
<1> HIDE DEF full
<1>7. row \in Template /\ row.status # "absent" /\ row.hits = old.hits + 1 /\ row.reviewed = old.reviewed
  BY <1>6, HitIsOneMore
<1> HIDE DEF row
<1>8. v \in Resolve /\ v.step = "save" /\ v.error = resolves[r].error /\ v.row = row
  BY <1>1, <1>7, ZenonT(40) DEF Resolve
<1> HIDE DEF v
<1>9. UNCHANGED <<templates, templateOverrides, reviews, served, answered, raced, lockOf>>
  BY ZenonT(40) DEF PrepareTemplate
<1>10. lockOf' \in [Prints -> ErrRequests \cup {NoOne}]
  BY <1>1, <1>9 DEF TemplateTypes
<1>11. resolves'[r] = v
  BY <1>1, <1>5 DEF TemplateTypes
<1>12. PrintOf(r)' = PrintOf(r)
  BY <1>8, <1>11 DEF PrintOf
<1>13. ResolveOk(r)'
  <2>1. StillOwns(v, templates[f])
    <3>1. StillOwns(resolves[r], templates[f])
      BY <1>1 DEF ResolveOk
    <3> HIDE DEF f
    <3> QED BY <1>1, <1>7, <1>8, <3>1 DEF StillOwns
  <2>2. v.error \in UpstreamErrors /\ lockOf[f] = r
    BY <1>1, <1>8 DEF ResolveOk
  <2> QED BY <1>8, <1>9, <1>11, <1>12, <2>1, <2>2 DEF ResolveOk
<1> QED BY <1>5, <1>8, <1>9, <1>10, <1>13, ResolveFrame, ZenonT(40)

LEMMA AbandonInv ==
  ASSUME TemplateInv, NEW r \in ErrRequests, Abandon(r)
  PROVE  TemplateInv'
<1> DEFINE v == [IdleResolve EXCEPT !.step = "done"]
<1>1. v \in Resolve /\ v.step = "done"
  BY DoneResolve
<1>2. /\ resolves' = [resolves EXCEPT ![r] = v]
      /\ UNCHANGED <<templates, templateOverrides, reviews, served, answered, raced>>
      /\ lockOf' = IF resolves[r].step = "lock" THEN lockOf ELSE Unlocked(r)
      /\ resolves[r].step \in {"lock", "work", "save"}
  BY DEF Abandon
<1> HIDE DEF v
<1>3. lockOf' \in [Prints -> ErrRequests \cup {NoOne}]
  BY <1>2, InvTemplates, ZenonT(40) DEF TemplateTypes, Unlocked
<1>4. ASSUME NEW q \in ErrRequests \ {r}, resolves[q].step \in {"work", "save"}
      PROVE  lockOf'[PrintOf(q)] = lockOf[PrintOf(q)]
  <2>1. lockOf[PrintOf(q)] = q /\ PrintOf(q) \in Prints /\ lockOf \in [Prints -> ErrRequests \cup {NoOne}]
    BY <1>4, PrintOfAnError, InvTemplates, InvResolves DEF TemplateTypes, ResolveOk
  <2>2. resolves[r].step = "lock" \/ lockOf[PrintOf(r)] = r
    BY <1>2, InvResolves DEF ResolveOk
  <2> QED BY <1>2, <2>1, <2>2 DEF Unlocked
<1>5. resolves'[r] = v
  BY <1>2, InvTemplates DEF TemplateTypes
<1>6. ResolveOk(r)'
  BY <1>1, <1>5 DEF ResolveOk
<1> QED BY <1>1, <1>2, <1>3, <1>4, <1>6, ResolveFrame, ZenonT(40)

\* A save counts itself, and a review as such; what was read before it is told by
\* the counts.
LEMMA SavedRow ==
  ASSUME TemplateTypes, NEW f \in Prints, NEW row \in Template, NEW byAdmin \in BOOLEAN,
         SaveTemplate(f, row, byAdmin)
  PROVE  /\ templates' \in [Prints -> Template]
         /\ \A g \in Prints \ {f} : templates'[g] = templates[g]
         /\ templates'[f].status = row.status /\ templates'[f].hits = row.hits
         /\ templates'[f].saves = templates[f].saves + 1
         /\ templates'[f].reviewed = templates[f].reviewed + (IF byAdmin THEN 1 ELSE 0)
         /\ raced \subseteq raced' /\ raced' \subseteq raced \cup {f}
         /\ f \notin raced' => /\ row.reviewed = templates[f].reviewed
                               /\ byAdmin => row.saves = templates[f].saves
<1> DEFINE now == templates[f]
           n == now.reviewed + (IF byAdmin THEN 1 ELSE 0)
           v == [row EXCEPT !.saves = now.saves + 1, !.reviewed = n]
<1>1. now \in Template
  BY DEF TemplateTypes
<1>2. now.saves + 1 \in Nat /\ n \in Nat
  BY <1>1 DEF Template
<1>3. /\ v \in Template /\ v.status = row.status /\ v.hits = row.hits
      /\ v.saves = now.saves + 1 /\ v.reviewed = n
  <2> HIDE DEF n, now
  <2> QED BY <1>2, ZenonT(40) DEF Template
<1>4. templates' = [templates EXCEPT ![f] = v]
  BY DEF SaveTemplate
<1> HIDE DEF v
<1>5. /\ templates' \in [Prints -> Template] /\ templates'[f] = v
      /\ \A g \in Prints \ {f} : templates'[g] = templates[g]
  BY <1>3, <1>4 DEF TemplateTypes
<1>6. /\ raced \subseteq raced' /\ raced' \subseteq raced \cup {f}
      /\ f \notin raced' => /\ row.reviewed = templates[f].reviewed
                            /\ byAdmin => row.saves = templates[f].saves
  BY DEF SaveTemplate
<1> QED BY <1>3, <1>5, <1>6

LEMMA SaveResolvedInv ==
  ASSUME TemplateInv, NEW r \in ErrRequests, SaveResolved(r)
  PROVE  TemplateInv'
<1> DEFINE f == PrintOf(r)
           row == resolves[r].row
           m == LocalizedMessage(row, resolves[r].locale)
           v == [IdleResolve EXCEPT !.step = "done", !.answer = m]
<1>1. /\ resolves[r] \in Resolve /\ ResolveOk(r) /\ resolves[r].step = "save" /\ TemplateTypes
      /\ row \in Template /\ resolves[r].locale \in ErrLocales
  BY InvTemplates, InvResolves, ZenonT(40) DEF TemplateTypes, SaveResolved, Resolve
<1>2. f \in Prints /\ lockOf[f] = r /\ row.status # "absent"
  BY <1>1, PrintOfAnError DEF ResolveOk, StillOwns
<1>3. v \in Resolve /\ v.step = "done"
  BY <1>1, MessageIsText, DoneResolve, ZenonT(40)
<1>4. /\ SaveTemplate(f, row, FALSE) /\ answered' = [answered EXCEPT ![f] = @ + 1]
      /\ lockOf' = Unlocked(r) /\ resolves' = [resolves EXCEPT ![r] = v]
      /\ UNCHANGED <<templateOverrides, reviews, served>>
  BY ZenonT(40) DEF SaveResolved
<1> HIDE DEF v
<1>5. /\ templates' \in [Prints -> Template] /\ \A g \in Prints \ {f} : templates'[g] = templates[g]
      /\ templates'[f].status = row.status /\ templates'[f].hits = row.hits
      /\ templates'[f].saves = templates[f].saves + 1 /\ templates'[f].reviewed = templates[f].reviewed
      /\ raced \subseteq raced' /\ raced' \subseteq raced \cup {f}
      /\ f \notin raced' => row.reviewed = templates[f].reviewed
  <2>1. templates[f].reviewed \in Nat
    BY <1>1, <1>2 DEF TemplateTypes, Template
  <2>2. templates[f].reviewed + (IF FALSE THEN 1 ELSE 0) = templates[f].reviewed
    BY <2>1
  <2> HIDE DEF f, row
  <2> QED BY <1>1, <1>2, <1>4, <2>2, SavedRow, ZenonT(40)
<1>6. TemplateTypes'
  <2>1. resolves' \in [ErrRequests -> Resolve] /\ answered' \in [Prints -> Nat]
    BY <1>1, <1>2, <1>3, <1>4 DEF TemplateTypes
  <2>2. lockOf' \in [Prints -> ErrRequests \cup {NoOne}]
    BY <1>1, <1>4, ZenonT(40) DEF TemplateTypes, Unlocked
  <2> QED BY <1>1, <1>4, <1>5, <2>1, <2>2, ZenonT(40) DEF TemplateTypes
<1>7. (\A g \in Prints : Blank(templates[g]))'
  BY <1>2, <1>5, InvBlank DEF Blank
<1>8. ASSUME NEW q \in ErrRequests
      PROVE  ResolveOk(q)'
  <2>1. CASE q = r
    BY <1>1, <1>3, <1>4, <2>1, ZenonT(40) DEF TemplateTypes, ResolveOk
  <2>2. CASE q # r
    <3>1. resolves'[q] = resolves[q] /\ ResolveOk(q) /\ PrintOf(q)' = PrintOf(q)
      BY <1>1, <1>4, <2>2, InvResolves DEF TemplateTypes, PrintOf
    <3>2. ASSUME resolves[q].step \in {"work", "save"}
          PROVE  PrintOf(q) \in Prints \ {f}
      BY <1>2, <2>2, <3>1, <3>2, PrintOfAnError, ZenonT(40) DEF ResolveOk
    <3>3. ASSUME resolves[q].step \in {"work", "save"}
          PROVE  lockOf'[PrintOf(q)] = lockOf[PrintOf(q)] /\ templates'[PrintOf(q)] = templates[PrintOf(q)]
      BY <1>1, <1>4, <1>5, <3>2, <3>3, ZenonT(40) DEF TemplateTypes, Unlocked
    <3> QED BY <3>1, <3>3 DEF ResolveOk
  <2> QED BY <2>1, <2>2
<1>9. ASSUME NEW a \in Admins
      PROVE  ReviewOk(a)'
  <2> HIDE DEF f, row
  <2>1. ReviewOk(a) /\ reviews'[a] = reviews[a] /\ reviews[a].row \in Template
    BY <1>1, <1>4, InvReviews DEF TemplateTypes, Review
  <2>2. \A old \in Template : SavesTell(old, templates[f]) => SavesTell(old, templates'[f])
    BY <1>1, <1>2, <1>5, RowNumbers DEF SavesTell, TemplateTypes
  <2> QED BY <1>5, <2>1, <2>2 DEF ReviewOk
<1>10. HitsAreCounted'
  <2>1. \A g \in Prints \ {f} : answered'[g] = answered[g]
    BY <1>1, <1>4 DEF TemplateTypes
  <2>2. answered'[f] = answered[f] + 1
    BY <1>1, <1>2, <1>4 DEF TemplateTypes
  <2>3. f \notin raced' => row.hits = templates[f].hits + 1
    BY <1>1, <1>5, ZenonT(40) DEF ResolveOk, StillOwns
  <2> QED BY <1>5, <2>1, <2>2, <2>3, InvHits DEF HitsAreCounted
<1> QED BY <1>6, <1>7, <1>8, <1>9, <1>10 DEF TemplateInv

LEMMA ReviewReadsInv ==
  ASSUME TemplateInv, NEW a \in Admins, NEW f \in Prints,
         NEW op \in {"approve", "reject", "update", "rewrite"}, ReviewReads(a, f, op)
  PROVE  TemplateInv'
<1> DEFINE v == [step |-> "save", op |-> op, print |-> f, row |-> templates[f]]
<1>1. /\ reviews' = [reviews EXCEPT ![a] = v] /\ templates[f].status # "absent"
      /\ UNCHANGED <<templates, templateOverrides, lockOf, resolves, served, answered, raced>>
  BY DEF ReviewReads
<1>2. v \in Review /\ templates[f] \in Template
  BY InvTemplates DEF Review, TemplateTypes
<1>5. v.step = "save" /\ v.print = f /\ v.row = templates[f]
  OBVIOUS
<1> HIDE DEF v
<1>3. TemplateTypes'
  BY <1>1, <1>2, InvTemplates DEF TemplateTypes
<1>4. ASSUME NEW b \in Admins
      PROVE  ReviewOk(b)'
  <2>1. CASE b = a
    <3>1. reviews'[a] = v
      BY <1>1, InvTemplates DEF TemplateTypes
    <3>2. SavesTell(templates[f], templates[f])
      BY <1>1, <1>2, RowNumbers DEF SavesTell
    <3> QED BY <1>1, <1>5, <2>1, <3>1, <3>2 DEF ReviewOk
  <2>2. CASE b # a
    <3>1. reviews'[b] = reviews[b]
      BY <1>1, <2>2, InvTemplates DEF TemplateTypes
    <3> QED BY <1>1, <3>1, InvReviews DEF ReviewOk
  <2> QED BY <2>1, <2>2
<1>6. ASSUME NEW q \in ErrRequests
      PROVE  ResolveOk(q)'
  BY <1>1, InvResolves DEF ResolveOk, PrintOf
<1>7. (\A g \in Prints : Blank(templates[g]))' /\ HitsAreCounted'
  BY <1>1, InvBlank, InvHits DEF HitsAreCounted
<1> QED BY <1>3, <1>4, <1>6, <1>7 DEF TemplateInv

LEMMA ReviewSavesInv ==
  ASSUME TemplateInv, NEW a \in Admins, ReviewSaves(a)
  PROVE  TemplateInv'
<1> DEFINE f == reviews[a].print
           old == reviews[a].row
<1>1. /\ TemplateTypes /\ old \in Template /\ f \in Prints /\ old.status # "absent"
      /\ old.saves <= templates[f].saves
      /\ old.saves = templates[f].saves => old.hits = templates[f].hits
  <2>1. TemplateTypes /\ reviews[a] \in Review /\ reviews[a].step = "save" /\ ReviewOk(a)
    BY InvTemplates, InvReviews DEF TemplateTypes, ReviewSaves
  <2>2. old \in Template
    BY <2>1 DEF Review
  <2> QED BY <2>1, <2>2 DEF ReviewOk, SavesTell
<1>2. PICK row \in Reviewed(reviews[a].op, old, f) : SaveTemplate(f, row, TRUE)
  BY ZenonT(40) DEF ReviewSaves
<1>3. row \in Template /\ row.status # "absent" /\ row.hits = old.hits /\ row.saves = old.saves
  BY <1>1, ReviewKeeps
<1>4. /\ templates' \in [Prints -> Template] /\ \A g \in Prints \ {f} : templates'[g] = templates[g]
      /\ templates'[f].status = row.status /\ templates'[f].hits = row.hits
      /\ templates'[f].saves = templates[f].saves + 1
      /\ templates'[f].reviewed = templates[f].reviewed + 1
      /\ raced \subseteq raced' /\ raced' \subseteq raced \cup {f}
      /\ f \notin raced' => row.saves = templates[f].saves
  BY <1>1, <1>2, <1>3, SavedRow, ZenonT(40)
<1>5. /\ reviews' = [reviews EXCEPT ![a] = IdleReview]
      /\ UNCHANGED <<templateOverrides, lockOf, resolves, served, answered>>
  BY DEF ReviewSaves
<1>6. IdleReview \in Review /\ IdleReview.step = "idle"
  BY NoTemplateType, ZenonT(40) DEF IdleReview, Review
<1>7. TemplateTypes'
  BY <1>1, <1>4, <1>5, <1>6, ZenonT(40) DEF TemplateTypes
<1> HIDE DEF f, old
<1>8. (\A g \in Prints : Blank(templates[g]))'
  BY <1>3, <1>4, InvBlank DEF Blank
<1>9. ASSUME NEW q \in ErrRequests
      PROVE  ResolveOk(q)'
  <2>1. ResolveOk(q) /\ resolves' = resolves /\ lockOf' = lockOf /\ PrintOf(q)' = PrintOf(q)
    BY <1>5, InvResolves DEF PrintOf
  <2>2. resolves[q].row \in Template
    BY <1>1 DEF TemplateTypes, Resolve
  <2>3. ASSUME StillOwns(resolves[q], templates[f])
        PROVE  StillOwns(resolves[q], templates'[f])
    <3>1. templates[f].reviewed \in Nat /\ resolves[q].row.reviewed \in Nat
      BY <1>1, <2>2, RowNumbers, ZenonT(40) DEF TemplateTypes
    <3>2. templates'[f].reviewed > resolves[q].row.reviewed
      BY <1>4, <2>3, <3>1 DEF StillOwns
    <3> QED BY <2>3, <3>1, <3>2, <1>4 DEF StillOwns
  <2>4. resolves[q].step \in {"work", "save"} => PrintOf(q) \in Prints
    BY <2>1, PrintOfAnError DEF ResolveOk
  <2> QED BY <1>4, <2>1, <2>3, <2>4, ZenonT(40) DEF ResolveOk
<1>10. ASSUME NEW b \in Admins
       PROVE  ReviewOk(b)'
  <2>1. CASE b = a
    BY <1>1, <1>5, <1>6, <2>1, ZenonT(40) DEF TemplateTypes, ReviewOk
  <2>2. CASE b # a
    <3>1. ReviewOk(b) /\ reviews'[b] = reviews[b] /\ reviews[b].row \in Template
      BY <1>1, <1>5, <2>2, InvReviews DEF TemplateTypes, Review
    <3>2. \A r \in Template : SavesTell(r, templates[f]) => SavesTell(r, templates'[f])
      BY <1>1, <1>4, RowNumbers DEF SavesTell, TemplateTypes
    <3> QED BY <1>4, <3>1, <3>2 DEF ReviewOk
  <2> QED BY <2>1, <2>2, ZenonT(40)
<1>11. HitsAreCounted'
  BY <1>1, <1>3, <1>4, <1>5, InvHits, ZenonT(40) DEF HitsAreCounted
<1> QED BY <1>7, <1>8, <1>9, <1>10, <1>11 DEF TemplateInv

\* What changes neither rows, locks, requests nor reviews.
LEMMA SettingsFrame ==
  ASSUME TemplateInv, UNCHANGED <<templates, lockOf, resolves, reviews, answered, raced>>,
         templateOverrides' \in [Codes -> Texts], served' \in [Prints -> Template]
  PROVE  TemplateInv'
<1>1. TemplateTypes'
  BY InvTemplates DEF TemplateTypes
<1>2. ASSUME NEW q \in ErrRequests
      PROVE  ResolveOk(q)'
  BY InvResolves DEF ResolveOk, PrintOf
<1>3. ASSUME NEW a \in Admins
      PROVE  ReviewOk(a)'
  BY InvReviews DEF ReviewOk
<1>4. (\A g \in Prints : Blank(templates[g]))' /\ HitsAreCounted'
  BY InvBlank, InvHits DEF HitsAreCounted
<1> QED BY <1>1, <1>2, <1>3, <1>4 DEF TemplateInv

LEMMA SetOverrideInv ==
  ASSUME TemplateInv, NEW c \in Codes, NEW over \in Texts, SetOverride(c, over)
  PROVE  TemplateInv'
<1>1. templateOverrides' \in [Codes -> Texts] /\ served' \in [Prints -> Template]
  BY InvTemplates DEF TemplateTypes, SetOverride
<1> QED BY <1>1, SettingsFrame DEF SetOverride

LEMMA BuiltinInv ==
  ASSUME TemplateInv, NEW c \in Codes, UpdateBuiltin(c) \/ RewriteBuiltin(c) \/ ResetBuiltin(c)
  PROVE  TemplateInv'
<1> DEFINE current == TemplateOverlay(DefaultTexts, templateOverrides[c])
           ai == [NoTexts EXCEPT !["en"] = "ai"]
           admin == [NoTexts EXCEPT !["ja"] = "admin"]
           over == IF learning.remote THEN TemplateOverlay(current, ai) ELSE current
<1>1. ai \in Texts /\ admin \in Texts
  BY NoTemplateType DEF Texts, ErrLocales
<1>2. current \in Texts
  BY NoTemplateType, OverlayTexts, InvTemplates DEF TemplateTypes
<1> HIDE DEF ai, current
<1>3. over \in Texts
  BY <1>1, <1>2, OverlayTexts
<1> HIDE DEF over
<1>4. CASE UpdateBuiltin(c)
  BY <1>1, <1>4, SetOverrideInv DEF UpdateBuiltin
<1>5. CASE RewriteBuiltin(c)
  <2>1. SetOverride(c, over)
    BY <1>5 DEF RewriteBuiltin, over, current, ai
  <2> QED BY <1>3, <2>1, SetOverrideInv
<1>6. CASE ResetBuiltin(c)
  BY <1>6, NoTemplateType, SetOverrideInv DEF ResetBuiltin
<1> QED BY <1>4, <1>5, <1>6

LEMMA OtherLearningInv ==
  ASSUME TemplateInv, UpdateSettings \/ ServeApproved \/ SlotAges \/ UNCHANGED elVars
  PROVE  TemplateInv'
<1>1. UNCHANGED <<templates, lockOf, resolves, reviews, answered, raced, templateOverrides>>
  BY DEF UpdateSettings, ServeApproved, SlotAges, elVars
<1>2. templateOverrides' \in [Codes -> Texts]
  BY <1>1, InvTemplates DEF TemplateTypes
<1>3. served' \in [Prints -> Template]
  <2>1. CASE ServeApproved
    BY <2>1, NoTemplateType, InvTemplates DEF ServeApproved, TemplateTypes
  <2>2. CASE served' = served
    BY <2>2, InvTemplates DEF TemplateTypes
  <2> QED BY <2>1, <2>2, ZenonT(40) DEF UpdateSettings, SlotAges, elVars
<1> QED BY <1>1, <1>2, <1>3, SettingsFrame

LEMMA TemplateInvStep == TemplateInv /\ [ElNext]_elVars => TemplateInv'
<1> SUFFICES ASSUME TemplateInv, [ElNext]_elVars
             PROVE  TemplateInv'
  OBVIOUS
<1>1. ASSUME NEW r \in ErrRequests, NEW e \in UpstreamErrors, NEW raw \in RawLocales, NEW j \in BOOLEAN,
             ResolveUpstreamError(r, e, raw, j)
      PROVE  TemplateInv'
  BY <1>1, ResolveStartsInv
<1>2. ASSUME NEW r \in ErrRequests, ResolveStep(r) \/ Abandon(r)
      PROVE  TemplateInv'
  BY <1>2, ReadTemplateInv, PrepareTemplateInv, SaveResolvedInv, AbandonInv DEF ResolveStep
<1>3. ASSUME NEW a \in Admins, NEW f \in Prints, NEW op \in {"approve", "reject", "update", "rewrite"},
             ReviewReads(a, f, op)
      PROVE  TemplateInv'
  BY <1>3, ReviewReadsInv
<1>4. ASSUME NEW a \in Admins, ReviewSaves(a)
      PROVE  TemplateInv'
  BY <1>4, ReviewSavesInv
<1>5. ASSUME NEW c \in Codes, UpdateBuiltin(c) \/ RewriteBuiltin(c) \/ ResetBuiltin(c)
      PROVE  TemplateInv'
  BY <1>5, BuiltinInv
<1>6. CASE UpdateSettings \/ ServeApproved \/ SlotAges \/ UNCHANGED elVars
  BY <1>6, OtherLearningInv
<1> QED BY <1>1, <1>2, <1>3, <1>4, <1>5, <1>6 DEF ElNext

\* The hits of a template are the resolutions answered from it, whatever requests
\* and administrators interleave, unless a save crossed an administrator's: the
\* lock of the fingerprint is what makes this so.
THEOREM HitsAlwaysCounted == ElSpec => []HitsAreCounted
<1>1. TemplateInv => HitsAreCounted
  BY DEF TemplateInv
<1> QED BY <1>1, TemplateInvInit, TemplateInvStep, PTL DEF ElSpec
=============================================================================
