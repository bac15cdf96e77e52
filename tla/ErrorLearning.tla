---------------------------- MODULE ErrorLearning ----------------------------
(***************************************************************************)
(* Learning of upstream errors: the data plane names an error by its       *)
(* fingerprint, looks in its copy of the approved templates and else asks  *)
(* the control plane (proxy/error_learning.rs), which finds or generates a *)
(* template under a lock of the fingerprint, counts the hit and saves the  *)
(* whole row (ai_error_learning.rs, upstream_error_learning.rs), while     *)
(* administrators read, change and save the same row without the lock.     *)
(*                                                                         *)
(* A message is its shape and a detail (an id, a model, a number) that the *)
(* fingerprint leaves out.  A text is where it came from.                  *)
(***************************************************************************)
EXTENDS Integers, Sequences, FiniteSets

CONSTANTS
  ErrRequests,   \* requests that met an upstream error
  Admins,
  UpstreamErrors,\* [shape, detail, class, coded, status]
  RawLocales,    \* what a header may say
  MaxNewPerMinute,
  ReviewThreshold,
  MaxTemplateEdits,      \* changes by administrators, bound of the model
  NoOne

ASSUME ErrorAssumption == NoOne \notin ErrRequests

ErrLocales == {"en", "ja"}

VARIABLES
  templates,   \* fingerprint -> the stored row, or NoTemplate
  templateOverrides,   \* code -> override of the built-in texts, or NoTexts
  learning,    \* [enabled, remote]: the settings, and an AI key is configured
  slots,       \* new fingerprints of the last minute, oldest first
  lockOf,      \* fingerprint -> the request that holds its lock
  resolves,    \* request -> [step, error, locale, row, created, answer]
  reviews,     \* administrator -> [step, op, print, row]
  served,      \* the data plane's copy: approved fingerprint -> row
  templateEdits,
  answered,     \* fingerprint -> hits answered since the row was created
  raced        \* fingerprints with a save that crossed an administrator's

elVars == <<templates, templateOverrides, learning, slots, lockOf, resolves, reviews, served, templateEdits, answered, raced>>

----------------------------------------------------------------------------
(* Names of errors and of locales. *)

\* An e-mail address, an id, a model or a long number in the message is
\* replaced by a placeholder.
Fingerprint(e) == <<e.status, e.shape>>

Prints == {Fingerprint(e) : e \in UpstreamErrors}

ShouldAttempt(e) == e.class = "unknown" \/ (e.class = "non_retryable" /\ ~e.coded)

CanonicalizeLocale(raw) ==
  IF raw \in {"ja", "ja_JP"} THEN "ja" ELSE IF raw \in {"en", "EN-us"} THEN "en" ELSE "none"

\* The header, else the script of the body, else English.
DetectRequestLocale(raw, bodyIsJapanese) ==
  IF CanonicalizeLocale(raw) # "none" THEN CanonicalizeLocale(raw)
  ELSE IF bodyIsJapanese THEN "ja" ELSE "en"

----------------------------------------------------------------------------
(* Templates. *)

NoTexts == [l \in ErrLocales |-> "none"]

NoTemplate == [status |-> "absent", code |-> "none", action |-> "none", texts |-> NoTexts, hits |-> 0,
               saves |-> 0, reviewed |-> 0]

DefaultTexts == [l \in ErrLocales |-> "default"]

HeuristicClassification(e) ==
  IF e.status = 400 /\ e.shape = "no_model" THEN [code |-> "unsupported_model", action |-> "fail"]
  ELSE IF e.status = 429 THEN [code |-> "quota_exhausted", action |-> "retry_cross"]
  ELSE [code |-> "request_failed", action |-> "fail"]

TemplateOverlay(texts, over) == [l \in ErrLocales |-> IF over[l] # "none" THEN over[l] ELSE texts[l]]

FillMissing(texts, locales, source) ==
  [l \in ErrLocales |-> IF l \in locales /\ texts[l] = "none" THEN source[l] ELSE texts[l]]

HeuristicTemplate(e, locales) ==
  [code |-> HeuristicClassification(e).code, action |-> HeuristicClassification(e).action,
   texts |-> FillMissing(NoTexts, locales, DefaultTexts)]

\* What the model answers may name a code of its own and leave parts out,
\* which are filled in.
RemoteTemplates(e, locales) ==
  {[code |-> c, action |-> "retry_cross", texts |-> FillMissing(t, locales, DefaultTexts)] :
     c \in {"novel", HeuristicClassification(e).code},
     t \in {NoTexts, [l \in ErrLocales |-> IF l \in locales THEN "ai" ELSE "none"]}}

\* A slot of the minute is taken for a new fingerprint only.
MayAskRemote(isNew) == learning.remote /\ (isNew => Len(slots) < MaxNewPerMinute)

Generations(e, locales, isNew) ==
  {HeuristicTemplate(e, locales)} \cup (IF MayAskRemote(isNew) THEN RemoteTemplates(e, locales) ELSE {})

SlotsAfter(isNew) == IF learning.remote /\ isNew /\ Len(slots) < MaxNewPerMinute THEN Append(slots, "slot") ELSE slots

Codes == {"unsupported_model", "quota_exhausted", "request_failed"}

\* The built-in texts of a known code take the place of the template's texts.
ApplyBuiltinHeuristic(row) ==
  IF row.code \notin Codes THEN row
  ELSE [row EXCEPT !.texts = TemplateOverlay(DefaultTexts, templateOverrides[row.code]),
                   !.action = IF row.code = "quota_exhausted" THEN "retry_cross" ELSE "fail"]

LocalizedMessage(row, l) == IF row.texts[l] # "none" THEN row.texts[l] ELSE row.texts["en"]

ReviewPending(row) ==
  IF row.status = "provisional" /\ row.hits >= ReviewThreshold THEN [row EXCEPT !.status = "pending"] ELSE row

----------------------------------------------------------------------------

IdleResolve == [step |-> "idle", error |-> NoOne, locale |-> "en", row |-> NoTemplate, answer |-> "none"]

IdleReview == [step |-> "idle", op |-> "none", print |-> NoOne, row |-> NoTemplate]

ElInit ==
  /\ templates = [f \in Prints |-> NoTemplate]
  /\ templateOverrides = [c \in Codes |-> NoTexts]
  /\ learning \in [enabled : {TRUE}, remote : BOOLEAN]
  /\ slots = <<>>
  /\ lockOf = [f \in Prints |-> NoOne]
  /\ resolves = [r \in ErrRequests |-> IdleResolve]
  /\ reviews = [a \in Admins |-> IdleReview]
  /\ served = [f \in Prints |-> NoTemplate]
  /\ templateEdits = 0
  /\ answered = [f \in Prints |-> 0]
  /\ raced = {}

PrintOf(r) == Fingerprint(resolves[r].error)

\* The row is written as a whole, whatever was saved since it was read.
SaveTemplate(f, row, byAdmin) ==
  LET now == templates[f]
  IN /\ templates' = [templates EXCEPT ![f] = [row EXCEPT !.saves = now.saves + 1,
                                                         !.reviewed = now.reviewed + (IF byAdmin THEN 1 ELSE 0)]]
     /\ raced' = IF row.reviewed # now.reviewed \/ (byAdmin /\ row.saves # now.saves)
                 THEN raced \cup {f} ELSE raced

----------------------------------------------------------------------------
(* A request resolves its error. *)

\* The data plane: an approved template, or a call of the control plane.
ResolveUpstreamError(r, e, raw, bodyIsJapanese) ==
  /\ resolves[r].step = "idle"
  /\ LET l == DetectRequestLocale(raw, bodyIsJapanese)
         f == Fingerprint(e)
         step == IF served[f].status # "absent" \/ ~learning.enabled \/ ~ShouldAttempt(e) THEN "done" ELSE "lock"
         answer == IF served[f].status # "absent" THEN LocalizedMessage(served[f], l) ELSE "none"
     IN resolves' = [resolves EXCEPT ![r] =
          IF step = "done" THEN [IdleResolve EXCEPT !.step = "done", !.answer = answer]
          ELSE [IdleResolve EXCEPT !.step = "lock", !.error = e, !.locale = l]]
  /\ UNCHANGED <<templates, templateOverrides, learning, slots, lockOf, reviews, served, templateEdits, answered, raced>>

NoLock(f, r) == TRUE

LockFree(f, r) == lockOf[f] = NoOne

\* The lock, the settings and the row.
ReadTemplate(r) ==
  /\ resolves[r].step = "lock" /\ LockFree(PrintOf(r), r)
  /\ lockOf' = [lockOf EXCEPT ![PrintOf(r)] = r]
  /\ resolves' = [resolves EXCEPT ![r].step = "work", ![r].row = templates[PrintOf(r)]]
  /\ UNCHANGED <<templates, templateOverrides, learning, slots, reviews, served, templateEdits, answered, raced>>

NewRow(g) ==
  ApplyBuiltinHeuristic([NoTemplate EXCEPT !.status = "provisional", !.code = g.code, !.action = g.action,
                                           !.texts = g.texts])

\* A missing text is generated; action and scope are replaced with it.
WithGenerated(row, g) ==
  ApplyBuiltinHeuristic([row EXCEPT !.action = g.action, !.texts = TemplateOverlay(row.texts, g.texts)])

NeedsText(row, l) == row.texts[l] = "none" /\ row.status # "rejected"

\* Generates what is missing (for a new fingerprint, then for the locale) and
\* counts the hit.
PrepareTemplate(r) ==
  /\ resolves[r].step = "work"
  /\ LET e == resolves[r].error
         l == resolves[r].locale
         old == resolves[r].row
         isNew == old.status = "absent"
     IN /\ \E g \in Generations(e, {l}, isNew), h \in Generations(e, {l}, FALSE) :
             LET base == IF isNew THEN NewRow(g) ELSE old
                 full == IF NeedsText(base, l) THEN WithGenerated(base, h) ELSE base
             IN resolves' = [resolves EXCEPT ![r].step = "save",
                               ![r].row = ReviewPending([full EXCEPT !.hits = full.hits + 1])]
        /\ slots' = SlotsAfter(isNew)
  /\ UNCHANGED <<templates, templateOverrides, learning, lockOf, reviews, served, templateEdits, answered, raced>>

Unlocked(r) == [lockOf EXCEPT ![PrintOf(r)] = NoOne]

SaveResolved(r) ==
  /\ resolves[r].step = "save"
  /\ SaveTemplate(PrintOf(r), resolves[r].row, FALSE)
  /\ answered' = [answered EXCEPT ![PrintOf(r)] = @ + 1]
  /\ lockOf' = Unlocked(r)
  /\ resolves' = [resolves EXCEPT ![r] =
                    [IdleResolve EXCEPT !.step = "done",
                       !.answer = LocalizedMessage(resolves[r].row, resolves[r].locale)]]
  /\ UNCHANGED <<templateOverrides, learning, slots, reviews, served, templateEdits>>

\* The store fails, or the data plane's timeout closes the connection and the
\* handler is dropped with its lock.
Abandon(r) ==
  /\ resolves[r].step \in {"lock", "work", "save"}
  /\ lockOf' = IF resolves[r].step = "lock" THEN lockOf ELSE Unlocked(r)
  /\ resolves' = [resolves EXCEPT ![r] = [IdleResolve EXCEPT !.step = "done"]]
  /\ UNCHANGED <<templates, templateOverrides, learning, slots, reviews, served, templateEdits, answered, raced>>

----------------------------------------------------------------------------
(* Administrators: each reads the row and then saves what it made of it. *)

Approved(row) == {[row EXCEPT !.status = "approved"]}

Rejected(row) == {[row EXCEPT !.status = "rejected"]}

\* The texts an administrator gives may leave locales out.
TemplateUpdated(row) ==
  {[row EXCEPT !.action = "retry_cross", !.texts = [NoTexts EXCEPT !["en"] = "admin"]]}

\* All of the template is generated again, for every locale.
Rewritten(row, f) ==
  {[row EXCEPT !.code = g.code, !.action = g.action, !.texts = g.texts] :
     g \in UNION {Generations(e, ErrLocales, FALSE) : e \in {x \in UpstreamErrors : Fingerprint(x) = f}}}

Reviewed(op, row, f) ==
  IF op = "approve" THEN Approved(row)
  ELSE IF op = "reject" THEN Rejected(row)
  ELSE IF op = "update" THEN TemplateUpdated(row)
  ELSE Rewritten(row, f)

ReviewReads(a, f, op) ==
  /\ reviews[a].step = "idle" /\ templateEdits < MaxTemplateEdits
  /\ templates[f].status # "absent"
  /\ reviews' = [reviews EXCEPT ![a] = [step |-> "save", op |-> op, print |-> f, row |-> templates[f]]]
  /\ templateEdits' = templateEdits + 1
  /\ UNCHANGED <<templates, templateOverrides, learning, slots, lockOf, resolves, served, answered, raced>>

ReviewSaves(a) ==
  /\ reviews[a].step = "save"
  /\ \E row \in Reviewed(reviews[a].op, reviews[a].row, reviews[a].print) : SaveTemplate(reviews[a].print, row, TRUE)
  /\ reviews' = [reviews EXCEPT ![a] = IdleReview]
  /\ UNCHANGED <<templateOverrides, learning, slots, lockOf, resolves, served, templateEdits, answered>>

SetOverride(c, over) ==
  /\ templateEdits < MaxTemplateEdits /\ over # templateOverrides[c]
  /\ templateOverrides' = [templateOverrides EXCEPT ![c] = over]
  /\ templateEdits' = templateEdits + 1
  /\ UNCHANGED <<templates, learning, slots, lockOf, resolves, reviews, served, answered, raced>>

UpdateBuiltin(c) == SetOverride(c, [NoTexts EXCEPT !["ja"] = "admin"])

\* The generated texts over the current ones; what is missing is the default.
RewriteBuiltin(c) ==
  LET current == TemplateOverlay(DefaultTexts, templateOverrides[c])
  IN SetOverride(c, IF learning.remote THEN TemplateOverlay(current, [NoTexts EXCEPT !["en"] = "ai"]) ELSE current)

ResetBuiltin(c) == SetOverride(c, NoTexts)

UpdateSettings ==
  /\ templateEdits < MaxTemplateEdits
  /\ learning' = [learning EXCEPT !.enabled = ~@]
  /\ templateEdits' = templateEdits + 1
  /\ UNCHANGED <<templates, templateOverrides, slots, lockOf, resolves, reviews, served, answered, raced>>

\* The data plane takes over the approved templates of the next snapshot.
ServeApproved ==
  /\ served' = [f \in Prints |-> IF templates[f].status = "approved" THEN templates[f] ELSE NoTemplate]
  /\ served' # served
  /\ UNCHANGED <<templates, templateOverrides, learning, slots, lockOf, resolves, reviews, templateEdits, answered, raced>>

\* A minute after it was taken a slot is free again.
SlotAges ==
  /\ slots # <<>>
  /\ slots' = Tail(slots)
  /\ UNCHANGED <<templates, templateOverrides, learning, lockOf, resolves, reviews, served, templateEdits, answered, raced>>

----------------------------------------------------------------------------

ResolveStep(r) == ReadTemplate(r) \/ PrepareTemplate(r) \/ SaveResolved(r)

ElNext ==
  \/ \E r \in ErrRequests :
       \/ \E e \in UpstreamErrors, raw \in RawLocales, j \in BOOLEAN : ResolveUpstreamError(r, e, raw, j)
       \/ ResolveStep(r)
       \/ Abandon(r)
  \/ \E a \in Admins :
       \/ \E f \in Prints, op \in {"approve", "reject", "update", "rewrite"} : ReviewReads(a, f, op)
       \/ ReviewSaves(a)
  \/ \E c \in Codes : UpdateBuiltin(c) \/ RewriteBuiltin(c) \/ ResetBuiltin(c)
  \/ UpdateSettings
  \/ ServeApproved
  \/ SlotAges

\* A fingerprint's lock is handed on in the order of waiting; the store and
\* the AI call end, by their timeouts if need be.
ElFairness == \A r \in ErrRequests : SF_elVars(ReadTemplate(r)) /\ WF_elVars(ResolveStep(r))

ElSpec == ElInit /\ [][ElNext]_elVars /\ ElFairness

----------------------------------------------------------------------------

\* The hits of a template are the resolutions that were answered from it, in
\* whatever order requests with the same error arrive, as long as no save by
\* an administrator crossed one.
HitsAreCounted == \A f \in Prints : f \notin raced => templates[f].hits = answered[f]

=============================================================================
