------------------------------ MODULE Pricing ------------------------------
(***************************************************************************)
(* What a request costs.  The official catalogue, the administrator's      *)
(* overrides, the long-context rules and the API-key groups with their     *)
(* model policies decide a price; an authorization and a capture read it,  *)
(* together with the price band of the client's billing session, in        *)
(* transactions that lock the session's row.                               *)
(*                                                                         *)
(* A price is a triple of amounts; Unpriced is the triple of NULLs, which  *)
(* makes the code's typed column reads fail.  A model pattern is the set   *)
(* of the models it matches.  The money a charge moves is CreditLedger's   *)
(* subject: here the charge itself is computed.                            *)
(***************************************************************************)
EXTENDS Integers, FiniteSets, Sequences

CONSTANTS
  PricedModels,      \* names of models
  KeyGroups,         \* ids of API-key groups
  RuleIds,           \* ids of pricing rules
  SessionKeys,       \* session keys one tenant sends
  BillingIds,        \* request ids billed
  BillingInputs,     \* what a request asks: model, tier, kind, group, session
  TokenCounts,       \* what a response reports: input, cached, output
  CatalogChoices,    \* catalogues an earlier release left, and official pages
  PriceEdits,        \* price triples an administrator enters
  MultiplierEdits,   \* multiplier triples an administrator enters
  RuleChoices,       \* rules an administrator enters
  DefaultPrice,      \* the environment's price, or Unpriced
  FallbackEnabled,   \* BILLING_PRICING_FALLBACK_ENABLED
  PpmOne,            \* multiplier scale: 1,000,000 in the code
  TokenScale,        \* tokens a price is quoted for: 1,000,000 in the code
  MaxPriceEdits      \* bound on administrator edits

ASSUME PricingAssumption ==
  /\ PpmOne \in Nat \ {0} /\ TokenScale \in Nat \ {0} /\ MaxPriceEdits \in Nat
  /\ FallbackEnabled \in BOOLEAN
  /\ \A k \in BillingInputs : k.model \in PricedModels

VARIABLES
  priceEdition,   \* "postgres" (billing and usage) or "sqlite" (usage only)
  catalog,        \* openai_models_catalog: model |-> price
  catalogError,   \* model_catalog_last_error is set
  overrides,      \* model_pricing_overrides: <<model, tier>> |-> [price, enabled]
  entities,       \* admin_model_entities
  rules,          \* billing_pricing_rules, in order of creation
  keyGroups,      \* api_key_groups: id |-> record
  policies,       \* api_key_group_model_policies: <<group, model>> |-> record
  deleting,       \* groups whose deletion has passed its check
  sessions,       \* billing_sessions: key |-> [band, live]
  sessionLock,    \* session key |-> the billing holding its row, or "none"
  billing,        \* state of each billed request
  priceEdits

pricingVars == <<priceEdition, catalog, catalogError, overrides, entities,
                 rules, keyGroups, policies, deleting, sessions, sessionLock,
                 billing, priceEdits>>
adminVars == <<catalog, catalogError, overrides, entities, rules, keyGroups,
               policies, deleting, priceEdits>>
billingVars == <<sessions, sessionLock, billing>>

Triple(i, c, o) == [input |-> i, cached |-> c, output |-> o]
Unpriced == Triple(-1, -1, -1)
NoThreshold == -1
NoKeyGroup == "no group"
One == Triple(PpmOne, PpmOne, PpmOne)

Put(f, k, v) == [x \in DOMAIN f \cup {k} |-> IF x = k THEN v ELSE f[x]]
Without(f, ks) == [x \in DOMAIN f \ ks |-> f[x]]
NonNegative(n) == IF n < 0 THEN 0 ELSE n
AtMost(n, m) == IF n < m THEN n ELSE m
-----------------------------------------------------------------------------
(* Arithmetic.  Amounts stay far below the 64-bit limit, where the code    *)
(* saturates.                                                              *)

ApplyMultiplierPpm(price, m) ==
  (NonNegative(price) * NonNegative(m) + PpmOne \div 2) \div PpmOne

Scaled(p, m) == Triple(ApplyMultiplierPpm(p.input, m.input),
                       ApplyMultiplierPpm(p.cached, m.cached),
                       ApplyMultiplierPpm(p.output, m.output))

ChargeTokens(tokens, price) ==
  (NonNegative(tokens) * NonNegative(price) + TokenScale \div 2) \div TokenScale

EstimatedCost(t, p) ==
  LET cached == AtMost(NonNegative(t.cached), NonNegative(t.input))
  IN  ChargeTokens(NonNegative(t.input) - cached, p.input)
        + ChargeTokens(cached, p.cached) + ChargeTokens(t.output, p.output)

NormalizeTier(tier) ==
  IF tier \in {"priority", "fast"} THEN "priority"
  ELSE IF tier = "flex" THEN "flex" ELSE "default"

LookupTiers(tier) ==
  IF tier \in {"priority", "flex"} THEN <<tier, "default">> ELSE <<"default">>

\* The enabled override for a model, of the tier itself before "default".
OverrideOf(m, tier) ==
  LET hit == {i \in DOMAIN LookupTiers(tier) :
                LET k == <<m, LookupTiers(tier)[i]>>
                IN  k \in DOMAIN overrides /\ overrides[k].enabled}
  IN  IF hit = {} THEN Unpriced
      ELSE overrides[<<m, LookupTiers(tier)[CHOOSE i \in hit : \A j \in hit : i <= j]>>].price

\* Billing and the Postgres reports read a stored cached price of zero as
\* the input price; the SQLite reports read it as a tenth.
CachedOrInput(p) ==
  [p EXCEPT !.cached = IF @ <= 0 THEN NonNegative(p.input) ELSE @]
CachedOrTenth(p) ==
  [p EXCEPT !.cached = IF @ <= 0 THEN NonNegative(p.input \div 10) ELSE @]

FallbackPrice == DefaultPrice
-----------------------------------------------------------------------------
(* The three resolvers.  Unpriced stands for an error: no price, or a      *)
(* catalogue row whose price columns are NULL.                             *)

ResolveBase(m, tier) ==
  LET o == OverrideOf(m, NormalizeTier(tier))
  IN  IF o # Unpriced THEN CachedOrInput(o)
      ELSE IF m \in DOMAIN catalog THEN catalog[m]
      ELSE IF FallbackEnabled THEN FallbackPrice ELSE Unpriced

PgUsagePrice(m, tier) ==
  LET o == OverrideOf(m, NormalizeTier(tier))
  IN  IF o # Unpriced THEN CachedOrInput(o)
      ELSE IF m \in DOMAIN catalog
           THEN IF catalog[m] = Unpriced THEN Unpriced ELSE CachedOrInput(catalog[m])
      ELSE FallbackPrice

SqliteUsagePrice(m, tier) ==
  LET o == OverrideOf(m, NormalizeTier(tier))
  IN  IF o # Unpriced THEN CachedOrTenth(o)
      ELSE IF m \in DOMAIN catalog
           THEN IF catalog[m] = Unpriced THEN Unpriced ELSE CachedOrTenth(catalog[m])
      ELSE FallbackPrice

\* The cost a request log is stored with.
LogCost(p, t) == IF p = Unpriced THEN -1 ELSE EstimatedCost(t, p)
-----------------------------------------------------------------------------
(* Rules and bands.                                                        *)

RuleMatchesKind(r, kind) == r.kind \in {"any", kind}

\* The enabled rules that match, as positions in order of creation.
MatchingRules(m, kind) ==
  {i \in DOMAIN rules : rules[i].enabled /\ m \in rules[i].models
                          /\ RuleMatchesKind(rules[i], kind)}

\* ORDER BY priority DESC, threshold DESC NULLS LAST, created_at ASC.
RuleBefore(i, j) ==
  \/ rules[i].priority > rules[j].priority
  \/ rules[i].priority = rules[j].priority /\ rules[i].threshold > rules[j].threshold
  \/ /\ rules[i].priority = rules[j].priority /\ rules[i].threshold = rules[j].threshold
     /\ i < j

FirstRule(is) == CHOOSE i \in is : \A j \in is \ {i} : RuleBefore(i, j)

ThresholdReached(i, tokens, phase) ==
  /\ tokens >= NonNegative(rules[i].threshold)
  /\ rules[i].scope = "session" => phase = "capture"

\* A persisted long-context band stays; otherwise any rule whose threshold
\* is reached starts it.
DecideBand(m, kind, persisted, tokens, phase) ==
  IF persisted = "long_context"
       \/ \E i \in MatchingRules(m, kind) : ThresholdReached(i, tokens, phase)
  THEN "long_context" ELSE "base"

\* The multipliers are those of the first matching rule, whichever rule's
\* threshold was reached.
EffectivePricing(base, m, kind, band) ==
  IF band = "long_context" /\ MatchingRules(m, kind) # {}
  THEN Scaled(base, rules[FirstRule(MatchingRules(m, kind))].multiplier)
  ELSE base
-----------------------------------------------------------------------------
(* API-key groups.                                                         *)

GroupUsable(g) == g \in DOMAIN keyGroups /\ ~keyGroups[g].deleted /\ keyGroups[g].enabled

HasAbsolutePricing(p) == p.absolute # Unpriced

\* Two roundings: the group's multiplier, then the policy's.
GroupFormula(base, g, policy) ==
  Scaled(Scaled(base, keyGroups[g].multiplier), policy.multiplier)

ApplyGroupPricing(base, g, policy) ==
  IF HasAbsolutePricing(policy) THEN policy.absolute ELSE GroupFormula(base, g, policy)

NoPolicy == [enabled |-> TRUE, multiplier |-> One, absolute |-> Unpriced]
PolicyOf(g, m) == IF <<g, m>> \in DOMAIN policies THEN policies[<<g, m>>] ELSE NoPolicy

ModelAllowed(g, m) ==
  /\ PolicyOf(g, m).enabled
  /\ keyGroups[g].allowAll \/ <<g, m>> \in DOMAIN policies

\* Unpriced: the group is unavailable or the model is not allowed.
ResolveGroupPricing(g, m, base) ==
  IF GroupUsable(g) /\ ModelAllowed(g, m)
  THEN ApplyGroupPricing(base, g, PolicyOf(g, m)) ELSE Unpriced

GroupCatalog == DOMAIN catalog \cup entities

\* Mutant: a disabled policy does not take its model off the list.
ModelAllowlistIgnoresDenied(g) ==
  IF ~GroupUsable(g) THEN {}
  ELSE IF keyGroups[g].allowAll THEN GroupCatalog
  ELSE {m \in PricedModels : <<g, m>> \in DOMAIN policies /\ policies[<<g, m>>].enabled}

\* The models the data plane lets a key of this group use.
ModelAllowlist(g) ==
  IF ~GroupUsable(g) THEN {}
  ELSE IF keyGroups[g].allowAll
  THEN {m \in GroupCatalog : <<g, m>> \in DOMAIN policies => policies[<<g, m>>].enabled}
  ELSE {m \in PricedModels : <<g, m>> \in DOMAIN policies /\ policies[<<g, m>>].enabled}

PreviewModels(g) ==
  IF keyGroups[g].allowAll THEN GroupCatalog
  ELSE {m \in GroupCatalog : <<g, m>> \in DOMAIN policies /\ policies[<<g, m>>].enabled}

\* The final price the group pages show for a model: base price of the
\* default tier, and the policy whether it is enabled or not.
PreviewPrice(g, m) ==
  LET base == ResolveBase(m, "default")
  IN  IF base = Unpriced THEN Unpriced ELSE ApplyGroupPricing(base, g, PolicyOf(g, m))

\* resolve_model_pricing_for_request: rules first, then the group.
PriceFor(k, band) ==
  LET base == ResolveBase(k.model, k.tier)
      banded == EffectivePricing(base, k.model, k.kind, band)
  IN  IF base = Unpriced THEN Unpriced
      ELSE IF k.group = NoKeyGroup THEN banded
      ELSE ResolveGroupPricing(k.group, k.model, banded)

\* What the pricing endpoint answers: no rule is applied.
BillingPricing(m, tier, g) ==
  LET base == ResolveBase(m, tier)
  IN  IF base = Unpriced \/ g = NoKeyGroup THEN base ELSE ResolveGroupPricing(g, m, base)
-----------------------------------------------------------------------------
NewBilling == [phase |-> "new", seen |-> "none", band |-> "base", charge |-> 0]

PricingInit ==
  /\ priceEdition \in {"postgres", "sqlite"}
  /\ catalog \in CatalogChoices
  /\ catalogError = FALSE
  /\ overrides = <<>> /\ entities = {} /\ rules = <<>>
  /\ keyGroups = [g \in {CHOOSE g \in KeyGroups : TRUE} |->
        [isDefault |-> TRUE, enabled |-> TRUE, allowAll |-> TRUE, deleted |-> FALSE,
         multiplier |-> One]]
  /\ policies = <<>> /\ deleting = {}
  /\ sessions = <<>>
  /\ sessionLock = [s \in SessionKeys |-> "none"]
  /\ billing = [b \in BillingIds |-> NewBilling]
  /\ priceEdits = 0

Edit == priceEdits < MaxPriceEdits /\ priceEdits' = priceEdits + 1

\* Every page of the site was fetched: the items are not empty.
SqliteApplyCatalog(items) == items # <<>> /\ catalog' = items /\ catalogError' = FALSE

\* The INSERT names 36 columns and supplies 34 values, so the server
\* refuses it and the transaction, which would also clear the custom
\* models and the rules, rolls back.
PgApplyCatalog(items) == items # <<>> /\ catalogError' = TRUE /\ UNCHANGED catalog

SyncCatalog(items) ==
  /\ Edit
  /\ IF priceEdition = "sqlite" THEN SqliteApplyCatalog(items) ELSE PgApplyCatalog(items)
  /\ UNCHANGED <<priceEdition, overrides, entities, rules, keyGroups, policies,
                 deleting, billingVars>>

\* The index or one of the pages could not be fetched.
SyncFails ==
  /\ Edit
  /\ catalogError' = TRUE
  /\ UNCHANGED <<priceEdition, catalog, overrides, entities, rules, keyGroups,
                 policies, deleting, billingVars>>

\* A request without a cached price gets a tenth of the input price.
EnteredPrice(p) == [p EXCEPT !.cached = IF @ < 0 THEN NonNegative(p.input \div 10) ELSE @]

PgUpsertOverride(m, tier, p, on) ==
  /\ m \in DOMAIN catalog
  /\ overrides' = Put(overrides, <<m, NormalizeTier(tier)>>,
                      [price |-> EnteredPrice(p), enabled |-> on])

\* The id of the existing row is read first and written back, so a row
\* keeps its identity; the price is that of the last writer.
SqliteUpsertOverride(m, tier, p, on) ==
  /\ m \in DOMAIN catalog
  /\ overrides' = Put(overrides, <<m, NormalizeTier(tier)>>,
                      [price |-> EnteredPrice(p), enabled |-> on])

UpsertModelPricing(m, tier, p, on) ==
  /\ Edit
  /\ IF priceEdition = "sqlite" THEN SqliteUpsertOverride(m, tier, p, on)
     ELSE PgUpsertOverride(m, tier, p, on)
  /\ UNCHANGED <<priceEdition, catalog, catalogError, entities, rules, keyGroups,
                 policies, deleting, billingVars>>

DeleteModelPricing(k) ==
  /\ Edit
  /\ overrides' = Without(overrides, {k})
  /\ UNCHANGED <<priceEdition, catalog, catalogError, entities, rules, keyGroups,
                 policies, deleting, billingVars>>

Postgres == priceEdition = "postgres"

UpsertModelEntity(m) ==
  /\ Postgres /\ Edit
  /\ entities' = entities \cup {m}
  /\ UNCHANGED <<priceEdition, catalog, catalogError, overrides, rules, keyGroups,
                 policies, deleting, billingVars>>

DeleteModelEntity(m) ==
  /\ Postgres /\ Edit
  /\ entities' = entities \ {m}
  /\ UNCHANGED <<priceEdition, catalog, catalogError, overrides, rules, keyGroups,
                 policies, deleting, billingVars>>

\* An upsert of a known id keeps created_at, hence its place.
UpsertPricingRule(id, r) ==
  /\ Postgres /\ Edit
  /\ LET at == {i \in DOMAIN rules : rules[i].id = id}
         row == [id |-> id, models |-> r.models, kind |-> r.kind, scope |-> r.scope,
                 threshold |-> r.threshold, multiplier |-> r.multiplier,
                 priority |-> r.priority, enabled |-> r.enabled]
     IN  rules' = IF at = {} THEN Append(rules, row)
                  ELSE [rules EXCEPT ![CHOOSE i \in at : TRUE] = row]
  /\ UNCHANGED <<priceEdition, catalog, catalogError, overrides, entities, keyGroups,
                 policies, deleting, billingVars>>

DeletePricingRule(id) ==
  /\ Postgres /\ Edit
  /\ \E i \in DOMAIN rules : rules[i].id = id
  /\ rules' = SelectSeq(rules, LAMBDA r : r.id # id)
  /\ UNCHANGED <<priceEdition, catalog, catalogError, overrides, entities, keyGroups,
                 policies, deleting, billingVars>>

\* One transaction: the other default is cleared, the row is written, and
\* a deleted group comes back.
UpsertKeyGroup(g, default, on, all, mult) ==
  /\ Postgres /\ Edit
  /\ LET cleared == [h \in DOMAIN keyGroups |->
                       IF default /\ h # g THEN [keyGroups[h] EXCEPT !.isDefault = FALSE]
                       ELSE keyGroups[h]]
     IN  keyGroups' = Put(cleared, g, [isDefault |-> default, enabled |-> on,
                            allowAll |-> all, deleted |-> FALSE, multiplier |-> mult])
  /\ UNCHANGED <<priceEdition, catalog, catalogError, overrides, entities, rules,
                 policies, deleting, billingVars>>

\* The check and the write are separate statements.
CheckKeyGroupDeletion(g) ==
  /\ Postgres /\ Edit
  /\ g \in DOMAIN keyGroups /\ ~keyGroups[g].isDefault
  /\ deleting' = deleting \cup {g}
  /\ UNCHANGED <<priceEdition, catalog, catalogError, overrides, entities, rules,
                 keyGroups, policies, billingVars>>

DeleteKeyGroup(g) ==
  /\ g \in deleting
  /\ deleting' = deleting \ {g}
  /\ keyGroups' = [keyGroups EXCEPT ![g].enabled = FALSE, ![g].isDefault = FALSE,
                                    ![g].deleted = TRUE]
  /\ UNCHANGED <<priceEdition, catalog, catalogError, overrides, entities, rules,
                 policies, priceEdits, billingVars>>

UpsertPolicy(g, m, on, mult, absolute) ==
  /\ Postgres /\ Edit
  /\ g \in DOMAIN keyGroups /\ ~keyGroups[g].deleted
  /\ policies' = Put(policies, <<g, m>>,
                     [enabled |-> on, multiplier |-> mult, absolute |-> absolute])
  /\ UNCHANGED <<priceEdition, catalog, catalogError, overrides, entities, rules,
                 keyGroups, deleting, billingVars>>

DeletePolicy(k) ==
  /\ Postgres /\ Edit
  /\ policies' = Without(policies, {k})
  /\ UNCHANGED <<priceEdition, catalog, catalogError, overrides, entities, rules,
                 keyGroups, deleting, billingVars>>
-----------------------------------------------------------------------------
(* Authorizations and captures.  SELECT ... FOR UPDATE locks the session's *)
(* row when a live one exists; prices are read after it, outside the       *)
(* transaction; the session is written before the commit releases it.      *)

SessionRow(s) == IF s \in DOMAIN sessions /\ sessions[s].live THEN sessions[s].band ELSE "none"

LockSession(b, s) ==
  /\ sessionLock[s] = "none" \/ SessionRow(s) = "none"
  /\ sessionLock' = IF SessionRow(s) = "none" THEN sessionLock
                    ELSE [sessionLock EXCEPT ![s] = b]

Unlock(b) == sessionLock' = [s \in SessionKeys |-> IF sessionLock[s] = b THEN "none"
                                                   ELSE sessionLock[s]]

UpsertSession(b, s, band) ==
  /\ sessionLock[s] \in {"none", b}
  /\ sessions' = Put(sessions, s, [band |-> band, live |-> TRUE])

BeginAuthorize(b, k) ==
  /\ Postgres /\ billing[b].phase = "new"
  /\ LockSession(b, k.session)
  /\ billing' = [billing EXCEPT ![b] =
        [phase |-> "authorizing", seen |-> SessionRow(k.session), band |-> "base",
         charge |-> 0, ask |-> k]]
  /\ UNCHANGED <<priceEdition, adminVars, sessions>>

\* The hold and the authorization row belong to the same transaction.
CommitAuthorize(b) ==
  /\ billing[b].phase = "authorizing"
  /\ LET k == billing[b].ask
         band == DecideBand(k.model, k.kind, billing[b].seen, 0, "authorize")
     IN  /\ PriceFor(k, band) # Unpriced
         /\ UpsertSession(b, k.session, band)
         /\ billing' = [billing EXCEPT ![b].phase = "authorized", ![b].band = band]
  /\ Unlock(b)
  /\ UNCHANGED <<priceEdition, adminVars>>

RefuseAuthorize(b) ==
  /\ billing[b].phase = "authorizing"
  /\ LET k == billing[b].ask
     IN  PriceFor(k, DecideBand(k.model, k.kind, billing[b].seen, 0, "authorize")) = Unpriced
  /\ billing' = [billing EXCEPT ![b].phase = "refused"]
  /\ Unlock(b)
  /\ UNCHANGED <<priceEdition, adminVars, sessions>>

\* A capture that names no kind takes the authorization's.
CaptureKind(k) == IF k.captureKind = "unknown" THEN k.kind ELSE k.captureKind

BeginCapture(b) ==
  /\ billing[b].phase = "authorized"
  /\ LockSession(b, billing[b].ask.session)
  /\ billing' = [billing EXCEPT ![b].phase = "capturing",
                                ![b].seen = SessionRow(billing[b].ask.session)]
  /\ UNCHANGED <<priceEdition, adminVars, sessions>>

\* The band of the session, or else the one the authorization recorded.
PersistedBand(b) == IF billing[b].seen = "none" THEN billing[b].band ELSE billing[b].seen

CapturePrice(b, t) ==
  LET k == [billing[b].ask EXCEPT !.kind = CaptureKind(billing[b].ask)]
      band == DecideBand(k.model, k.kind, PersistedBand(b), NonNegative(t.input), "capture")
  IN  [band |-> band, price |-> PriceFor(k, band)]

CommitCapture(b, t) ==
  /\ billing[b].phase = "capturing"
  /\ CapturePrice(b, t).price # Unpriced
  /\ LET d == CapturePrice(b, t)
     IN  /\ UpsertSession(b, billing[b].ask.session, d.band)
         /\ billing' = [billing EXCEPT ![b].phase = "captured", ![b].band = d.band,
                                       ![b].charge = EstimatedCost(t, d.price)]
  /\ Unlock(b)
  /\ UNCHANGED <<priceEdition, adminVars>>

\* The prices changed since the authorization and no longer exist: the
\* capture is an error and may be tried again.
FailCapture(b, t) ==
  /\ billing[b].phase = "capturing"
  /\ CapturePrice(b, t).price = Unpriced
  /\ billing' = [billing EXCEPT ![b].phase = "authorized", ![b].seen = "none"]
  /\ Unlock(b)
  /\ UNCHANGED <<priceEdition, adminVars, sessions>>

\* A day without a request.
ExpireSession(s) ==
  /\ s \in DOMAIN sessions /\ sessions[s].live
  /\ sessions' = [sessions EXCEPT ![s].live = FALSE]
  /\ UNCHANGED <<priceEdition, adminVars, sessionLock, billing>>

AdminNext ==
  \/ \E items \in CatalogChoices : SyncCatalog(items)
  \/ SyncFails
  \/ \E m \in PricedModels, tier \in {"default", "fast", "flex"}, p \in PriceEdits,
        on \in BOOLEAN : UpsertModelPricing(m, tier, p, on)
  \/ \E k \in DOMAIN overrides : DeleteModelPricing(k)
  \/ \E m \in PricedModels : UpsertModelEntity(m)
  \/ \E m \in entities : DeleteModelEntity(m)
  \/ \E id \in RuleIds, r \in RuleChoices : UpsertPricingRule(id, r)
  \/ \E id \in RuleIds : DeletePricingRule(id)
  \/ \E g \in KeyGroups, default, on, all \in BOOLEAN, mult \in MultiplierEdits :
        UpsertKeyGroup(g, default, on, all, mult)
  \/ \E g \in KeyGroups : CheckKeyGroupDeletion(g) \/ DeleteKeyGroup(g)
  \/ \E g \in KeyGroups, m \in PricedModels, on \in BOOLEAN, mult \in MultiplierEdits,
        absolute \in PriceEdits \cup {Unpriced} : UpsertPolicy(g, m, on, mult, absolute)
  \/ \E k \in DOMAIN policies : DeletePolicy(k)

BillingNext ==
  \/ \E b \in BillingIds, k \in BillingInputs : BeginAuthorize(b, k)
  \/ \E b \in BillingIds : CommitAuthorize(b) \/ RefuseAuthorize(b) \/ BeginCapture(b)
  \/ \E b \in BillingIds, t \in TokenCounts : CommitCapture(b, t) \/ FailCapture(b, t)
  \/ \E s \in SessionKeys : ExpireSession(s)

PricingNext == AdminNext \/ BillingNext
-----------------------------------------------------------------------------
(* Properties.                                                             *)

\* A model on a group's allowlist, which the data plane enforces before it
\* forwards, is never refused by the group's pricing, and is billed at the
\* price the group's page shows: three readings of groups and policies
\* (resolve_api_key_group_model_allowlist, resolve_api_key_group_pricing and
\* build_api_key_group_item) that must agree.
AllowedIsBilledAsShown ==
  Postgres => \A g \in DOMAIN keyGroups : \A m \in ModelAllowlist(g) :
    /\ ResolveGroupPricing(g, m, One) # Unpriced
    /\ m \in PreviewModels(g) => PreviewPrice(g, m) = BillingPricing(m, "default", g)

\* The request logs are stored with the cost billing would charge: where
\* billing has a base price for a model of the catalogue, its cached part not
\* zero, the usage repositories of both editions find the same one, after
\* any edits and whether the tier has overrides of its own or not.
LoggedAsBilled ==
  \A m \in DOMAIN catalog, tier \in {"auto", "fast"} :
    LET b == ResolveBase(m, tier)
        p == IF Postgres THEN PgUsagePrice(m, tier) ELSE SqliteUsagePrice(m, tier)
    IN  b # Unpriced /\ b.cached > 0 =>
          \A t \in TokenCounts : LogCost(p, t) = EstimatedCost(t, b)

\* What is shown, what is billed and what is logged for a model are one price.
PricesAgree == AllowedIsBilledAsShown /\ LoggedAsBilled
=============================================================================
