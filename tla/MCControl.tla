------------------------------ MODULE MCControl ------------------------------
(***************************************************************************)
(* The control plane on one small instance: prices and billing sessions,   *)
(* OAuth logins, the token vault, the rate-limit refresh jobs, the model   *)
(* routing plans, the model probe, the learned error templates, tenants    *)
(* and their users, and the migration between editions.  They share no     *)
(* state in the model: focus, fixed in the initial state, says which of    *)
(* them moves, and the others rest in one of their initial states.         *)
(***************************************************************************)
EXTENDS Pricing, OAuthLogin, TokenVault, RateLimitJobs, ModelRouting, ModelProbe,
        ErrorLearning, Tenants, EditionMigration

CONSTANTS v1, v2, Focused

VARIABLE focus

-----------------------------------------------------------------------------
(* Prices: a model with a price and one without, two rules, two inputs. *)

CatalogPair == {<<>>, ("m1" :> Triple(10, 1, 20)) @@ ("m2" :> Unpriced)}
OnePrice == {Triple(12, -1, 9)}
OneMultiplier == {Triple(3, 3, 3)}
RulePair ==
  {[models |-> {"m1"}, kind |-> "any", scope |-> "session", threshold |-> 3,
    multiplier |-> Triple(4, 2, 3), priority |-> 1, enabled |-> TRUE],
   [models |-> {"m1", "m2"}, kind |-> "chat", scope |-> "request", threshold |-> NoThreshold,
    multiplier |-> Triple(3, 3, 3), priority |-> 1, enabled |-> TRUE]}
InputPair ==
  {[model |-> "m1", tier |-> "fast", kind |-> "response", captureKind |-> "unknown", group |-> "g1", session |-> "s"],
   [model |-> "m1", tier |-> "default", kind |-> "response", captureKind |-> "chat", group |-> NoKeyGroup,
    session |-> "s"]}
TokenPair == {[input |-> 1, cached |-> 1, output |-> 1], [input |-> 4, cached |-> 1, output |-> 0]}
PriceOfUnknown == Triple(5, 2, 5)

\* The administrator edits everything, or requests are billed while rules change.
PricesChange == AdminNext
SessionsBilled ==
  \/ BillingNext
  \/ \E id \in RuleIds : DeletePricingRule(id) \/ \E r \in RuleChoices : UpsertPricingRule(id, r)
  \/ UpsertKeyGroup("g1", TRUE, FALSE, TRUE, One)

(* The vault: two refresh tokens of one person in two workspaces. *)

OnePerson == (v1 :> "u1") @@ (v2 :> "u1")
TwoSpaces == (v1 :> "w1") @@ (v2 :> "w2")
VaultWorld(s, r, f, c, n) == [store |-> s, rotates |-> r, fallbacks |-> f, calls |-> c, faults |-> n]
VaultTrio == {VaultWorld("memory", TRUE, {"none"}, 3, 1), VaultWorld("memory", FALSE, {"good"}, 3, 0),
              VaultWorld("postgres", FALSE, {"good"}, 2, 1)}
Transient == {{"transient"}}

(* Rate limits: crashes, failures of the loop, a probing job, a failing row, one instance. *)

TwoJobs == <<"j1", "j2">>
Most(x, h, s, l, c, f) ==
  [expiries |-> x, changes |-> h, seen |-> s, calls |-> l, crashes |-> c, faults |-> f]
FiveLimitWorlds ==
  {[store |-> "postgres", loops |-> {}, answers |-> {"free"}, max |-> Most(0, 1, 0, 2, 1, 0)],
   [store |-> "postgres", loops |-> {"i1"}, answers |-> {"window", "other"}, max |-> Most(1, 1, 1, 0, 0, 1)],
   [store |-> "postgres", loops |-> {"i1"}, answers |-> {"free", "auth"}, max |-> Most(0, 0, 0, 1, 1, 1)],
   [store |-> "postgres", loops |-> {}, answers |-> {"free"}, max |-> Most(0, 0, 0, 1, 0, 2)],
   [store |-> "memory", loops |-> {"i1"}, answers |-> {"free", "quota"}, max |-> Most(1, 0, 0, 1, 0, 0)]}

(* Routing: two profiles; chains in the order of the ids survive Postgres. *)

AnyAccount == [include |-> {}, exclude |-> {}, plans |-> {}, modes |-> {}, providers |-> {}]
FreeAccounts == [AnyAccount EXCEPT !.plans = {"free"}]
OtherAccounts == [AnyAccount EXCEPT !.exclude = {1}]
RtProfile(sel, t) == [enabled |-> TRUE, selector |-> sel, born |-> t]
RtPolicy(p, e, x, c, t) ==
  [enabled |-> TRUE, priority |-> p, exact |-> e, prefixes |-> x, chain |-> c, born |-> t]
TwoTraits == (1 :> [plan |-> "free", mode |-> "codex", provider |-> "oauth", priority |-> 0])
          @@ (2 :> [plan |-> "team", mode |-> "codex", provider |-> "oauth", priority |-> 1])
ModelPrefixes == [m \in {"gpt-5.4", "o3"} |-> IF m = "gpt-5.4" THEN {"gpt-5"} ELSE {}]
RtWorld(store, chain) ==
  [store |-> store,
   profiles |-> (1 :> RtProfile(FreeAccounts, -2)) @@ (2 :> RtProfile(OtherAccounts, -1)),
   policies |-> (1 :> RtPolicy(0, {}, {}, <<1>>, -1)),
   profileForms |-> {[RtProfile(AnyAccount, 0) EXCEPT !.enabled = FALSE],
                     RtProfile([OtherAccounts EXCEPT !.include = {1}], 0)},
   policyForms |-> {RtPolicy(1, {}, {"gpt-5"}, chain, 0), RtPolicy(0, {"gpt-5.4"}, {}, <<2>>, 0)}]
TwoRtWorlds == {RtWorld("postgres", <<1, 2>>), RtWorld("memory", <<2, 1>>)}

(* The probe: two accounts of their own workspaces. *)

TwoProbed == <<"a", "b">>
NoWorkspaces == [a |-> "none", b |-> "none"]

(* Errors: one unknown error with two details, one known error. *)

Err(shape, detail, class, coded, status) ==
  [shape |-> shape, detail |-> detail, class |-> class, coded |-> coded, status |-> status]
ThreeErrors == {Err("odd", "req_1", "unknown", FALSE, 429), Err("odd", "req_2", "unknown", FALSE, 429),
                Err("no_model", "gpt", "non_retryable", TRUE, 400)}

(* Tenants: what clients call is one group of operations at a time. *)

CallGroups ==
  {{"register", "verify", "forgot", "reset"}, {"register", "verify", "login"}, {"login"},
   {"create_tenant", "patch_tenant", "impersonate", "revoke"},
   {"create_tenant", "impersonate", "create_key", "patch_key", "delete_key"}, {"ensure"}}

(* Migration: each pair of editions, one or two tenants. *)

OneTenant ==
  {Row("model_routing", "singleton", "none", "set"), Row("claude_code", "singleton", "none", "set"),
   Row("snapshot", "singleton", "none", "r7"),
   Row("tenants", "t1", "none", "row"), Row("policies", "t1", "t1", "row"),
   Row("api_keys", "k1", "t1", "row"), Row("tokens", "k1", "k1", "row"),
   Row("accounts", "a1", "none", "row"), Row("providers", "a1", "a1", "oauth"),
   Row("credentials", "a1", "a1", "row"), Row("health", "a1", "a1", "seen"),
   Row("model_support", "a1", "a1", "row"), Row("templates", "e1", "none", "row"),
   Row("vault", "v1", "none", "row")}
TwoTenants == OneTenant \cup
  {Row("tenants", "t2", "none", "row"), Row("api_keys", "k2", "t2", "row"), Row("tokens", "k2", "k2", "row"),
   Row("policies", "t2", "t2", "row")}
TwoLogs == {[id |-> "l1", tenant |-> "t1", key |-> "k1", account |-> "a1", hour |-> 1],
            [id |-> "l2", tenant |-> "t1", key |-> "k1", account |-> "a1", hour |-> 1]}
BusinessRows == {[coll |-> "users", of |-> "t1"], [coll |-> "credit", of |-> "t1"], [coll |-> "users", of |-> "t2"]}
OldPackage == [schema |-> 1, from |-> "personal", control |-> {}, logs |-> {}, archive |-> {}, quiet |-> TRUE]
\* Exported before, from an installation that was still empty.
EarlierPackage == [OldPackage EXCEPT !.schema = SchemaVersion]
MigrationWorld(from, to, control, package0) ==
  [from |-> from, to |-> to, control |-> control, logs |-> TwoLogs, users |-> BusinessRows, package |-> package0]
EditionPairs ==
  {MigrationWorld("personal", "team", OneTenant, NoPackage),
   MigrationWorld("personal", "personal", {Row("snapshot", "singleton", "none", "r7")}, OldPackage),
   MigrationWorld("personal", "personal", {Row("snapshot", "singleton", "none", "r7")}, EarlierPackage),
   MigrationWorld("personal", "team", {Row("snapshot", "singleton", "none", "r7")}, NoPackage),
   MigrationWorld("team", "personal", TwoTenants, NoPackage),
   MigrationWorld("business", "personal", OneTenant, NoPackage),
   MigrationWorld("business", "team", TwoTenants, NoPackage)}

-----------------------------------------------------------------------------
groupVars == <<pricingVars, loginVars, vaultVars, rlVars, rtVars, prVars, elVars, tnVars, migVars>>
controlVars == <<focus, groupVars>>

AtRest(component, state) == focus = component \/ state

ControlInit ==
  /\ focus \in Focused
  /\ PricingInit
  /\ AtRest("prices", AtRest("billing", priceEdition = "sqlite" /\ catalog = <<>>))
  /\ AtRest("login", listenMode = "off") /\ LoginInit
  /\ AtRest("vault", vaultWorld = CHOOSE w \in VaultWorlds : TRUE) /\ VaultInit
  /\ AtRest("limits", limitWorld = CHOOSE w \in LimitWorlds : TRUE) /\ RateLimitInit
  /\ AtRest("routing", rtWorld = CHOOSE w \in RtWorlds : TRUE) /\ RtInit
  /\ PrInit
  /\ AtRest("errors", learning = [enabled |-> TRUE, remote |-> FALSE]) /\ ElInit
  /\ AtRest("tenants", asked = {"ensure"}) /\ TnInit
  /\ MigInit
  /\ AtRest("migration", package = OldPackage)

ControlNext ==
  /\ UNCHANGED focus
  /\ \/ /\ \/ focus = "prices" /\ PricesChange
           \/ focus = "billing" /\ SessionsBilled
        /\ UNCHANGED <<loginVars, vaultVars, rlVars, rtVars, prVars, elVars, tnVars, migVars>>
     \/ /\ focus = "login" /\ LoginNext
        /\ UNCHANGED <<pricingVars, vaultVars, rlVars, rtVars, prVars, elVars, tnVars, migVars>>
     \/ /\ focus = "vault" /\ VaultNext
        /\ UNCHANGED <<pricingVars, loginVars, rlVars, rtVars, prVars, elVars, tnVars, migVars>>
     \/ /\ focus = "limits" /\ RateLimitNext
        /\ UNCHANGED <<pricingVars, loginVars, vaultVars, rtVars, prVars, elVars, tnVars, migVars>>
     \/ /\ focus = "routing" /\ RtNext
        /\ UNCHANGED <<pricingVars, loginVars, vaultVars, rlVars, prVars, elVars, tnVars, migVars>>
     \/ /\ focus = "probe" /\ PrNext
        /\ UNCHANGED <<pricingVars, loginVars, vaultVars, rlVars, rtVars, elVars, tnVars, migVars>>
     \/ /\ focus = "errors" /\ ElNext
        /\ UNCHANGED <<pricingVars, loginVars, vaultVars, rlVars, rtVars, prVars, tnVars, migVars>>
     \/ /\ focus = "tenants" /\ TnNext
        /\ UNCHANGED <<pricingVars, loginVars, vaultVars, rlVars, rtVars, prVars, elVars, migVars>>
     \/ /\ focus = "migration" /\ MigNext
        /\ UNCHANGED <<pricingVars, loginVars, vaultVars, rlVars, rtVars, prVars, elVars, tnVars>>

ControlSpec == ControlInit /\ [][ControlNext]_controlVars
=============================================================================
