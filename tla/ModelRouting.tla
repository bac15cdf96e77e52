---------------------------- MODULE ModelRouting ----------------------------
(***************************************************************************)
(* Which accounts may serve a model.  Administrators save routing profiles *)
(* (selectors of accounts) and model policies (a chain of profiles for     *)
(* exact models, for prefixes or, with neither, by default); the control   *)
(* plane compiles them with what the accounts support into a plan, and the *)
(* router of the data plane looks models up in it.  Sources:               *)
(* postgres/impl_oauth_snapshot/model_routing.rs, store/trait_impl.rs,     *)
(* store/family_snapshot.rs, core_handlers/model_routing_admin.rs and the  *)
(* data plane's router.rs.                                                 *)
(***************************************************************************)
EXTENDS Integers, Sequences, SequencesExt, FiniteSets

CONSTANTS
  RtAccounts,      \* in order of creation: numbers
  RtProfiles,      \* ids, ordered as uuids are: numbers
  RtPolicies, RtModels,
  PrefixesOf,      \* model -> the prefixes it starts with
  Traits,          \* account -> [plan, mode, provider, priority]
  RtWorlds,        \* where to start: a store, what is saved in it, and the
                   \* profiles and policies that administrators submit
  RtWriters, MaxEdits

VARIABLES
  rtWorld,
  rtProfiles,      \* id -> form with the time of creation
  rtPolicies,
  support,         \* account -> its recorded models
  rtBlocked,       \* accounts whose cached rate limits block them now
  rtActive,        \* accounts in pool state active
  claude,          \* the effort routing of the Claude Code settings
  killSwitch,      \* of the planner's settings, which no code consults
  versions,        \* routing_plan_versions
  rtClock, edits,
  writer           \* the administrator's calls in flight

rtVars == <<rtWorld, rtProfiles, rtPolicies, support, rtBlocked, rtActive, claude,
            killSwitch, versions, rtClock, edits, writer>>

NoWriter == [step |-> "none"]
RtPostgres == rtWorld.store = "postgres"

-----------------------------------------------------------------------------
\* Reading the rows back.  Lists of names are sorted and cleared of duplicates,
\* so they are sets; parse_json_uuid_array does the same to the chain.

SortedChain(c) == SetToSortSeq(ToSet(c), LAMBDA a, b : a < b)
ChainRead(c) == IF RtPostgres THEN SortedChain(c) ELSE c

\* ORDER BY priority DESC, created_at ASC.
RankedBefore(f, a, b) ==
  f[a].priority > f[b].priority \/ (f[a].priority = f[b].priority /\ f[a].born < f[b].born)
Ranked(f) == SetToSortSeq(DOMAIN f, LAMBDA a, b : RankedBefore(f, a, b))

ListModelRoutingPolicies == SelectSeq(Ranked(rtPolicies), LAMBDA q : rtPolicies[q].enabled)

-----------------------------------------------------------------------------
\* compile_routing_plan_from_state, of both stores.

ProfileMatchesAccount(s, a) ==
  /\ a \notin s.exclude
  /\ \/ a \in s.include
     \/ /\ s.plans = {} \/ Traits[a].plan \in s.plans
        /\ s.modes = {} \/ Traits[a].mode \in s.modes
        /\ s.providers = {} \/ Traits[a].provider \in s.providers

AccountBefore(a, b) ==
  Traits[a].priority > Traits[b].priority \/ (Traits[a].priority = Traits[b].priority /\ a < b)
AccountOrder == SetToSortSeq(RtAccounts, AccountBefore)

\* The accounts of an enabled profile, best first.
CompiledProfile(profiles, active, blocked, i) ==
  IF ~profiles[i].enabled THEN <<>>
  ELSE SelectSeq(AccountOrder, LAMBDA a : /\ a \in active \ blocked
                                          /\ ProfileMatchesAccount(profiles[i].selector, a))

\* build_compiled_fallback_segments: profiles that are gone, disabled or empty
\* drop out of the chain.
FallbackSegments(chain, profiles, active, blocked) ==
  LET compiled(i) == IF i \in DOMAIN profiles THEN CompiledProfile(profiles, active, blocked, i) ELSE <<>>
  IN  SelectSeq([k \in DOMAIN chain |-> compiled(chain[k])], LAMBDA s : s # <<>>)

IsDefaultPolicy(q) == q.exact = {} /\ q.prefixes = {}

KnownModels(policies, sup, active) ==
  UNION {sup[a] : a \in active} \cup UNION {policies[k].exact : k \in DOMAIN policies}

\* A prefix only reaches the models known when the plan is compiled.
PolicyModels(q, known) == q.exact \cup {m \in known : PrefixesOf[m] \cap q.prefixes # {}}

AddPolicyToAll(acc, q, known, segments) ==
  LET new == PolicyModels(q, known)
  IN  IF segments = <<>> \/ new = {} THEN acc
      ELSE [routed |-> acc.routed \cup new, out |-> <<[models |-> new, segments |-> segments]>> \o acc.out]

\* The policies in order, the models none before has taken.
AddPolicy(acc, q, known, segments) ==
  LET new == PolicyModels(q, known) \ acc.routed
  IN  IF segments = <<>> \/ new = {} THEN acc
      ELSE [routed |-> acc.routed \cup new, out |-> Append(acc.out, [models |-> new, segments |-> segments])]

NoPlan == [default |-> <<>>, policies |-> <<>>]

CompileRoutingPlan(ranked, profiles, sup, active, blocked) ==
  LET segs(q) == FallbackSegments(q.chain, profiles, active, blocked)
      explicit == SelectSeq(ranked, LAMBDA q : ~IsDefaultPolicy(q))
      defaults == SelectSeq(ranked, IsDefaultPolicy)
      known == KnownModels(explicit, sup, active)
      routed == FoldLeft(LAMBDA acc, q : AddPolicy(acc, q, known, segs(q)), [routed |-> {}, out |-> <<>>], explicit)
      default == IF defaults = <<>> THEN <<>> ELSE segs(defaults[1])
      rest == known \ routed.routed
  IN  [default |-> default,
       policies |-> IF default = <<>> \/ rest = {} THEN routed.out
                    ELSE Append(routed.out, [models |-> rest, segments |-> default])]

RankedPolicies ==
  [k \in DOMAIN ListModelRoutingPolicies |->
     LET q == rtPolicies[ListModelRoutingPolicies[k]] IN [q EXCEPT !.chain = ChainRead(@)]]

\* load_compiled_routing_plan_inner: a snapshot compiles the plan afresh.
SnapshotPlan == CompileRoutingPlan(RankedPolicies, rtProfiles, support, rtActive, rtBlocked)

\* Router::candidate_account_ids_for_model; <<>> lets every account serve.
CandidateAccountIds(plan, m) ==
  LET hits == SelectSeq(plan.policies, LAMBDA e : m \in e.models)
  IN  FlattenSeq(IF hits = <<>> THEN plan.default ELSE hits[1].segments)

-----------------------------------------------------------------------------
\* The administrators' calls.  The row, the revision and the outbox event are
\* one transaction; the version is published after it, from fresh reads.

Saved(w) ==
  /\ edits' = edits + 1
  /\ rtClock' = rtClock + 1
  /\ writer' = [writer EXCEPT ![w] = IF RtPostgres THEN [step |-> "accounts"] ELSE NoWriter]
  /\ UNCHANGED <<rtWorld, killSwitch, rtBlocked, rtActive, claude, versions>>

Born(f, i) == IF i \in DOMAIN f THEN f[i].born ELSE rtClock
RtPut(f, i, v) == [j \in DOMAIN f \cup {i} |-> IF j = i THEN v ELSE f[j]]
Drop(f, i) == [j \in DOMAIN f \ {i} |-> f[j]]

MayWrite(w) == writer[w] = NoWriter /\ edits < MaxEdits

UpsertRoutingProfile(w, i, form) ==
  /\ MayWrite(w)
  /\ rtProfiles' = RtPut(rtProfiles, i, [form EXCEPT !.born = Born(rtProfiles, i)])
  /\ Saved(w) /\ UNCHANGED <<rtPolicies, support>>

DeleteRoutingProfile(w, i) ==
  /\ MayWrite(w) /\ i \in DOMAIN rtProfiles
  /\ rtProfiles' = Drop(rtProfiles, i)
  /\ Saved(w) /\ UNCHANGED <<rtPolicies, support>>

UpsertModelRoutingPolicy(w, q, form) ==
  /\ MayWrite(w)
  /\ rtPolicies' = RtPut(rtPolicies, q, [form EXCEPT !.born = Born(rtPolicies, q)])
  /\ Saved(w) /\ UNCHANGED <<rtProfiles, support>>

DeleteModelRoutingPolicy(w, q) ==
  /\ MayWrite(w) /\ q \in DOMAIN rtPolicies
  /\ rtPolicies' = Drop(rtPolicies, q)
  /\ Saved(w) /\ UNCHANGED <<rtProfiles, support>>

\* record_account_model_support, called by the probe for every account that
\* answered; the last writer wins, whatever checked_at says.
RecordAccountModelSupport(w, a, models) ==
  /\ MayWrite(w)
  /\ support' = [support EXCEPT ![a] = models]
  /\ Saved(w) /\ UNCHANGED <<rtProfiles, rtPolicies>>

\* publish_current_routing_plan_version_inner: three reads, a compilation
\* stamped with the time, and the insert.
PublishReads(w) ==
  \/ /\ writer[w].step = "accounts"
     /\ writer' = [writer EXCEPT ![w] = [step |-> "profiles", support |-> support,
                                         active |-> rtActive, blocked |-> rtBlocked]]
     /\ UNCHANGED rtClock
  \/ /\ writer[w].step = "profiles"
     /\ writer' = [writer EXCEPT ![w] = [@ EXCEPT !.step = "policies"] @@ [profiles |-> rtProfiles]]
     /\ UNCHANGED rtClock
  \/ /\ writer[w].step = "policies"
     /\ rtClock' = rtClock + 1
     /\ writer' = [writer EXCEPT ![w] =
          [step |-> "insert", at |-> rtClock,
           plan |-> CompileRoutingPlan(RankedPolicies, writer[w].profiles, writer[w].support,
                                       writer[w].active, writer[w].blocked)]]

PublishRoutingPlan(w) ==
  /\ PublishReads(w)
  /\ UNCHANGED <<rtWorld, killSwitch, rtProfiles, rtPolicies, support, rtBlocked, rtActive, claude, versions, edits>>

\* A plan without routes is not a version.
InsertVersion(w) ==
  /\ writer[w].step = "insert"
  /\ versions' = IF writer[w].plan = NoPlan THEN versions
                 ELSE versions \cup {[at |-> writer[w].at, plan |-> writer[w].plan]}
  /\ writer' = [writer EXCEPT ![w] = NoWriter]
  /\ UNCHANGED <<rtWorld, killSwitch, rtProfiles, rtPolicies, support, rtBlocked, rtActive, claude, rtClock, edits>>

\* Any read or the insert may fail: the call reports an error, the edit stays.
PublishFails(w) ==
  /\ writer[w].step \in {"accounts", "profiles", "policies", "insert"}
  /\ writer' = [writer EXCEPT ![w] = NoWriter]
  /\ UNCHANGED <<rtWorld, killSwitch, rtProfiles, rtPolicies, support, rtBlocked, rtActive, claude, versions, rtClock, edits>>

\* update_claude_code_routing_settings: without an effort routing the request
\* keeps the stored one, which it read before its transaction.
BeginClaudeUpdate(w) ==
  /\ MayWrite(w)
  /\ edits' = edits + 1
  /\ writer' = [writer EXCEPT ![w] = [step |-> "claude", effort |-> claude]]
  /\ UNCHANGED <<rtWorld, killSwitch, rtProfiles, rtPolicies, support, rtBlocked, rtActive, claude, versions, rtClock>>

FinishClaudeUpdate(w) ==
  /\ writer[w].step = "claude"
  /\ claude' \in {writer[w].effort, "asked"}
  /\ writer' = [writer EXCEPT ![w] = NoWriter]
  /\ UNCHANGED <<rtWorld, killSwitch, rtProfiles, rtPolicies, support, rtBlocked, rtActive, versions, rtClock, edits>>

\* update_model_routing_settings: one statement, no version and no event.
UpdateModelRoutingSettings(w, kill) ==
  /\ MayWrite(w)
  /\ edits' = edits + 1
  /\ killSwitch' = kill
  /\ UNCHANGED <<rtWorld, rtProfiles, rtPolicies, support, rtBlocked, rtActive, claude, versions, rtClock, writer>>

\* Rate limits and pool states change under the plan (RateLimitJobs, AccountPool).
AccountChanges(a) ==
  /\ edits < MaxEdits
  /\ edits' = edits + 1
  /\ \/ /\ rtBlocked' = IF a \in rtBlocked THEN rtBlocked \ {a} ELSE rtBlocked \cup {a}
        /\ UNCHANGED rtActive
     \/ /\ rtActive' = IF a \in rtActive THEN rtActive \ {a} ELSE rtActive \cup {a}
        /\ UNCHANGED rtBlocked
  /\ UNCHANGED <<rtWorld, killSwitch, rtProfiles, rtPolicies, support, claude, versions, rtClock, writer>>

-----------------------------------------------------------------------------
RtInit ==
  /\ rtWorld \in RtWorlds
  /\ rtProfiles = rtWorld.profiles /\ rtPolicies = rtWorld.policies
  /\ support = [a \in RtAccounts |-> {}]
  /\ rtBlocked = {} /\ rtActive = RtAccounts
  /\ claude = "default" /\ killSwitch = FALSE
  /\ versions = {} /\ rtClock = 1 /\ edits = 0
  /\ writer = [w \in RtWriters |-> NoWriter]

RtNext ==
  \/ \E w \in RtWriters :
       \/ \E i \in RtProfiles : DeleteRoutingProfile(w, i) \/ \E f \in rtWorld.profileForms : UpsertRoutingProfile(w, i, f)
       \/ \E q \in RtPolicies : DeleteModelRoutingPolicy(w, q) \/ \E f \in rtWorld.policyForms : UpsertModelRoutingPolicy(w, q, f)
       \/ \E a \in RtAccounts, m \in RtModels : RecordAccountModelSupport(w, a, {m})
       \/ PublishRoutingPlan(w) \/ InsertVersion(w) \/ PublishFails(w)
       \/ BeginClaudeUpdate(w) \/ FinishClaudeUpdate(w) \/ UpdateModelRoutingSettings(w, ~killSwitch)
  \/ \E a \in RtAccounts : AccountChanges(a)

RtSpec == RtInit /\ [][RtNext]_rtVars

-----------------------------------------------------------------------------
\* What the administrator asked for: the best enabled policy that names the
\* model, or has a prefix of it and the model is known, and that still reaches
\* an account; failing that the best default policy; its chain in the order in
\* which it was saved, without blocked accounts.
Chain(q) ==
  FlattenSeq([k \in DOMAIN q.chain |->
    IF q.chain[k] \in DOMAIN rtProfiles
      THEN CompiledProfile(rtProfiles, rtActive, rtBlocked, q.chain[k]) ELSE <<>>])
Names(q, m) ==
  \/ m \in q.exact
  \/ /\ PrefixesOf[m] \cap q.prefixes # {}
     /\ \/ \E a \in rtActive : m \in support[a]
        \/ \E r \in DOMAIN rtPolicies : rtPolicies[r].enabled /\ m \in rtPolicies[r].exact
Best(S) == CHOOSE q \in S : \A r \in S \ {q} : RankedBefore(rtPolicies, q, r)
AskedFor(m) ==
  LET enabled == {q \in DOMAIN rtPolicies : rtPolicies[q].enabled}
      naming == {q \in enabled : Names(rtPolicies[q], m) /\ Chain(rtPolicies[q]) # <<>>}
      default == {q \in enabled : IsDefaultPolicy(rtPolicies[q])}
  IN  IF naming # {} THEN Chain(rtPolicies[Best(naming)])
      ELSE IF default # {} THEN Chain(rtPolicies[Best(default)]) ELSE <<>>

\* A snapshot taken at any moment makes the router try, for every model, the
\* accounts of the policy the administrator gave it, in the order of its chain.
ChainIsFollowed == \A m \in RtModels : CandidateAccountIds(SnapshotPlan, m) = AskedFor(m)

=============================================================================
