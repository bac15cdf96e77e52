---------------------------- MODULE AccountPool ----------------------------
(***************************************************************************)
(* The account pool of the personal edition: OAuth credentials whose       *)
(* one-time refresh tokens are rotated at the provider, the pool state of  *)
(* an account (active, in quarantine, pending purge), and the background   *)
(* loops over both: the refresh of expiring tokens, the probes, and the    *)
(* purge of accounts whose time has come.                                  *)
(*                                                                         *)
(* Every map of the store has its own lock, and a step is what happens     *)
(* under one: the accounts a call has yet to switch and the pool states it *)
(* has yet to write are its todo.  Time is nondeterministic: tokens near their expiry,     *)
(* back-offs, quarantines and purge delays end at any moment, in the order *)
(* the clock gives them.  A missing health record is the default one.      *)
(***************************************************************************)
EXTENDS Naturals, FiniteSets, Sequences

\* A sum or a batch at its limit, and a list without one of its members.
Least(S) == CHOOSE x \in S : \A y \in S : x <= y

Without(s, e) == SelectSeq(s, LAMBDA x : x # e)

CONSTANTS OAuth,        \* accounts with a refresh token
          OneTime,      \* accounts with a one-time access token
          Family,       \* token_family_id of each OAuth account
          Callers,      \* concurrent calls of the API
          Loop,         \* the background refresh loop
          NoAccount,
          Threshold,    \* token_invalidated_purge_threshold
          RefreshBatch, \* oauth_refresh_batch_size
          PurgeBatch,   \* pending_purge_batch_size
          Watched,      \* the accounts ExpiringIsTried is about: accounts of a family
                        \* are alike, and TLC follows one of them
          Stocks        \* the accounts there are at first, with bounds on the calls
                        \* of the API, the tokens that near their expiry, and the
                        \* refusals and lost answers of the provider

Accounts == OAuth \cup OneTime
Workers == Callers \cup {Loop}

ASSUME PoolAssumption ==
    /\ Watched \subseteq OAuth /\ IsFiniteSet(OAuth) /\ IsFiniteSet(OneTime) /\ OAuth \cap OneTime = {}
    /\ Loop \notin Callers /\ NoAccount \notin Accounts
    /\ {Threshold, RefreshBatch, PurgeBatch} \subseteq Nat \ {0}
    /\ Stocks \subseteq [accounts : SUBSET Accounts, calls : Nat, expiries : Nat, faults : Nat]

VARIABLES present,   \* keys of accounts
          enabled,   \* UpstreamAccount.enabled
          cred,      \* oauth_credentials
          health,    \* account_health_states
          order,     \* accounts pending purge, by pending_purge_at
          live,      \* the refresh token the provider accepts
          flight,    \* refreshes that wait for the provider
          probing,   \* the account whose usage a call is fetching
          todo,      \* what a call has yet to write, lock by lock
          pass,      \* accounts the refresh loop has yet to start
          purging,   \* candidates of the running purge
          disturbed, \* history: overlapping refreshes, lost answers, revocations
          poolCalls, faults, expiries   \* what is left of the bounds

poolVars == <<present, enabled, cred, health, order, live, flight, probing, todo,
          pass, purging, disturbed, poolCalls, faults, expiries>>
clocks == <<poolCalls, faults, expiries>>

Credential == [kept : BOOLEAN, token : Nat, code : {"none", "reused", "invalid", "other"},
               reused : BOOLEAN, backoff : BOOLEAN, expiring : BOOLEAN, fallback : BOOLEAN,
               sealed : BOOLEAN]
NewCredential(n) == [kept |-> TRUE, token |-> n, code |-> "none", reused |-> FALSE,
                     backoff |-> FALSE, expiring |-> FALSE, fallback |-> FALSE, sealed |-> FALSE]
NoCredential == [NewCredential(0) EXCEPT !.kept = FALSE]

Active == [state |-> "active", due |-> FALSE, strikes |-> 0]
NoFlight == [at |-> "idle", cred |-> NoCredential]

\* What is left to write: a pool state, or accounts to switch on or off; an
\* account that is condemned is switched off and then marked for the purge.
Write(S, s) == [accounts |-> S, state |-> s]
Switches == {"condemn", "on", "off"}

\* A refresh token may come with an access token to fall back on, or have been
\* encrypted with a key the process does not have.
PoolInit ==
    /\ \E stock \in Stocks : /\ present = stock.accounts
                            /\ poolCalls = stock.calls /\ expiries = stock.expiries /\ faults = stock.faults
    /\ enabled = [a \in Accounts |-> a \in present]
    /\ cred \in [OAuth -> {NewCredential(0), [NewCredential(0) EXCEPT !.fallback = TRUE],
                           [NewCredential(0) EXCEPT !.sealed = TRUE], NoCredential}]
    /\ \A a \in OAuth : cred[a].kept <=> a \in present
    /\ health = [a \in Accounts |-> Active] /\ order = <<>>
    /\ live = [a \in OAuth |-> 0]
    /\ flight = [w \in Workers |-> [a \in OAuth |-> NoFlight]]
    /\ probing = [c \in Callers |-> NoAccount]
    /\ todo = [w \in Workers |-> {}]
    /\ pass = {} /\ purging = <<>> /\ disturbed = {}

-----------------------------------------------------------------------------
(* Pool states.                                                            *)

\* pending_purge_at is kept while it lies in the future, and set anew when
\* the account was not pending or was already due.
Rescheduled(a) == health[a].state # "purge" \/ health[a].due

WriteState(w, wr) ==
    /\ wr \in todo[w] /\ wr.state \notin Switches
    /\ todo' = [todo EXCEPT ![w] = @ \ {wr}]
    /\ \E a \in wr.accounts :
          /\ health' = [health EXCEPT ![a].state = wr.state, ![a].due = FALSE]
          /\ order' = IF wr.state # "purge" THEN Without(order, a)
                      ELSE IF Rescheduled(a) THEN Append(Without(order, a), a) ELSE order
    /\ UNCHANGED <<present, enabled, cred, live, flight, probing, pass, purging, disturbed, clocks>>

\* The accounts of wr are switched under the lock of accounts, one mark at a
\* time; the mark of an account that is gone is an ignored error.
SwitchAccounts(w, wr) ==
    LET S == wr.accounts \cap present IN
    /\ wr \in todo[w] /\ \A other \in todo[w] : other.state \in Switches
    /\ enabled' = [a \in Accounts |-> IF a \in S THEN wr.state = "on" ELSE enabled[a]]
    /\ todo' = [todo EXCEPT ![w] = (@ \ {wr}) \cup
                  (IF wr.state = "condemn" THEN {Write({a}, "purge") : a \in S}
                   ELSE IF wr.state = "on" THEN {Write({a}, "active") : a \in wr.accounts} ELSE {})]
    /\ UNCHANGED <<present, cred, health, order, live, flight, probing, pass, purging, disturbed, clocks>>

FamilyOf(a) == {b \in OAuth : cred[b].kept /\ Family[b] = Family[a]}

\* The health record goes with the account, and so do its fields.
ForgetAccount(a) ==
    /\ present' = present \ {a} /\ enabled' = [enabled EXCEPT ![a] = FALSE]
    /\ cred' = [b \in OAuth |-> IF b = a THEN NoCredential ELSE cred[b]]
    /\ health' = [health EXCEPT ![a] = Active]
    /\ order' = Without(order, a)

-----------------------------------------------------------------------------
(* Token refresh.                                                          *)

TerminalInvalid(c) == c.reused \/ c.code \in {"reused", "invalid"}

\* refresh_oauth_account_inner up to its call of the provider; a token that
\* cannot be decrypted is an error the loop ignores.
MayRefresh(a, force) ==
    /\ a \in present /\ cred[a].kept
    /\ ~(TerminalInvalid(cred[a]) /\ cred[a].fallback)
    /\ force \/ cred[a].expiring
    /\ ~cred[a].backoff /\ ~cred[a].sealed

StartRefresh(w, a) ==
    /\ flight' = [flight EXCEPT ![w][a] = [at |-> "wait", cred |-> cred[a]]]
    /\ disturbed' = IF \E v \in Workers \ {w} : flight[v][a] # NoFlight
                    THEN disturbed \cup {a} ELSE disturbed
    /\ UNCHANGED <<present, enabled, cred, health, order, live, probing, todo, purging, faults, expiries>>

ForceRefresh(c, a) ==
    /\ poolCalls > 0 /\ poolCalls' = poolCalls - 1
    /\ todo[c] = {} /\ flight[c][a] = NoFlight /\ MayRefresh(a, TRUE)
    /\ StartRefresh(c, a)
    /\ UNCHANGED pass

\* The loop works off its candidates; one that needs no refresh any more
\* returns at once.
LoopRefresh(a) ==
    /\ a \in pass /\ pass' = pass \ {a}
    /\ todo[Loop] = {}
    /\ IF MayRefresh(a, FALSE) THEN StartRefresh(Loop, a)
       ELSE UNCHANGED <<present, enabled, cred, health, order, live, flight, probing, todo,
                        purging, disturbed, faults, expiries>>
    /\ UNCHANGED poolCalls

RefreshCandidateOnce(a) ==
    /\ a \in present /\ enabled[a] /\ health[a].state = "active"
    /\ cred[a].kept /\ cred[a].code = "none" /\ cred[a].expiring
RefreshCandidate(a) ==
    /\ a \in present /\ enabled[a] /\ health[a].state = "active"
    /\ cred[a].kept /\ ~cred[a].backoff /\ cred[a].expiring

\* A pass takes a batch of candidates, in the order of a hash map.
StartPass ==
    /\ pass = {} /\ todo[Loop] = {} /\ \A a \in OAuth : flight[Loop][a] = NoFlight
    /\ LET due == {a \in OAuth : RefreshCandidate(a)} IN
       \E S \in SUBSET due : /\ Cardinality(S) = Least({RefreshBatch, Cardinality(due)})
                             /\ S # {} /\ pass' = S
    /\ UNCHANGED <<present, enabled, cred, health, order, live, flight, probing, todo,
                   purging, disturbed, clocks>>

\* The provider accepts a refresh token once.  Its answer may be lost on the
\* way, or with the new credential if that cannot be encrypted ("unkept").
CallProvider(w, a) ==
    LET current == flight[w][a].cred.token = live[a]
        Answer(s) == flight' = [flight EXCEPT ![w][a].at = s]
        Fault == faults > 0 /\ faults' = faults - 1
    IN
    /\ flight[w][a].at = "wait"
    /\ \/ /\ current /\ live' = [live EXCEPT ![a] = @ + 1]
          /\ \/ Answer("ok") /\ UNCHANGED <<faults, disturbed>>
             \/ /\ Fault /\ disturbed' = disturbed \cup {a}
                /\ Answer("other") \/ Answer("unkept")
       \/ /\ ~current /\ Answer("reused")
          /\ UNCHANGED <<live, faults, disturbed>>
       \/ Fault /\ Answer("reused") /\ disturbed' = disturbed \cup {a} /\ UNCHANGED live
       \/ Fault /\ Answer("invalid") /\ UNCHANGED <<live, disturbed>>
       \/ Fault /\ Answer("other") /\ UNCHANGED <<live, disturbed>>
    /\ UNCHANGED <<present, enabled, cred, health, order, probing, todo, pass, purging, poolCalls, expiries>>

\* The credential that replaces c: what the provider sent, or c with the
\* error.  Either is written over whatever is stored by then.
RotatedForgetful(c) == NewCredential(c.token)
Rotated(c) == NewCredential(c.token + 1)
Failed(c, code) == [c EXCEPT !.code = code, !.reused = (code = "reused"), !.backoff = TRUE]

\* What is marked then is left to do.
FinishRefresh(w, a) ==
    LET f == flight[w][a]
        marked == IF f.at = "reused" THEN FamilyOf(a) \cup {a}
                  ELSE IF f.at = "invalid" /\ ~f.cred.fallback THEN {a} ELSE {}
    IN
    /\ f.at \notin {"idle", "wait"} /\ todo[w] = {}
    /\ flight' = [flight EXCEPT ![w][a] = NoFlight]
    /\ cred' = [cred EXCEPT ![a] = IF f.at = "unkept" THEN @ ELSE IF f.at = "ok" THEN Rotated(f.cred)
                                   ELSE Failed(f.cred, f.at)]
    /\ todo' = [todo EXCEPT ![w] = {Write({b}, "condemn") : b \in marked}]
    /\ UNCHANGED <<present, enabled, health, order, live, probing, pass, purging, disturbed, clocks>>

-----------------------------------------------------------------------------
(* Results of live requests, probes and administration.                    *)

PoolCall(c) == poolCalls > 0 /\ poolCalls' = poolCalls - 1 /\ todo[c] = {}

\* The strikes after a result.  They count while they fall into one window;
\* any other result clears them, except a success that was reported late.
Strikes(a, result) ==
    LET n == health[a].strikes IN
    IF result = "ok" THEN {0, n}
    ELSE IF result # "invalidated" THEN {0}
    ELSE {1} \cup {Least({m + 1, Threshold}) : m \in {n} \ {0}}

LiveResult(c, a, result) ==
    \E strikes \in Strikes(a, result) :
        LET condemned == result = "deactivated" \/ (result = "invalidated" /\ strikes >= Threshold)
        IN
        /\ PoolCall(c) /\ a \in present
        /\ health' = [health EXCEPT ![a].strikes = strikes]
        /\ todo' = [todo EXCEPT ![c] = IF condemned THEN {Write({a}, "condemn")}
                                       ELSE IF result = "ok" THEN {Write({a}, "active")}
                                       ELSE IF result \in {"limited", "invalidated"}
                                            THEN {Write({a}, "quarantine")} ELSE {}]
        /\ UNCHANGED <<present, enabled, cred, order, live, flight, probing, pass, purging, disturbed,
                       faults, expiries>>

MarkPendingPurge(c, a) ==
    /\ PoolCall(c) /\ a \in present
    /\ todo' = [todo EXCEPT ![c] = {Write({a}, "condemn")}]
    /\ UNCHANGED <<present, enabled, cred, health, order, live, flight, probing, pass, purging, disturbed,
                   faults, expiries>>

SetEnabled(c, a, on) ==
    /\ PoolCall(c) /\ a \in present
    /\ enabled' = [enabled EXCEPT ![a] = on]
    /\ todo' = [todo EXCEPT ![c] = IF on THEN {Write({a}, "active")} ELSE {}]
    /\ UNCHANGED <<present, cred, health, order, live, flight, probing, pass, purging, disturbed,
                   faults, expiries>>

SetFamilyEnabled(c, a, on) ==
    /\ PoolCall(c) /\ a \in present \cap OAuth /\ cred[a].kept
    /\ cred' = [b \in OAuth |-> IF on /\ b \in FamilyOf(a)
                                THEN [cred[b] EXCEPT !.reused = FALSE, !.backoff = FALSE] ELSE cred[b]]
    /\ todo' = [todo EXCEPT ![c] = {Write(FamilyOf(a), IF on THEN "on" ELSE "off")}]
    /\ UNCHANGED <<present, enabled, health, order, live, flight, probing, pass, purging, disturbed,
                   faults, expiries>>

DeleteAccount(c, a) ==
    /\ PoolCall(c) /\ a \in present
    /\ ForgetAccount(a)
    /\ UNCHANGED <<live, flight, probing, todo, pass, purging, disturbed, faults, expiries>>

\* A probe needs an access token: an enabled account whose refresh token
\* has not been refused.
StartProbe(c, a) ==
    /\ PoolCall(c) /\ probing[c] = NoAccount
    /\ a \in present /\ enabled[a]
    /\ a \in OAuth => cred[a].kept /\ ~TerminalInvalid(cred[a])
    /\ probing' = [probing EXCEPT ![c] = a]
    /\ UNCHANGED <<present, enabled, cred, health, order, live, flight, todo, pass, purging, disturbed,
                   faults, expiries>>

\* A good answer makes the account active without looking at it again.
EndProbe(c, outcome) ==
    LET a == probing[c] IN
    /\ a # NoAccount /\ todo[c] = {}
    /\ probing' = [probing EXCEPT ![c] = NoAccount]
    /\ todo' = [todo EXCEPT ![c] =
                  IF outcome = "ok" THEN {Write({a}, "active")}
                  ELSE IF outcome = "fatal" THEN {Write({a}, "condemn")}
                  ELSE {Write({b}, "quarantine") : b \in {a} \cap present}]
    /\ UNCHANGED <<present, enabled, cred, health, order, live, flight, pass, purging, disturbed, clocks>>

-----------------------------------------------------------------------------
(* The purge, and the clock.                                               *)

Purgeable(a) == health[a].state = "purge" /\ health[a].due

StartPurge ==
    LET due == SelectSeq(order, Purgeable) IN
    /\ purging = <<>> /\ due # <<>>
    /\ purging' = SubSeq(due, 1, Least({PurgeBatch, Len(due)}))
    /\ UNCHANGED <<present, enabled, cred, health, order, live, flight, probing, todo, pass,
                   disturbed, clocks>>

\* The candidates are deleted without a second look; one whose account is
\* gone is an error that is passed over.
PurgeNext ==
    /\ purging # <<>> /\ purging' = Tail(purging)
    /\ IF Head(purging) \in present THEN ForgetAccount(Head(purging))
       ELSE UNCHANGED <<present, enabled, cred, health, order>>
    /\ UNCHANGED <<live, flight, probing, todo, pass, disturbed, clocks>>

\* An expired one-time account is removed, but not its health record.
ExpireOneTime(a) ==
    /\ a \in present \cap OneTime /\ present' = present \ {a}
    /\ enabled' = [enabled EXCEPT ![a] = FALSE]
    /\ UNCHANGED <<cred, health, order, live, flight, probing, todo, pass, purging, disturbed,
                   clocks>>

TokenNearsExpiry(a) ==
    /\ expiries > 0 /\ expiries' = expiries - 1
    /\ cred[a].kept /\ ~cred[a].expiring
    /\ cred' = [cred EXCEPT ![a].expiring = TRUE]
    /\ UNCHANGED <<present, enabled, health, order, live, flight, probing, todo, pass, purging,
                   disturbed, poolCalls, faults>>

BackoffEnds(a) ==
    /\ cred[a].backoff /\ cred' = [cred EXCEPT ![a].backoff = FALSE]
    /\ UNCHANGED <<present, enabled, health, order, live, flight, probing, todo, pass, purging,
                   disturbed, clocks>>

\* The access token to fall back on expires.
FallbackExpires(a) ==
    /\ cred[a].fallback /\ cred' = [cred EXCEPT ![a].fallback = FALSE]
    /\ UNCHANGED <<present, enabled, health, order, live, flight, probing, todo, pass, purging,
                   disturbed, clocks>>

QuarantineEnds(a) ==
    /\ health[a].state = "quarantine" /\ health' = [health EXCEPT ![a].state = "active"]
    /\ UNCHANGED <<present, enabled, cred, order, live, flight, probing, todo, pass, purging,
                   disturbed, clocks>>

\* The first account of the order that is not due yet falls due.
PurgeFallsDue ==
    \E i \in DOMAIN order :
        /\ ~health[order[i]].due /\ \A j \in 1..(i - 1) : health[order[j]].due
        /\ health' = [health EXCEPT ![order[i]].due = TRUE]
        /\ UNCHANGED <<present, enabled, cred, order, live, flight, probing, todo, pass, purging,
                       disturbed, clocks>>

-----------------------------------------------------------------------------

WriteSome(w) ==
    \E wr \in todo[w] : WriteState(w, wr) \/ SwitchAccounts(w, wr)

\* A refresh in flight, and what it or another call has yet to write.
Work(w) == WriteSome(w) \/ \E a \in OAuth : CallProvider(w, a) \/ FinishRefresh(w, a)

\* The refresh loop takes a batch or the next account of one.
LoopOn == StartPass \/ \E a \in OAuth : LoopRefresh(a)

PoolNext ==
    \/ \E w \in Workers : Work(w)
    \/ LoopOn
    \/ \E c \in Callers :
          \/ \E a \in OAuth : ForceRefresh(c, a) \/ \E on \in BOOLEAN : SetFamilyEnabled(c, a, on)
          \/ \E a \in Accounts :
                \/ \E r \in {"ok", "deactivated", "limited", "invalidated", "other"} : LiveResult(c, a, r)
                \/ MarkPendingPurge(c, a) \/ DeleteAccount(c, a) \/ StartProbe(c, a)
                \/ \E on \in BOOLEAN : SetEnabled(c, a, on)
          \/ \E outcome \in {"ok", "fatal", "limited"} : EndProbe(c, outcome)
    \/ StartPurge \/ PurgeNext \/ PurgeFallsDue
    \/ \E a \in OneTime : ExpireOneTime(a)
    \/ \E a \in OAuth : TokenNearsExpiry(a) \/ BackoffEnds(a) \/ FallbackExpires(a)
    \/ \E a \in Accounts : QuarantineEnds(a)

PoolSafetySpec == PoolInit /\ [][PoolNext]_poolVars

\* Calls run to their end, the provider's client has a timeout, and the loop
\* ticks for ever.
PoolFairness == (\A w \in Workers : WF_poolVars(Work(w))) /\ WF_poolVars(LoopOn)

PoolSpec == PoolSafetySpec /\ PoolFairness

-----------------------------------------------------------------------------

\* Unless refreshes of one account overlapped, an answer was lost or the
\* provider revoked the token, the credential refresh_oauth_account_inner
\* leaves behind holds the token the provider accepts, and the account was
\* never refused as reused (which would purge its family), whatever was
\* deleted, enabled or reported in between.
StoredTokenIsLive ==
    \A a \in OAuth \ disturbed : cred[a].kept =>
        /\ cred[a].code # "reused"
        /\ (\A w \in Workers : flight[w][a] = NoFlight) => cred[a].token = live[a]

Expiring(a) ==
    /\ a \in present /\ enabled[a] /\ health[a].state = "active"
    /\ cred[a].kept /\ cred[a].expiring /\ ~cred[a].backoff

\* Accounts the loop takes into every batch although nothing comes of it: their
\* refresh token was refused or cannot be read, and no back-off is set.
Stuck == {a \in OAuth : Expiring(a) /\ ~MayRefresh(a, FALSE)}

\* An account whose token expires does not wait for its refresh for ever: it is
\* refreshed, put on a back-off, left to its fallback or taken out of the pool,
\* unless stuck accounts fill the batches of the loop.
ExpiringIsTried ==
    \A a \in Watched : (Expiring(a) /\ MayRefresh(a, FALSE))
                       ~> (~(Expiring(a) /\ MayRefresh(a, FALSE)) \/ Cardinality(Stuck) >= RefreshBatch)

=============================================================================
