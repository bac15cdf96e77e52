----------------------------- MODULE AuthCache -----------------------------
(***************************************************************************)
(* Authentication of requests by the data plane (auth.rs,                  *)
(* auth/validator.rs): the control plane validates a key, the answer is    *)
(* kept for a while, positive and negative apart.  Requests are            *)
(* concurrent, so an answer may be older than the eviction or the          *)
(* revocation that overtook it.                                            *)
(***************************************************************************)
EXTENDS Naturals

CONSTANTS
  Keys, Requests,
  PositiveTtl,      \* what the control plane asks for, at most
  NegativeTtl,      \* 0 keeps no refusals
  MaxKeyChanges     \* bound on what happens to the keys

ASSUME AuthAssumption ==
  /\ PositiveTtl \in Nat \ {0}
  /\ {NegativeTtl, MaxKeyChanges} \subseteq Nat

VARIABLES
  failOpen,       \* auth_fail_open
  localKeys,      \* allowed_api_keys
  keyState,       \* what the control plane says of a key
  keyChanges,
  positive,       \* cache: key -> principal and time left
  negative,       \* negative_cache: key -> time left
  req             \* request -> where its validation stands

authVars == <<failOpen, localKeys, keyState, keyChanges, positive, negative, req>>

KeyStates == {"enabled", "disabled", "unknown"}
NoPrincipal == [state |-> "unknown", left |-> 0]
NoRequest == [pc |-> "idle", key |-> "none", answer |-> "none"]

AuthGoto(r, pc) == req' = [req EXCEPT ![r].pc = pc]
Answer(r, what) == req' = [req EXCEPT ![r] = [NoRequest EXCEPT !.pc = "done", !.answer = what]]

-----------------------------------------------------------------------------
\* Middleware: without a token there is nothing to validate.

RequireApiKey(r, k) ==
  /\ req[r].pc = "idle"
  /\ req' = [req EXCEPT ![r] = [pc |-> "positive", key |-> k, answer |-> "none"]]
  /\ UNCHANGED <<failOpen, localKeys, keyState, keyChanges, positive, negative>>

Admission(state) == IF state = "enabled" THEN "admitted" ELSE "forbidden"

GetCachedPrincipalRenews(r) ==
  /\ req[r].pc = "positive"
  /\ LET k == req[r].key
     IN  IF positive[k].left > 0
         THEN /\ Answer(r, Admission(positive[k].state))
              /\ positive' = [positive EXCEPT ![k].left = PositiveTtl]
         ELSE /\ AuthGoto(r, "negative")
              /\ positive' = [positive EXCEPT ![k] = NoPrincipal]
  /\ UNCHANGED <<failOpen, localKeys, keyState, keyChanges, negative>>

GetCachedPrincipal(r) ==
  /\ req[r].pc = "positive"
  /\ LET k == req[r].key
     IN  IF positive[k].left > 0
         THEN Answer(r, Admission(positive[k].state)) /\ UNCHANGED positive
         ELSE /\ AuthGoto(r, "negative")
              /\ positive' = [positive EXCEPT ![k] = NoPrincipal]
  /\ UNCHANGED <<failOpen, localKeys, keyState, keyChanges, negative>>

IsCachedUnauthorized(r) ==
  /\ req[r].pc = "negative"
  /\ IF negative[req[r].key] > 0 THEN Answer(r, "unauthorized") ELSE AuthGoto(r, "remote")
  /\ UNCHANGED <<failOpen, localKeys, keyState, keyChanges, positive, negative>>

\* The control plane answers for the key as it is then.
RemoteValidate(r) ==
  /\ req[r].pc = "remote"
  /\ req' = [req EXCEPT ![r].pc = "received", ![r].answer = keyState[req[r].key]]
  /\ UNCHANGED <<failOpen, localKeys, keyState, keyChanges, positive, negative>>

\* The answer is stored when it arrives: its time starts here.
InsertNegativeCache(r) ==
  /\ req[r].pc = "received" /\ req[r].answer = "unknown"
  /\ negative' = IF NegativeTtl = 0 THEN negative
                 ELSE [negative EXCEPT ![req[r].key] = NegativeTtl]
  /\ Answer(r, "unauthorized")
  /\ UNCHANGED <<failOpen, localKeys, keyState, keyChanges, positive>>

InsertCache(r) ==
  /\ req[r].pc = "received" /\ req[r].answer # "unknown"
  /\ positive' = [positive EXCEPT ![req[r].key] = [state |-> req[r].answer, left |-> PositiveTtl]]
  /\ Answer(r, Admission(req[r].answer))
  /\ UNCHANGED <<failOpen, localKeys, keyState, keyChanges, negative>>

\* No usable answer.  Connection errors, timeouts and server errors fall back
\* to the local list when the data plane fails open; others never do.
AuthorizeWithLocalMode(r) ==
  IF localKeys = {} THEN Answer(r, "anonymous")
  ELSE IF req[r].key \in localKeys THEN Answer(r, "local") ELSE Answer(r, "forbidden")

ValidatorFails(r, eligible) ==
  /\ req[r].pc = "remote"
  /\ IF failOpen /\ eligible THEN AuthorizeWithLocalMode(r) ELSE Answer(r, "unavailable")
  /\ UNCHANGED <<failOpen, localKeys, keyState, keyChanges, positive, negative>>

AuthFinish(r) ==
  /\ req[r].pc = "done"
  /\ req' = [req EXCEPT ![r] = NoRequest]
  /\ UNCHANGED <<failOpen, localKeys, keyState, keyChanges, positive, negative>>

-----------------------------------------------------------------------------
\* Operators, the clock, and the keys.

EvictToken(k) ==
  /\ positive[k].left > 0 \/ negative[k] > 0
  /\ positive' = [positive EXCEPT ![k] = NoPrincipal]
  /\ negative' = [negative EXCEPT ![k] = 0]
  /\ UNCHANGED <<failOpen, localKeys, keyState, keyChanges, req>>

ClearCache ==
  /\ \E k \in Keys : positive[k].left > 0 \/ negative[k] > 0
  /\ positive' = [k \in Keys |-> NoPrincipal]
  /\ negative' = [k \in Keys |-> 0]
  /\ UNCHANGED <<failOpen, localKeys, keyState, keyChanges, req>>

AuthTick ==
  /\ \E k \in Keys : positive[k].left > 0 \/ negative[k] > 0
  /\ positive' = [k \in Keys |-> IF positive[k].left <= 1 THEN NoPrincipal
                                 ELSE [positive[k] EXCEPT !.left = @ - 1]]
  /\ negative' = [k \in Keys |-> IF negative[k] = 0 THEN 0 ELSE negative[k] - 1]
  /\ UNCHANGED <<failOpen, localKeys, keyState, keyChanges, req>>

ChangeKey(k) ==
  /\ keyChanges < MaxKeyChanges
  /\ \E s \in KeyStates \ {keyState[k]} : keyState' = [keyState EXCEPT ![k] = s]
  /\ keyChanges' = keyChanges + 1
  /\ UNCHANGED <<failOpen, localKeys, positive, negative, req>>

-----------------------------------------------------------------------------

AuthInit ==
  /\ failOpen \in BOOLEAN /\ localKeys \in SUBSET Keys
  /\ keyState \in [Keys -> KeyStates] /\ keyChanges = 0
  /\ positive = [k \in Keys |-> NoPrincipal] /\ negative = [k \in Keys |-> 0]
  /\ req = [r \in Requests |-> NoRequest]

AuthStep(r) ==
  \/ GetCachedPrincipal(r) \/ IsCachedUnauthorized(r) \/ RemoteValidate(r)
  \/ InsertNegativeCache(r) \/ InsertCache(r) \/ AuthFinish(r)
  \/ \E eligible \in BOOLEAN : ValidatorFails(r, eligible)

AuthNext ==
  \/ AuthTick \/ ClearCache
  \/ \E k \in Keys : EvictToken(k) \/ ChangeKey(k)
  \/ \E r \in Requests : AuthStep(r) \/ \E k \in Keys : RequireApiKey(r, k)

-----------------------------------------------------------------------------
\* The caches come to agree with the control plane once a key no longer
\* changes, however requests keep it in use: a revoked key is not admitted for
\* ever, a created one not refused for ever.  An answer that arrives after an
\* eviction or a revocation is kept, but its time runs from its arrival and a
\* hit does not renew it (insert_cache, get_cached_principal).
CacheFollowsKey ==
  \A k \in Keys :
    /\ <>[](keyState[k] # "enabled") =>
         <>[](positive[k].left > 0 => positive[k].state # "enabled")
    /\ <>[](keyState[k] # "unknown") => <>[](negative[k] = 0)
=============================================================================
