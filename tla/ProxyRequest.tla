---------------------------- MODULE ProxyRequest ----------------------------
(***************************************************************************)
(* proxy_handler of the data plane: a request picks an account, authorizes *)
(* its billing hold, sends, and on a failure retries the account, fails    *)
(* over to another one, waits for a route, or answers. The requests share  *)
(* the router's penalties, the shared routing cache and the recovery tasks *)
(* spawned after a failover.                                               *)
(*                                                                         *)
(* The pick itself is module Router: here it returns any routable account  *)
(* that was not tried, and may miss one when another pick, or a snapshot,  *)
(* moves the shared cursor under it. The calls behind a hold are module BillingClient. Sticky     *)
(* sessions only steer the pick and are left to Router.                    *)
(***************************************************************************)
EXTENDS Integers, FiniteSets

CONSTANTS
    ProxyRequests,
    Accounts,
    Bindings,      \* the accounts requests may be bound to; NoAccount: to none
    Errors,        \* the error contexts upstream answers lead to
    Failover,      \* enable_request_failover
    SharedCache,   \* shared_routing_cache_enabled
    QuickRetryMax, \* same_account_quick_retry_max
    NoAccount

AccountClasses ==
    {"TokenInvalidated", "AuthExpired", "AccountDeactivated", "QuotaExhausted", "RateLimited"}

ServerClasses == {"Overloaded", "UpstreamUnavailable", "TransientServer"}

\* UpstreamErrorContext: class, the error codes that matter, the scope of a
\* learned template ("no": none matched), and whether the status is a 5xx.
\* "NoContext" is a stream that broke before its first event.
Contexts ==
    [class: AccountClasses \cup ServerClasses \cup {"NonRetryableClient", "Unknown", "NoContext"},
     code: {"other", "previous_response_not_found", "refresh_token_reused"},
     learned: {"none", "same", "cross", "no"},
     server: BOOLEAN]

ASSUME ProxyAssumption ==
    /\ Bindings \subseteq Accounts \cup {NoAccount}
    /\ NoAccount \notin Accounts /\ IsFiniteSet(Accounts)
    /\ Errors \subseteq Contexts
    /\ Failover \in BOOLEAN /\ SharedCache \in BOOLEAN
    /\ QuickRetryMax \in Nat

VARIABLES
    enabled,     \* accounts the snapshot lists as enabled
    penalised,   \* accounts the router holds unhealthy
    sharedBad,   \* accounts the shared routing cache holds unhealthy
    recovering,  \* accounts whose token a spawned recovery task rotates
    req,         \* the state of each handler
    lateSends,   \* history: sends after the deadline,
    spared,      \* accounts routable ever since the request began, never sent to,
    missed       \* and requests that ended since a pick missed an account

proxyRequestVars == <<enabled, penalised, sharedBad, recovering, req, lateSends, spared, missed>>

\* What can come back instead of a response: the error context, whether it came
\* in the prelude of a stream, and whether the control plane can rotate the
\* account's token when asked to.
Failures == [context: Errors, stream: BOOLEAN, rotated: BOOLEAN]

NoFailure ==
    [context |-> [class |-> "none", code |-> "other", learned |-> "no", server |-> FALSE],
     stream |-> FALSE, rotated |-> FALSE]

Answers == {"none", "ok", "client_error", "failed", "proxy", "url", "billing", "missing", "bridged"}

Handlers ==
    [pc: {"idle", "pick", "check", "authorize", "send", "react", "answered", "gone"},
     bound: Bindings \cup {NoAccount}, account: Accounts \cup {NoAccount}, tried: SUBSET Accounts,
     round: BOOLEAN, attempt: 0 .. QuickRetryMax, late: BOOLEAN, failure: Failures \cup {NoFailure},
     hold: {"none", "held", "settled", "stream"}, answer: Answers]

ProxyTypeOK ==
    /\ enabled \subseteq Accounts
    /\ penalised \subseteq Accounts
    /\ sharedBad \subseteq Accounts
    /\ recovering \subseteq Accounts
    /\ req \in [ProxyRequests -> Handlers]
    /\ lateSends \in [ProxyRequests -> Nat]
    /\ spared \in [ProxyRequests -> SUBSET Accounts]

-----------------------------------------------------------------------------
(* The decision table. *)

\* decide_upstream_error: retry_scope
RetryScope(e) ==
    IF e.code = "previous_response_not_found" THEN "same"
    ELSE IF e.learned # "no" THEN e.learned
    ELSE IF e.class \in AccountClasses THEN "cross"
    ELSE IF e.class \in ServerClasses \cup {"NoContext"} THEN "same"
    ELSE "none"

\* and allow_cross_account_failover
AllowCross(e) == e.code # "previous_response_not_found" /\ RetryScope(e) # "none"

IsFailoverRetryable(e) == AllowCross(e) \/ RetryScope(e) = "same"

ShouldRetrySameAccount(e, attempt) ==
    /\ attempt < QuickRetryMax
    /\ RetryScope(e) = "same"
    /\ e.code = "previous_response_not_found" \/ e.server

RotatesToken(e) ==
    e.code # "refresh_token_reused" /\ e.class \in {"TokenInvalidated", "AuthExpired"}

\* ejection_ttl_for_response is Some(_)
Ejects(e, rotated) ==
    \/ e.class \in (AccountClasses \ {"AuthExpired"}) \cup ServerClasses
    \/ e.class = "AuthExpired" /\ ~rotated
    \/ e.class \in {"Unknown", "NoContext"} /\ e.server

-----------------------------------------------------------------------------
Fresh ==
    [pc |-> "idle", bound |-> NoAccount, account |-> NoAccount, tried |-> {}, round |-> FALSE, attempt |-> 0,
     late |-> FALSE, failure |-> NoFailure, hold |-> "none", answer |-> "none"]

ProxyInit ==
    /\ enabled \in SUBSET Accounts
    /\ penalised = {}
    /\ sharedBad \in IF SharedCache THEN SUBSET Accounts ELSE {{}}
    /\ recovering = {}
    /\ req = [r \in ProxyRequests |-> Fresh]
    /\ lateSends = [r \in ProxyRequests |-> 0]
    /\ spared = [r \in ProxyRequests |-> {}]
    /\ missed = {}

RequestAt(r, pc) == req[r].pc = pc

Active(r) == req[r].pc \notin {"idle", "answered", "gone"}

ProxyRoutable == enabled \ penalised

Set(r, s) == req' = [req EXCEPT ![r] = s]

\* The history of the accounts that stayed routable; a conjunct of every step.
Observe ==
    spared' = [r \in ProxyRequests |->
        IF req'[r].pc = "idle" THEN {}
        ELSE IF req[r].pc = "idle" THEN enabled' \ penalised'
        ELSE IF req[r].pc \in {"answered", "gone"} THEN spared[r]
        ELSE (spared[r] \cap (enabled' \ penalised'))
                 \ (IF req'[r].pc = "send" THEN {req'[r].account} ELSE {})]

\* mark_unhealthy, and set_unhealthy in the shared cache.
Eject(a) ==
    /\ penalised' = penalised \cup {a}
    /\ sharedBad' = IF SharedCache THEN sharedBad \cup {a} ELSE sharedBad

\* release_billing_hold_best_effort on what is left of the session, then the
\* response.
Answered(s, answer) ==
    [Fresh EXCEPT !.pc = "answered", !.bound = s.bound, !.answer = answer,
                  !.hold = IF s.hold = "held" THEN "none" ELSE s.hold]

-----------------------------------------------------------------------------
\* The caller may force an account (ForcedAccountSelection).
StartRequest(r, b) ==
    /\ RequestAt(r, "idle")
    /\ Set(r, [Fresh EXCEPT !.pc = "pick", !.bound = b])
    /\ UNCHANGED <<enabled, penalised, sharedBad, recovering, lateSends, missed>>

\* failover_deadline passes.
PassDeadline(r) ==
    /\ Active(r) /\ ~req[r].late
    /\ req' = [req EXCEPT ![r].late = TRUE]
    /\ UNCHANGED <<enabled, penalised, sharedBad, recovering, lateSends, missed>>

\* No account was picked: one more round over all accounts, waiting for a
\* route until the deadline, then the last failure or no_upstream_account.
NoRoute(r) ==
    LET s == req[r]
    IN  IF Failover /\ ~s.round /\ s.tried # {} /\ Cardinality(enabled) >= 2
        THEN Set(r, [s EXCEPT !.round = TRUE, !.tried = {}])
        ELSE IF Failover /\ ~s.late THEN Set(r, [s EXCEPT !.tried = {}])
        ELSE Set(r, Answered(s, "failed"))

\* No account of S is found: there is none, or the shared cursor of the scan
\* was pushed past it by a concurrent pick or by a snapshot.
NothingFound(r, S) ==
    missed' = IF S # {} /\ req'[r].pc = "answered" THEN missed \cup {r} ELSE missed

PickAccount(r) ==
    LET s == req[r]
        S == ProxyRoutable \ s.tried
    IN  /\ RequestAt(r, "pick")
        /\ IF req[r].bound # NoAccount
           THEN /\ \/ Set(r, [s EXCEPT !.pc = "authorize", !.account = req[r].bound, !.attempt = 0])
                   \/ req[r].bound \notin enabled /\ Set(r, Answered(s, "missing"))
                /\ UNCHANGED missed
           ELSE \/ /\ \E a \in S : Set(r, [s EXCEPT !.pc = "check", !.account = a, !.attempt = 0])
                   /\ UNCHANGED missed
                \/ NoRoute(r) /\ NothingFound(r, S)
        /\ UNCHANGED <<enabled, penalised, sharedBad, recovering, lateSends>>

\* The shared cache knows the account is unhealthy: penalised here too.
CheckSharedCache(r) ==
    LET s == req[r]
        bad == SharedCache /\ s.account \in sharedBad
    IN  /\ RequestAt(r, "check")
        /\ IF bad
           THEN /\ penalised' = penalised \cup {s.account}
                /\ Set(r, [s EXCEPT !.pc = "pick", !.tried = @ \cup {s.account}])
           ELSE /\ Set(r, [s EXCEPT !.pc = "authorize"])
                /\ UNCHANGED penalised
        /\ UNCHANGED <<enabled, sharedBad, recovering, lateSends, missed>>

\* authorize_billing_session, once per hold; before it the URL is built and a
\* models request may be served from its cache.
Authorize(r) ==
    LET s == req[r]
    IN  /\ RequestAt(r, "authorize")
        /\ \/ Set(r, [s EXCEPT !.pc = "send", !.hold = "held"])
           \/ s.hold = "none" /\ \E x \in {"url", "ok", "billing"} : Set(r, Answered(s, x))
        /\ lateSends' = IF req'[r].pc = "send" /\ s.late
                        THEN [lateSends EXCEPT ![r] = @ + 1] ELSE lateSends
        /\ UNCHANGED <<enabled, penalised, sharedBad, recovering, missed>>

-----------------------------------------------------------------------------
\* Another attempt on the same account, with the hold it has.
RetrySame(r) ==
    Set(r, [req[r] EXCEPT !.pc = "authorize", !.attempt = @ + 1, !.failure = NoFailure])

\* should_cross_account_failover: the deadline plays no part.
MayCross(r, retryable) ==
    Failover /\ retryable /\ req[r].bound = NoAccount

ProxyCandidates(r) == ProxyRoutable \ (req[r].tried \cup {req[r].account})

FailOverHolding(r) ==
    Set(r, [req[r] EXCEPT !.pc = "pick", !.tried = @ \cup {req[r].account},
                          !.failure = NoFailure])

\* The hold is released and the next attempt gets a fresh billing id.
FailOver(r) ==
    Set(r, [req[r] EXCEPT !.pc = "pick", !.tried = @ \cup {req[r].account},
                          !.hold = "none", !.failure = NoFailure])

CrossBeforeDeadline(r, retryable, answer) ==
    \/ /\ MayCross(r, retryable) /\ ~req[r].late /\ ProxyCandidates(r) # {} /\ FailOver(r)
       /\ UNCHANGED missed
    \/ /\ Set(r, Answered(req[r], answer))
       /\ IF MayCross(r, retryable) /\ ~req[r].late THEN NothingFound(r, ProxyCandidates(r))
          ELSE UNCHANGED missed

\* Failover if a candidate is found, else the failure is the answer.
CrossOrAnswer(r, retryable, answer) ==
    \/ /\ MayCross(r, retryable) /\ ProxyCandidates(r) # {} /\ FailOver(r)
       /\ UNCHANGED missed
    \/ /\ Set(r, Answered(req[r], answer))
       /\ IF MayCross(r, retryable) THEN NothingFound(r, ProxyCandidates(r)) ELSE UNCHANGED missed

\* No outbound proxy is available; the account is not to blame.
ProxyUnavailable(r) ==
    LET s == req[r]
    IN  /\ RequestAt(r, "send")
        /\ IF Failover /\ s.attempt < QuickRetryMax /\ ~s.late
           THEN RetrySame(r) ELSE Set(r, Answered(s, "proxy"))
        /\ UNCHANGED <<enabled, penalised, sharedBad, recovering, lateSends, missed>>

\* The request got no response.
TransportError(r) ==
    LET s == req[r]
    IN  /\ RequestAt(r, "send")
        /\ IF Failover /\ s.attempt < QuickRetryMax /\ ~s.late
           THEN RetrySame(r) /\ UNCHANGED <<penalised, sharedBad, missed>>
           ELSE Eject(s.account) /\ CrossOrAnswer(r, TRUE, "failed")
        /\ UNCHANGED <<enabled, recovering, lateSends>>

\* An upstream error arrives.
ReceiveFailure(r, f) ==
    /\ RequestAt(r, "send")
    /\ f.rotated => RotatesToken(f.context)
    /\ f.context.class = "NoContext" => f.stream
    /\ Set(r, [req[r] EXCEPT !.pc = "react", !.failure = f])
    /\ UNCHANGED <<enabled, penalised, sharedBad, recovering, lateSends, missed>>

Reply(e) == IF IsFailoverRetryable(e) THEN "failed" ELSE "client_error"

\* The stream failed before its first event was passed on. The recovery runs
\* first, and the account is penalised whatever the error says.
StreamPreludeError(r) ==
    LET s == req[r]
        e == s.failure.context
    IN  /\ RequestAt(r, "react") /\ s.failure.stream
        /\ IF Failover /\ ShouldRetrySameAccount(e, s.attempt) /\ ~s.late
           THEN RetrySame(r) /\ UNCHANGED <<penalised, sharedBad, missed>>
           ELSE Eject(s.account) /\ CrossOrAnswer(r, IsFailoverRetryable(e), Reply(e))
        /\ UNCHANGED <<enabled, recovering, lateSends>>

\* A response with an error status. On a failover the recovery is left to a
\* task of its own; otherwise it runs before the account is penalised.
UpstreamError(r) ==
    LET s == req[r]
        e == s.failure.context
        crossed == req'[r].pc = "pick"
    IN  /\ RequestAt(r, "react") /\ ~s.failure.stream
        /\ IF Failover /\ ShouldRetrySameAccount(e, s.attempt) /\ ~s.late
           THEN RetrySame(r) /\ UNCHANGED <<penalised, sharedBad, recovering, missed>>
           ELSE /\ CrossOrAnswer(r, IsFailoverRetryable(e), Reply(e))
                /\ IF Ejects(e, s.failure.rotated /\ ~crossed) THEN Eject(s.account)
                   ELSE UNCHANGED <<penalised, sharedBad>>
                /\ recovering' = IF crossed /\ RotatesToken(e)
                                 THEN recovering \cup {s.account} ELSE recovering
        /\ UNCHANGED <<enabled, lateSends>>

\* A response: settled before it is returned, or a stream that takes the
\* hold over. A penalty stays: record_success does not clear it.
Succeed(r) ==
    /\ RequestAt(r, "send")
    /\ \E h \in {"settled", "stream"} :
           Set(r, Answered([req[r] EXCEPT !.hold = h], "ok"))
    /\ UNCHANGED <<enabled, penalised, sharedBad, recovering, lateSends, missed>>

\* A stream buffered for a client that wants none ends without its completion
\* event. The client is told 502; for the loop the status is the upstream's
\* 2xx: the request is settled, nobody is penalised and nothing is tried again.
BridgedStreamIncomplete(r) ==
    /\ RequestAt(r, "send")
    /\ Set(r, Answered([req[r] EXCEPT !.hold = "settled"], "bridged"))
    /\ UNCHANGED <<enabled, penalised, sharedBad, recovering, lateSends, missed>>

\* The client hangs up: the handler is dropped at an await, hold and all.
HangUp(r) ==
    /\ Active(r)
    /\ Set(r, [Fresh EXCEPT !.pc = "gone", !.hold = req[r].hold])
    /\ UNCHANGED <<enabled, penalised, sharedBad, recovering, lateSends, missed>>

-----------------------------------------------------------------------------
\* spawn_post_failover_recovery: a rotated token clears the penalty the
\* account has by now.
FinishRecovery(a) ==
    /\ a \in recovering
    /\ recovering' = recovering \ {a}
    /\ \/ penalised' = penalised \ {a} /\ sharedBad' = sharedBad \ {a}
       \/ UNCHANGED <<penalised, sharedBad>>
    /\ UNCHANGED <<enabled, req, lateSends, missed>>

\* Penalties run out, here and in the cache; other instances set the latter.
ExpirePenalty(a) ==
    /\ a \in penalised
    /\ penalised' = penalised \ {a}
    /\ UNCHANGED <<enabled, sharedBad, recovering, req, lateSends, missed>>

SharedCacheChanges(a) ==
    /\ SharedCache
    /\ sharedBad' = IF a \in sharedBad THEN sharedBad \ {a} ELSE sharedBad \cup {a}
    /\ UNCHANGED <<enabled, penalised, recovering, req, lateSends, missed>>

\* The snapshot poller enables or disables an account; a disabled one loses
\* its penalty.
ApplySnapshot(a) ==
    /\ enabled' = IF a \in enabled THEN enabled \ {a} ELSE enabled \cup {a}
    /\ penalised' = penalised \cap enabled'
    /\ UNCHANGED <<sharedBad, recovering, req, lateSends, missed>>

Step(r) ==
    /\ \/ PickAccount(r) \/ CheckSharedCache(r) \/ Authorize(r)
       \/ ProxyUnavailable(r) \/ TransportError(r) \/ Succeed(r) \/ BridgedStreamIncomplete(r)
       \/ \E f \in Failures : ReceiveFailure(r, f)
       \/ StreamPreludeError(r) \/ UpstreamError(r)
    /\ Observe

Environment ==
    /\ \/ \E r \in ProxyRequests : HangUp(r) \/ \E b \in Bindings : StartRequest(r, b)
       \/ \E a \in Accounts : FinishRecovery(a) \/ ExpirePenalty(a) \/ SharedCacheChanges(a) \/ ApplySnapshot(a)
    /\ Observe

Tick(r) == PassDeadline(r) /\ Observe

ProxyNext == Environment \/ \E r \in ProxyRequests : Step(r) \/ Tick(r)

\* Upstream answers or the connection breaks, and time passes.
ProxyFairness == \A r \in ProxyRequests : WF_proxyRequestVars(Step(r)) /\ WF_proxyRequestVars(Tick(r))

ProxySafetySpec == ProxyInit /\ [][ProxyNext]_proxyRequestVars

ProxySpec == ProxySafetySpec /\ ProxyFairness

-----------------------------------------------------------------------------
\* A request that looks for an account or has been answered holds no credits:
\* every error path of the loop released its hold, or handed it to the stream.
NoHoldIsForgotten ==
    \A r \in ProxyRequests : RequestAt(r, "pick") \/ RequestAt(r, "answered") => req[r].hold # "held"

\* After the deadline a request sends to each account at most twice: the failover
\* ignores the deadline, and only the tried set and the single extra round
\* (forced_distinct_failover_round) end it.
LateAttemptsBounded ==
    \A r \in ProxyRequests : lateSends[r] <= 2 * Cardinality(Accounts)

\* A request that is answered with a failure although failover is on has sent
\* to every account that was routable from its start to its end, unless its last
\* pick missed an account because the shared cursor was moved under it.
\* (A bridged stream without its completion event is answered at once.)
FailoverIsExhaustive ==
    Failover => \A r \in ProxyRequests \ missed :
        RequestAt(r, "answered") /\ req[r].bound = NoAccount /\ req[r].answer = "failed" => spared[r] = {}

=============================================================================
