--------------------------- MODULE WebSocketProxy ---------------------------
(***************************************************************************)
(* One websocket of the data plane: the handshake that finds an account    *)
(* (proxy_websocket_handler) and the session that follows                  *)
(* (proxy_websocket_streams), which matches the responses of the upstream  *)
(* to the requests of the client, opens a billing hold per request and     *)
(* captures or releases it, and may move the session to another upstream   *)
(* socket in the middle.                                                   *)
(*                                                                         *)
(* The session is one task: what it does for one message, the connects and *)
(* billing calls it awaits included, is one step with every outcome they   *)
(* can have. The upstream may send any event at any time. Where a sticky   *)
(* key points is module Router's.                                          *)
(***************************************************************************)
EXTENDS Integers, Sequences, FiniteSets

CONSTANTS WsAccounts, WsRequests, ResponseIds, HandshakeRetryMax, MaxHolds

NoWs == "none"

ASSUME WsAssumption == {HandshakeRetryMax, MaxHolds} \subseteq Nat /\ NoWs \notin ResponseIds

VARIABLES
    wsPhase,      \* "pick", "connect", "stream", "refused" or "closed"
    wsAccount,    \* the account of the upstream socket
    upgraded,     \* the account the handshake ended with
    wsTried, wsAttempt, wsRound, wsLate, wsPlain,   \* the handshake's locals
    wsUnhealthy,  \* accounts ejected by this connection, until they recover
    metered,      \* the principal is billed
    wsSent,       \* requests the client has sent
    tracker,      \* WsLogicalResponseTracker
    holds         \* the holds opened: the response id the client named, times closed

handshakeVars == <<wsPhase, wsAccount, upgraded, wsTried, wsAttempt, wsRound, wsLate, wsPlain,
                   wsUnhealthy, metered>>
sessionVars == <<wsSent, tracker, holds>>
wsVars == <<handshakeVars, sessionVars>>

-----------------------------------------------------------------------------
(* The tracker: requests without a response, responses by id, ids done. *)

NoTracker == [pending |-> <<>>, active |-> <<>>, done |-> {}]
Untracked == [req |-> NoWs, hold |-> 0, rid |-> NoWs, named |-> FALSE, started |-> FALSE]

IsActive(t, rid) == rid \in DOMAIN t.active
WithActive(t, rid, x) ==
    [t EXCEPT !.active = [i \in DOMAIN t.active \cup {rid} |-> IF i = rid THEN x ELSE t.active[i]]]
WithoutActive(t, rid) ==
    [t EXCEPT !.active = [i \in DOMAIN t.active \ {rid} |-> t.active[i]]]

RegisterTracked(t, x) ==
    IF x.rid = NoWs THEN [t EXCEPT !.pending = Append(@, x)]
    ELSE IF x.rid \in t.done THEN t
    ELSE WithActive(t, x.rid, x)

\* The response's own entry, else the oldest request that has none.
TakeFor(t, rid) ==
    IF IsActive(t, rid) THEN [x |-> t.active[rid], t |-> WithoutActive(t, rid)]
    ELSE IF t.pending # <<>> THEN [x |-> Head(t.pending), t |-> [t EXCEPT !.pending = Tail(@)]]
    ELSE [x |-> Untracked, t |-> t]

Identified(x, rid) == [x EXCEPT !.rid = IF @ = NoWs THEN rid ELSE @]

RegisterResponseCreated(t, rid) ==
    IF rid = NoWs \/ rid \in t.done THEN t
    ELSE LET k == TakeFor(t, rid)
         IN  WithActive(k.t, rid, [Identified(k.x, rid) EXCEPT !.started = TRUE])

FinishedFor(t, rid) ==
    LET k == TakeFor(t, rid)
        x == Identified(k.x, rid)
    IN  [x |-> x, t |-> IF x.rid = NoWs THEN k.t ELSE [k.t EXCEPT !.done = @ \cup {x.rid}]]

\* complete_response and release_response: what they take, nothing for an id
\* that is done.
FinishResponse(t, rid) ==
    IF rid # NoWs /\ rid \in t.done THEN [x |-> Untracked, t |-> t] ELSE FinishedFor(t, rid)

Unstarted(t) ==
    {<<"pending", i>> : i \in {j \in DOMAIN t.pending : ~t.pending[j].started}}
    \cup {<<"active", i>> : i \in {j \in DOMAIN t.active : ~t.active[j].started}}

Entry(t, p) == IF p[1] = "pending" THEN t.pending[p[2]] ELSE t.active[p[2]]

WithoutPending(s, i) == SubSeq(s, 1, i - 1) \o SubSeq(s, i + 1, Len(s))

TakeEntry(t, p) ==
    IF p[1] = "pending" THEN [t EXCEPT !.pending = WithoutPending(@, p[2])]
    ELSE WithoutActive(t, p[2])

LatestUnstarted(t) == IF Cardinality(Unstarted(t)) = 1 THEN Unstarted(t) ELSE {}

\* By response id, by request id, or the only one there is. An id found twice
\* among the responses gives either.
FindRetryable(t, rid, req) ==
    LET byRequest == {p \in Unstarted(t) : req # NoWs /\ Entry(t, p).named /\ Entry(t, p).req = req}
        active == {p \in byRequest : p[1] = "active"}
        oldest == {p \in byRequest : \A q \in byRequest : p[2] <= q[2]}
    IN  IF IsActive(t, rid) /\ ~t.active[rid].started THEN {<<"active", rid>>}
        ELSE IF active # {} THEN active
        ELSE IF byRequest # {} THEN oldest
        ELSE LatestUnstarted(t)

TakeRetryable(t, p) == TakeEntry(t, p)

HasUnfinished(t) == t.pending # <<>> \/ DOMAIN t.active # {}

UnfinishedHoldsOfRequests(t) == {t.pending[i].hold : i \in DOMAIN t.pending} \ {0}

UnfinishedHolds(t) ==
    ({t.pending[i].hold : i \in DOMAIN t.pending} \cup {t.active[i].hold : i \in DOMAIN t.active}) \ {0}

-----------------------------------------------------------------------------
(* Billing of one request: a hold is opened, then captured or released. *)

CloseHold(hs, h) == IF h = 0 THEN hs ELSE [hs EXCEPT ![h].closed = @ + 1]
CloseHolds(hs, set) == [h \in DOMAIN hs |-> IF h \in set THEN [hs[h] EXCEPT !.closed = @ + 1] ELSE hs[h]]
CanOpen(hs) == Len(hs) < MaxHolds
OpenHold(hs, rid) == IF metered THEN Append(hs, [rid |-> rid, closed |-> 0]) ELSE hs
NewHold(hs) == IF metered THEN Len(hs) + 1 ELSE 0

-----------------------------------------------------------------------------
(* The handshake. *)

WsRoutable == WsAccounts \ wsUnhealthy

\* wsTried grows by the account the shared cache holds unhealthy, and by each
\* one failed over from.
PickAccountWs ==
    /\ wsPhase = "pick"
    /\ \E a \in WsRoutable \ wsTried :
         /\ wsAccount' = a
         /\ wsPhase' = "connect"
         /\ wsAttempt' = 0 /\ wsPlain' = FALSE
    /\ UNCHANGED <<upgraded, wsTried, wsRound, wsLate, wsUnhealthy, metered, sessionVars>>

SkipSharedUnhealthy ==
    /\ wsPhase = "pick"
    /\ \E a \in WsRoutable \ wsTried :
         /\ wsTried' = wsTried \cup {a}
         /\ wsUnhealthy' = wsUnhealthy \cup {a}
    /\ UNCHANGED <<wsPhase, wsAccount, upgraded, wsAttempt, wsRound, wsLate, wsPlain, metered,
                   sessionVars>>

NoRouteWs ==
    /\ wsPhase = "pick"
    /\ WsRoutable \ wsTried = {}
    /\ IF ~wsRound /\ wsTried # {} /\ Cardinality(WsAccounts) >= 2
       THEN wsTried' = {} /\ wsRound' = TRUE /\ UNCHANGED wsPhase
       ELSE IF ~wsLate
       THEN wsTried' = {} /\ UNCHANGED <<wsPhase, wsRound>>
       ELSE wsPhase' = "refused" /\ UNCHANGED <<wsTried, wsRound>>
    /\ UNCHANGED <<wsAccount, upgraded, wsAttempt, wsLate, wsPlain, wsUnhealthy, metered,
                   sessionVars>>

\* The upstream left the subprotocol out: once more without asking for one.
RetryWithoutSubprotocol ==
    /\ wsPhase = "connect" /\ ~wsPlain
    /\ wsPlain' = TRUE
    /\ UNCHANGED <<wsPhase, wsAccount, upgraded, wsTried, wsAttempt, wsRound, wsLate, wsUnhealthy,
                   metered, sessionVars>>

\* A failure with retry scope "same" or a broken connection: the account again.
RetryHandshake ==
    /\ wsPhase = "connect"
    /\ wsAttempt < HandshakeRetryMax /\ ~wsLate
    /\ wsAttempt' = wsAttempt + 1
    /\ UNCHANGED <<wsPhase, wsAccount, upgraded, wsTried, wsRound, wsLate, wsPlain, wsUnhealthy,
                   metered, sessionVars>>

\* No outbound proxy: answered, whatever other accounts there are.
NoOutboundProxy ==
    /\ wsPhase = "connect"
    /\ wsAttempt = HandshakeRetryMax \/ wsLate
    /\ wsPhase' = "refused"
    /\ UNCHANGED <<wsAccount, upgraded, wsTried, wsAttempt, wsRound, wsLate, wsPlain, wsUnhealthy,
                   metered, sessionVars>>

\* The account is ejected or not, as its error says; then another account, if
\* the error allows it and one is left, or the answer.
HandshakeFails ==
    /\ wsPhase = "connect"
    /\ \E retryable \in BOOLEAN, ejects \in BOOLEAN :
         LET left == WsRoutable \ (wsTried \cup {wsAccount})
         IN  /\ wsUnhealthy' = IF ejects THEN wsUnhealthy \cup {wsAccount} ELSE wsUnhealthy
             /\ IF retryable /\ left # {}
                THEN wsPhase' = "pick" /\ wsTried' = wsTried \cup {wsAccount}
                ELSE wsPhase' = "refused" /\ UNCHANGED wsTried
    /\ UNCHANGED <<wsAccount, upgraded, wsAttempt, wsRound, wsLate, wsPlain, metered, sessionVars>>

\* The handshake's locals go out of scope.
UpgradeWs ==
    /\ wsPhase = "connect"
    /\ wsPhase' = "stream" /\ upgraded' = wsAccount
    /\ wsTried' = {} /\ wsAttempt' = 0 /\ wsRound' = FALSE /\ wsLate' = FALSE /\ wsPlain' = FALSE
    /\ UNCHANGED <<wsAccount, wsUnhealthy, metered, sessionVars>>

DeadlinePasses ==
    /\ wsPhase \in {"pick", "connect"} /\ ~wsLate
    /\ wsLate' = TRUE
    /\ UNCHANGED <<wsPhase, wsAccount, upgraded, wsTried, wsAttempt, wsRound, wsPlain, wsUnhealthy,
                   metered, sessionVars>>

\* An ejection runs out.
RecoverAccount ==
    /\ wsPhase \in {"pick", "connect", "stream"} /\ wsUnhealthy # {}
    /\ \E a \in wsUnhealthy : wsUnhealthy' = wsUnhealthy \ {a}
    /\ UNCHANGED <<wsPhase, wsAccount, upgraded, wsTried, wsAttempt, wsRound, wsLate, wsPlain,
                   metered, sessionVars>>

Handshake ==
    \/ PickAccountWs \/ SkipSharedUnhealthy \/ NoRouteWs
    \/ RetryWithoutSubprotocol \/ RetryHandshake \/ NoOutboundProxy \/ HandshakeFails \/ UpgradeWs

-----------------------------------------------------------------------------
(* The session: messages of the client. *)

Stays == UNCHANGED <<upgraded, wsTried, wsAttempt, wsRound, wsLate, wsPlain, metered>>
SameSocket == UNCHANGED <<wsPhase, wsAccount, wsUnhealthy>> /\ Stays

\* response.create: authorized, tracked, sent on. The client may name the
\* response and may name the request. Refused requests change nothing.
SendRequest(r, rid, named) ==
    /\ wsPhase = "stream" /\ r \notin wsSent /\ CanOpen(holds)
    /\ wsSent' = wsSent \cup {r}
    /\ holds' = OpenHold(holds, rid)
    /\ tracker' = RegisterTracked(tracker, [req |-> r, hold |-> NewHold(holds), rid |-> rid,
                                            named |-> named, started |-> FALSE])
    /\ SameSocket

\* Either side closes, or a send fails: the holds that are left are released.
\* A policy close of the upstream ejects an account.
EndSession(policy) ==
    /\ wsPhase = "stream"
    /\ wsPhase' = "closed"
    /\ holds' = CloseHolds(holds, UnfinishedHolds(tracker))
    /\ tracker' = [tracker EXCEPT !.pending = <<>>, !.active = <<>>]
    /\ wsUnhealthy' = IF policy THEN wsUnhealthy \cup {upgraded} ELSE wsUnhealthy
    /\ UNCHANGED <<wsAccount, wsSent>> /\ Stays

-----------------------------------------------------------------------------
(* The session: events of the upstream. *)

ResponseCreated(rid) ==
    /\ wsPhase = "stream"
    /\ tracker' = RegisterResponseCreated(tracker, rid)
    /\ SameSocket /\ UNCHANGED <<wsSent, holds>>

\* response.completed: the hold is captured, or released when there is no usage. A
\* capture that fails is not retried here (module BillingClient).
WsResponseCompleted(rid) ==
    /\ wsPhase = "stream"
    /\ LET f == FinishResponse(tracker, rid)
       IN  /\ tracker' = f.t
           /\ holds' = CloseHold(holds, f.x.hold)
    /\ SameSocket /\ UNCHANGED wsSent

\* response.incomplete, response.failed.
ResponseReleased(rid) ==
    /\ wsPhase = "stream"
    /\ LET f == FinishResponse(tracker, rid)
       IN  tracker' = f.t /\ holds' = CloseHold(holds, f.x.hold)
    /\ SameSocket /\ UNCHANGED <<wsSent>>

\* Where connect_failover_upstream_for_ws_session can end: another account,
\* after ejecting some, or none; the current account is ejected before.
FailoverOutcomes ==
    LET bad == wsUnhealthy \cup {wsAccount}
        rest == WsAccounts \ bad
        eject == {bad \cup X : X \in SUBSET rest}
    IN  {c \in [account : rest, unhealthy : eject] : c.account \notin c.unhealthy}
NoFailover == {[account |-> NoWs, unhealthy |-> wsUnhealthy \cup {wsAccount} \cup X] :
                 X \in SUBSET (WsAccounts \ (wsUnhealthy \cup {wsAccount}))}

ConnectOutcomes(scope) ==
    IF scope = "same" THEN {[account |-> wsAccount, unhealthy |-> wsUnhealthy]}
    ELSE FailoverOutcomes

NoConnectOutcomes(scope) ==
    IF scope = "same" THEN {[account |-> NoWs, unhealthy |-> wsUnhealthy]} ELSE NoFailover

\* An error that names an unstarted request is retried on a new socket: a new
\* hold, the request once more, the old hold released; the client hears nothing.
RetryOnNewSocket(scope, rid, req) ==
    /\ wsPhase = "stream" /\ scope # "none" /\ CanOpen(holds)
    /\ \E p \in FindRetryable(tracker, rid, req), c \in ConnectOutcomes(scope) :
         LET x == Entry(tracker, p)
             retried == [x EXCEPT !.hold = NewHold(holds)]
         IN  /\ tracker' = RegisterTracked(TakeRetryable(tracker, p), retried)
             /\ holds' = CloseHold(OpenHold(holds, x.rid), x.hold)
             /\ wsAccount' = c.account /\ wsUnhealthy' = c.unhealthy
    /\ UNCHANGED <<wsPhase, wsSent>> /\ Stays

\* The error goes to the client and its request is released. Before that, a
\* retry may have failed: no socket, no authorization, or a send that broke,
\* whose hold is given back. With nothing left to answer the session moves on
\* to a new socket, if there is one.
ErrorReachesClient(scope, rid, req) ==
    /\ wsPhase = "stream"
    /\ LET f == FinishResponse(tracker, rid)
           tried == scope # "none" /\ FindRetryable(tracker, rid, req) # {}
       IN  /\ tracker' = f.t
           /\ \E spent \in {FALSE} \cup (IF tried /\ metered /\ CanOpen(holds) THEN {TRUE} ELSE {}) :
                holds' = CloseHold(IF spent THEN Append(holds, [rid |-> rid, closed |-> 1])
                               ELSE holds, f.x.hold)
           /\ IF scope # "none" /\ (tried \/ ~HasUnfinished(f.t))
              THEN \E c \in NoConnectOutcomes(scope)
                            \cup (IF HasUnfinished(f.t) THEN {} ELSE ConnectOutcomes(scope)) :
                     /\ wsUnhealthy' = c.unhealthy
                     /\ wsAccount' = IF c.account = NoWs THEN wsAccount ELSE c.account
              ELSE UNCHANGED <<wsAccount, wsUnhealthy>>
    /\ UNCHANGED <<wsPhase, wsSent>> /\ Stays

-----------------------------------------------------------------------------

WsInit ==
    /\ wsPhase = "pick" /\ wsAccount = NoWs /\ upgraded = NoWs
    /\ wsTried = {} /\ wsAttempt = 0 /\ wsRound = FALSE /\ wsLate = FALSE /\ wsPlain = FALSE
    /\ wsUnhealthy \in SUBSET WsAccounts /\ metered \in BOOLEAN
    /\ wsSent = {} /\ tracker = NoTracker /\ holds = <<>>

MaybeIds == ResponseIds \cup {NoWs}

Session ==
    \/ \E r \in WsRequests, rid \in MaybeIds, named \in BOOLEAN : SendRequest(r, rid, named)
    \/ \E policy \in BOOLEAN : EndSession(policy)
    \/ \E rid \in MaybeIds :
         \/ ResponseCreated(rid) \/ WsResponseCompleted(rid) \/ ResponseReleased(rid)
         \/ \E scope \in {"none", "same", "cross"}, req \in WsRequests \cup {NoWs} :
              RetryOnNewSocket(scope, rid, req) \/ ErrorReachesClient(scope, rid, req)

WsNext == Handshake \/ DeadlinePasses \/ RecoverAccount \/ Session

WsSafetySpec == WsInit /\ [][WsNext]_wsVars

-----------------------------------------------------------------------------

\* A hold of the session is closed at most once, by a capture or a release,
\* through any mix of completions, failures, retries on another socket and the
\* end of the session (take_retryable_request takes what find_retryable_request
\* found).
HoldClosedOnce == \A h \in DOMAIN holds : holds[h].closed <= 1

\* When the session is over every hold is closed, as long as the client named
\* no response itself: one named twice replaces the entry of the first, or is
\* not tracked when it is done (register_tracked_request), and that hold is
\* left to the expiry sweep.
HoldsAreSettled ==
    wsPhase = "closed" /\ (\A h \in DOMAIN holds : holds[h].rid = NoWs) =>
      \A h \in DOMAIN holds : holds[h].closed = 1

=============================================================================
