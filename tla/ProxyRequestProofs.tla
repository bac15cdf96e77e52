------------------------- MODULE ProxyRequestProofs -------------------------
(***************************************************************************)
(* What is proved of the loop that takes a request through the upstream    *)
(* accounts (ProxyRequest), for every number of requests and accounts,     *)
(* every set of error contexts and every retry limit.                      *)
(***************************************************************************)
EXTENDS ProxyRequest, FiniteSetTheorems, TLAPS

\* Sends the extra round may have used up.
EarlierRound(s) == IF s.round THEN Cardinality(Accounts) ELSE 0

\* What is true of the handler s of a request that has sent n times after its
\* deadline: where a hold is kept, that the account in use is not among the
\* tried ones, and that every late send but the last has its account in tried
\* or belongs to the round before.
HandlerInv(s, n) ==
    /\ s.pc = "idle" => s = Fresh
    /\ s.hold = "held" => s.pc \in {"authorize", "send", "react", "gone"}
    /\ s.bound # NoAccount => s.tried = {} /\ s.pc # "check"
    /\ s.pc \in {"check", "authorize", "send", "react"} => s.account \in Accounts \ s.tried
    /\ s.pc \notin {"answered", "gone"} /\ ~s.late => n = 0
    /\ s.pc \in {"pick", "check", "authorize"} => n <= EarlierRound(s) + Cardinality(s.tried)
    /\ s.pc \in {"send", "react"} => n <= EarlierRound(s) + Cardinality(s.tried) + 1
    /\ n <= 2 * Cardinality(Accounts)

LoopInv ==
    /\ ProxyTypeOK
    /\ \A r \in ProxyRequests : HandlerInv(req[r], lateSends[r])

\* The counting the loop's bound needs.
LEMMA TriedCounts ==
    /\ Cardinality(Accounts) \in Nat
    /\ \A T \in SUBSET Accounts :
         /\ Cardinality(T) \in Nat /\ Cardinality(T) <= Cardinality(Accounts)
         /\ \A a \in Accounts \ T : /\ Cardinality(T \cup {a}) = Cardinality(T) + 1
                                    /\ Cardinality(T) + 1 <= Cardinality(Accounts)
    /\ Cardinality({}) = 0
<1>1. Cardinality(Accounts) \in Nat
  BY FS_CardinalityType, ProxyAssumption
<1>2. ASSUME NEW T \in SUBSET Accounts
      PROVE  IsFiniteSet(T) /\ Cardinality(T) \in Nat /\ Cardinality(T) <= Cardinality(Accounts)
  BY FS_Subset, FS_CardinalityType, ProxyAssumption
<1>3. ASSUME NEW T \in SUBSET Accounts, NEW a \in Accounts \ T
      PROVE  /\ Cardinality(T \cup {a}) = Cardinality(T) + 1
             /\ Cardinality(T) + 1 <= Cardinality(Accounts)
  <2>1. Cardinality(T \cup {a}) = Cardinality(T) + 1
    BY <1>2, FS_AddElement
  <2>2. Cardinality(T \cup {a}) <= Cardinality(Accounts)
    <3>1. T \cup {a} \in SUBSET Accounts
      OBVIOUS
    <3> QED BY <3>1, <1>2
  <2> QED BY <2>1, <2>2
<1> QED BY <1>1, <1>2, <1>3, FS_EmptySet

\* A step that gives request r the handler s and the count n.
Becomes(r, s, n) ==
    /\ s \in Handlers /\ n \in Nat /\ HandlerInv(s, n)
    /\ req' = [req EXCEPT ![r] = s]
    /\ lateSends' = [lateSends EXCEPT ![r] = n]

\* What every step but those of Observe leaves in shape.
RoutesOK ==
    enabled' \subseteq Accounts /\ penalised' \subseteq Accounts
      /\ sharedBad' \subseteq Accounts /\ recovering' \subseteq Accounts

LEMMA SparedOK ==
    ASSUME LoopInv, Observe, RoutesOK
    PROVE  spared' \in [ProxyRequests -> SUBSET Accounts]
  BY DEF LoopInv, Observe, RoutesOK, ProxyTypeOK

LEMMA BecomesKeeps ==
    ASSUME LoopInv, Observe, RoutesOK, NEW r \in ProxyRequests, NEW s, NEW n, Becomes(r, s, n)
    PROVE  LoopInv'
<1>1. /\ req \in [ProxyRequests -> Handlers] /\ lateSends \in [ProxyRequests -> Nat]
      /\ \A q \in ProxyRequests : HandlerInv(req[q], lateSends[q])
  BY DEF LoopInv, ProxyTypeOK
<1>2. /\ req' \in [ProxyRequests -> Handlers] /\ lateSends' \in [ProxyRequests -> Nat]
      /\ req'[r] = s /\ lateSends'[r] = n
      /\ \A q \in ProxyRequests : q # r => req'[q] = req[q] /\ lateSends'[q] = lateSends[q]
  BY <1>1 DEF Becomes
<1>3. \A q \in ProxyRequests : HandlerInv(req'[q], lateSends'[q])
  BY <1>1, <1>2 DEF Becomes
<1> QED BY <1>2, <1>3, SparedOK DEF LoopInv, ProxyTypeOK, RoutesOK

LEMMA RestKeeps ==
    ASSUME LoopInv, Observe, RoutesOK, UNCHANGED <<req, lateSends>>
    PROVE  LoopInv'
  BY SparedOK DEF LoopInv, ProxyTypeOK, RoutesOK

LEMMA FreshHandler == Fresh \in Handlers /\ QuickRetryMax \in Nat
<1>1. QuickRetryMax \in Nat /\ 0 \in 0 .. QuickRetryMax
  BY ProxyAssumption
<1> QED BY <1>1 DEF Fresh, Handlers, Answers

\* The handlers a step can lead to keep HandlerInv: an answer, another attempt
\* on the account, and the way back to the pick.
LEMMA AnsweredHandler ==
    ASSUME NEW s \in Handlers, NEW n \in Nat, HandlerInv(s, n), NEW x \in Answers
    PROVE  Answered(s, x) \in Handlers /\ HandlerInv(Answered(s, x), n)
<1>1. Answered(s, x) \in Handlers
  <2> DEFINE h == IF s.hold = "held" THEN "none" ELSE s.hold
  <2>1. h \in {"none", "held", "settled", "stream"} /\ s.bound \in Bindings \cup {NoAccount}
    BY DEF Handlers
  <2> HIDE DEF h
  <2>2. [Fresh EXCEPT !.pc = "answered", !.bound = s.bound, !.answer = x, !.hold = h] \in Handlers
    BY <2>1, FreshHandler, ZenonT(30) DEF Handlers
  <2> QED BY <2>2 DEF Answered, h
<1>2. /\ Answered(s, x).pc = "answered" /\ Answered(s, x).tried = {}
      /\ Answered(s, x).hold # "held"
  BY DEF Answered, Fresh, Handlers
<1> QED BY <1>1, <1>2 DEF HandlerInv

LEMMA RetriedHandler ==
    ASSUME NEW s \in Handlers, NEW n \in Nat, HandlerInv(s, n),
           s.pc \in {"send", "react"}, s.attempt < QuickRetryMax, ~s.late
    PROVE  LET t == [s EXCEPT !.pc = "authorize", !.attempt = @ + 1, !.failure = NoFailure]
           IN  t \in Handlers /\ HandlerInv(t, n)
<1> DEFINE t == [s EXCEPT !.pc = "authorize", !.attempt = @ + 1, !.failure = NoFailure]
<1>1. t \in Handlers
  <2>1. s.attempt + 1 \in 0 .. QuickRetryMax
    BY FreshHandler DEF Handlers
  <2> QED BY <2>1, ZenonT(40) DEF Handlers
<1>2. /\ t.pc = "authorize" /\ t.hold = s.hold /\ t.bound = s.bound /\ t.tried = s.tried
      /\ t.account = s.account /\ t.late = s.late /\ t.round = s.round
  BY DEF Handlers
<1>3. n = 0 /\ EarlierRound(t) \in Nat /\ Cardinality(s.tried) \in Nat
  BY TriedCounts DEF HandlerInv, EarlierRound, Handlers
<1> HIDE DEF t
<1>4. HandlerInv(t, n)
  BY <1>1, <1>2, <1>3 DEF HandlerInv
<1> QED BY <1>1, <1>4 DEF t

LEMMA FailedOverHandler ==
    ASSUME NEW s \in Handlers, NEW n \in Nat, HandlerInv(s, n),
           s.pc \in {"send", "react"}, s.bound = NoAccount
    PROVE  LET t == [s EXCEPT !.pc = "pick", !.tried = @ \cup {s.account},
                              !.hold = "none", !.failure = NoFailure]
           IN  t \in Handlers /\ HandlerInv(t, n)
<1> DEFINE t == [s EXCEPT !.pc = "pick", !.tried = @ \cup {s.account},
                          !.hold = "none", !.failure = NoFailure]
<1>0. s.account \in Accounts \ s.tried /\ s.tried \in SUBSET Accounts
  BY DEF HandlerInv, Handlers
<1>1. t \in Handlers
  BY <1>0, ZenonT(30) DEF Handlers
<1>2. /\ t.pc = "pick" /\ t.hold = "none" /\ t.bound = s.bound /\ t.tried = s.tried \cup {s.account}
      /\ t.late = s.late /\ t.round = s.round
  BY DEF Handlers
<1> HIDE DEF t
<1>3. Cardinality(t.tried) = Cardinality(s.tried) + 1 /\ Cardinality(s.tried) \in Nat
      /\ EarlierRound(t) = EarlierRound(s) /\ EarlierRound(s) \in Nat
  BY <1>0, <1>2, TriedCounts DEF EarlierRound
<1>4. HandlerInv(t, n)
  BY <1>1, <1>2, <1>3 DEF HandlerInv
<1> QED BY <1>1, <1>4 DEF t

\* A request that starts.
LEMMA StartedHandler ==
    ASSUME NEW b \in Bindings
    PROVE  LET t == [Fresh EXCEPT !.pc = "pick", !.bound = b]
           IN  t \in Handlers /\ HandlerInv(t, 0)
<1> DEFINE t == [Fresh EXCEPT !.pc = "pick", !.bound = b]
<1>1. t \in Handlers
  BY FreshHandler, ZenonT(30) DEF Handlers
<1>2. t.pc = "pick" /\ t.hold = "none" /\ t.tried = {} /\ ~t.round /\ ~t.late
  BY DEF Fresh
<1> HIDE DEF t
<1>3. HandlerInv(t, 0)
  BY <1>1, <1>2, TriedCounts DEF HandlerInv, EarlierRound
<1> QED BY <1>1, <1>3 DEF t

LEMMA LateHandler ==
    ASSUME NEW s \in Handlers, NEW n \in Nat, HandlerInv(s, n), ~s.late,
           s.pc \notin {"idle", "answered", "gone"}
    PROVE  LET t == [s EXCEPT !.late = TRUE]
           IN  t \in Handlers /\ HandlerInv(t, n)
<1> DEFINE t == [s EXCEPT !.late = TRUE]
<1>1. t \in Handlers
  BY ZenonT(40) DEF Handlers
<1>2. /\ t.pc = s.pc /\ t.hold = s.hold /\ t.bound = s.bound /\ t.tried = s.tried
      /\ t.account = s.account /\ t.round = s.round
  BY DEF Handlers
<1>3. EarlierRound(t) = EarlierRound(s)
  BY <1>2 DEF EarlierRound
<1> HIDE DEF t
<1>4. HandlerInv(t, n)
  BY <1>1, <1>2, <1>3, TriedCounts DEF HandlerInv
<1> QED BY <1>1, <1>4 DEF t

LEMMA GoneHandler ==
    ASSUME NEW s \in Handlers, NEW n \in Nat, HandlerInv(s, n)
    PROVE  LET t == [Fresh EXCEPT !.pc = "gone", !.hold = s.hold]
           IN  t \in Handlers /\ HandlerInv(t, n)
<1> DEFINE t == [Fresh EXCEPT !.pc = "gone", !.hold = s.hold]
<1>1. t \in Handlers
  BY FreshHandler, ZenonT(30) DEF Handlers
<1>2. t.pc = "gone" /\ t.tried = {}
  BY DEF Fresh
<1> HIDE DEF t
<1>3. HandlerInv(t, n)
  BY <1>1, <1>2 DEF HandlerInv
<1> QED BY <1>1, <1>3 DEF t

\* The handlers of a pick: bound, with an account to check, after a round.
LEMMA PickedHandler ==
    ASSUME NEW s \in Handlers, NEW n \in Nat, HandlerInv(s, n), s.pc = "pick",
           NEW pc \in {"check", "authorize"}, pc = "check" => s.bound = NoAccount, NEW a \in Accounts \ s.tried
    PROVE  LET t == [s EXCEPT !.pc = pc, !.account = a, !.attempt = 0]
           IN  t \in Handlers /\ HandlerInv(t, n)
<1> DEFINE t == [s EXCEPT !.pc = pc, !.account = a, !.attempt = 0]
<1>1. t \in Handlers
  <2>1. 0 \in 0 .. QuickRetryMax
    BY FreshHandler
  <2> QED BY <2>1, ZenonT(40) DEF Handlers
<1>2. /\ t.pc = pc /\ t.hold = s.hold /\ t.bound = s.bound /\ t.tried = s.tried
      /\ t.account = a /\ t.round = s.round /\ t.late = s.late
  BY DEF Handlers
<1>3. EarlierRound(t) = EarlierRound(s)
  BY <1>2 DEF EarlierRound
<1> HIDE DEF t
<1>4. HandlerInv(t, n)
  BY <1>1, <1>2, <1>3 DEF HandlerInv
<1> QED BY <1>1, <1>4 DEF t

LEMMA NextRoundHandler ==
    ASSUME NEW s \in Handlers, NEW n \in Nat, HandlerInv(s, n), s.pc = "pick",
           NEW round \in BOOLEAN, s.round => round, ~s.late \/ (~s.round /\ round)
    PROVE  LET t == [s EXCEPT !.round = round, !.tried = {}]
           IN  t \in Handlers /\ HandlerInv(t, n)
<1> DEFINE t == [s EXCEPT !.round = round, !.tried = {}]
<1>1. t \in Handlers
  BY ZenonT(40) DEF Handlers
<1>2. /\ t.pc = "pick" /\ t.hold = s.hold /\ t.tried = {}
      /\ t.round = round /\ t.late = s.late
  BY DEF Handlers
<1>3. s.tried \in SUBSET Accounts
  BY DEF Handlers
<1> HIDE DEF t
<1>4. HandlerInv(t, n)
  <2>1. n <= EarlierRound(t) + Cardinality(t.tried)
    <3>1. CASE ~s.late
      <4>1. n = 0
        BY <3>1 DEF HandlerInv
      <4> QED BY <4>1, <1>2, TriedCounts DEF EarlierRound
    <3>2. CASE ~s.round /\ round
      <4>1. n <= Cardinality(s.tried)
        BY <3>2, <1>3, TriedCounts DEF HandlerInv, EarlierRound
      <4> QED BY <4>1, <3>2, <1>2, <1>3, TriedCounts DEF EarlierRound
    <3> QED BY <3>1, <3>2
  <2> QED BY <1>1, <1>2, <2>1 DEF HandlerInv
<1> QED BY <1>1, <1>4 DEF t

LEMMA SetKeeps ==
    ASSUME LoopInv, Observe, RoutesOK, NEW r \in ProxyRequests, UNCHANGED lateSends,
           NEW t, t \in Handlers /\ HandlerInv(t, lateSends[r]), Set(r, t)
    PROVE  LoopInv'
<1>1. lateSends[r] \in Nat /\ lateSends' = [lateSends EXCEPT ![r] = lateSends[r]]
  BY DEF LoopInv, ProxyTypeOK
<1>2. Becomes(r, t, lateSends[r])
  BY <1>1, ZenonT(40) DEF Becomes, Set
<1> QED BY <1>2, BecomesKeeps

LEMMA EjectOK ==
    ASSUME LoopInv, NEW a \in Accounts, Eject(a), UNCHANGED <<enabled, recovering>>
    PROVE  RoutesOK
  BY DEF LoopInv, ProxyTypeOK, Eject, RoutesOK

\* Failing over or answering keeps the invariant.
LEMMA CrossKeeps ==
    ASSUME LoopInv, Observe, RoutesOK, NEW r \in ProxyRequests, UNCHANGED lateSends,
           req[r].pc \in {"send", "react"}, NEW retryable \in BOOLEAN, NEW x \in Answers,
           CrossOrAnswer(r, retryable, x)
    PROVE  LoopInv'
<1>1. req[r] \in Handlers /\ lateSends[r] \in Nat /\ HandlerInv(req[r], lateSends[r])
  BY DEF LoopInv, ProxyTypeOK
<1>2. CASE MayCross(r, retryable) /\ FailOver(r)
  BY <1>1, <1>2, FailedOverHandler, SetKeeps, ZenonT(40) DEF MayCross, FailOver
<1>3. CASE Set(r, Answered(req[r], x))
  BY <1>1, <1>3, AnsweredHandler, SetKeeps
<1> QED BY <1>2, <1>3 DEF CrossOrAnswer

LEMMA RetryKeeps ==
    ASSUME LoopInv, Observe, RoutesOK, NEW r \in ProxyRequests, UNCHANGED lateSends,
           req[r].pc \in {"send", "react"}, req[r].attempt < QuickRetryMax, ~req[r].late,
           RetrySame(r)
    PROVE  LoopInv'
<1>1. req[r] \in Handlers /\ lateSends[r] \in Nat /\ HandlerInv(req[r], lateSends[r])
  BY DEF LoopInv, ProxyTypeOK
<1> QED BY <1>1, RetriedHandler, SetKeeps, ZenonT(40) DEF RetrySame

LEMMA PickKeeps ==
    ASSUME LoopInv, Observe, NEW r \in ProxyRequests, PickAccount(r)
    PROVE  LoopInv'
<1> DEFINE s == req[r]
<1>1. s \in Handlers /\ lateSends[r] \in Nat /\ HandlerInv(s, lateSends[r])
  BY DEF LoopInv, ProxyTypeOK
<1>2. RoutesOK /\ UNCHANGED lateSends /\ s.pc = "pick"
  BY ZenonT(40) DEF LoopInv, ProxyTypeOK, PickAccount, RoutesOK, RequestAt
<1>3. CASE s.bound # NoAccount /\ Set(r, [s EXCEPT !.pc = "authorize", !.account = s.bound, !.attempt = 0])
  <2>1. s.bound \in Accounts \ s.tried
    BY <1>1, <1>3, ProxyAssumption DEF HandlerInv, Handlers
  <2>2. LET t == [s EXCEPT !.pc = "authorize", !.account = s.bound, !.attempt = 0]
        IN  t \in Handlers /\ HandlerInv(t, lateSends[r])
    BY <2>1, <1>1, <1>2, PickedHandler, ZenonT(40)
  <2> QED BY <2>2, <1>2, <1>3, SetKeeps
<1>4. CASE Set(r, Answered(s, "missing"))
  BY <1>1, <1>2, <1>4, AnsweredHandler, SetKeeps DEF Answers
<1>5. ASSUME NEW a \in ProxyRoutable \ s.tried, s.bound = NoAccount,
             Set(r, [s EXCEPT !.pc = "check", !.account = a, !.attempt = 0])
      PROVE  LoopInv'
  <2>1. a \in Accounts \ s.tried
    BY <1>5 DEF ProxyRoutable, LoopInv, ProxyTypeOK
  <2>2. LET t == [s EXCEPT !.pc = "check", !.account = a, !.attempt = 0]
        IN  t \in Handlers /\ HandlerInv(t, lateSends[r])
    BY <2>1, <1>1, <1>2, <1>5, PickedHandler, ZenonT(40)
  <2> QED BY <2>2, <1>2, <1>5, SetKeeps
<1>6. CASE NoRoute(r)
  <2>1. CASE ~s.round /\ Set(r, [s EXCEPT !.round = TRUE, !.tried = {}])
    <3>1. LET t == [s EXCEPT !.round = TRUE, !.tried = {}]
          IN  t \in Handlers /\ HandlerInv(t, lateSends[r])
      BY <2>1, <1>1, <1>2, NextRoundHandler, ZenonT(40)
    <3> QED BY <3>1, <1>2, <2>1, SetKeeps
  <2>2. CASE ~s.late /\ Set(r, [s EXCEPT !.tried = {}])
    <3>1. [s EXCEPT !.tried = {}] = [s EXCEPT !.round = s.round, !.tried = {}] /\ s.round \in BOOLEAN
      BY <1>1, ZenonT(40) DEF Handlers
    <3>2. LET t == [s EXCEPT !.round = s.round, !.tried = {}]
          IN  t \in Handlers /\ HandlerInv(t, lateSends[r])
      BY <2>2, <3>1, <1>1, <1>2, NextRoundHandler, ZenonT(40)
    <3> QED BY <3>1, <3>2, <1>2, <2>2, SetKeeps
  <2>3. CASE Set(r, Answered(s, "failed"))
    BY <1>1, <1>2, <2>3, AnsweredHandler, SetKeeps DEF Answers
  <2> QED BY <1>6, <2>1, <2>2, <2>3 DEF NoRoute
<1> QED BY <1>3, <1>4, <1>5, <1>6, ZenonT(40) DEF PickAccount

LEMMA CheckKeeps ==
    ASSUME LoopInv, Observe, NEW r \in ProxyRequests, CheckSharedCache(r)
    PROVE  LoopInv'
<1> DEFINE s == req[r]
           back == [s EXCEPT !.pc = "pick", !.tried = @ \cup {s.account}]
           on == [s EXCEPT !.pc = "authorize"]
<1>1. s \in Handlers /\ lateSends[r] \in Nat /\ HandlerInv(s, lateSends[r])
  BY DEF LoopInv, ProxyTypeOK
<1>2. UNCHANGED lateSends /\ s.pc = "check"
  BY DEF CheckSharedCache, RequestAt
<1>3. s.account \in Accounts \ s.tried /\ s.tried \in SUBSET Accounts /\ s.hold # "held"
  BY <1>1, <1>2 DEF HandlerInv, Handlers
<1>4. RoutesOK
  BY <1>3 DEF LoopInv, ProxyTypeOK, CheckSharedCache, RoutesOK
<1>5. CASE Set(r, back)
  <2>1. back \in Handlers
    BY <1>1, <1>3, ZenonT(40) DEF Handlers
  <2>2. /\ back.pc = "pick" /\ back.hold = s.hold /\ back.bound = s.bound /\ back.late = s.late
        /\ back.tried = s.tried \cup {s.account} /\ back.round = s.round
    BY <1>1 DEF Handlers
  <2> HIDE DEF back
  <2>3. Cardinality(back.tried) = Cardinality(s.tried) + 1 /\ Cardinality(s.tried) \in Nat
        /\ EarlierRound(back) = EarlierRound(s) /\ EarlierRound(s) \in Nat
    BY <1>3, <2>2, TriedCounts DEF EarlierRound
  <2>4. HandlerInv(back, lateSends[r])
    BY <1>1, <1>2, <1>3, <2>1, <2>2, <2>3 DEF HandlerInv
  <2> QED BY <2>1, <2>4, <1>2, <1>4, <1>5, SetKeeps DEF back
<1>6. CASE Set(r, on)
  <2>1. on \in Handlers
    BY <1>1 DEF Handlers
  <2>2. /\ on.pc = "authorize" /\ on.hold = s.hold /\ on.bound = s.bound /\ on.late = s.late
        /\ on.tried = s.tried /\ on.round = s.round /\ on.account = s.account
    BY <1>1 DEF Handlers
  <2>3. HandlerInv(on, lateSends[r])
    BY <1>1, <1>2, <2>1, <2>2 DEF HandlerInv, EarlierRound
  <2> QED BY <2>1, <2>3, <1>2, <1>4, <1>6, SetKeeps
<1> QED BY <1>5, <1>6 DEF CheckSharedCache

LEMMA AuthorizeKeeps ==
    ASSUME LoopInv, Observe, NEW r \in ProxyRequests, Authorize(r)
    PROVE  LoopInv'
<1> DEFINE s == req[r]
           t == [s EXCEPT !.pc = "send", !.hold = "held"]
           n == lateSends[r]
           m == IF s.late THEN n + 1 ELSE n
<1>1. s \in Handlers /\ n \in Nat /\ HandlerInv(s, n) /\ lateSends \in [ProxyRequests -> Nat]
      /\ req \in [ProxyRequests -> Handlers]
  BY DEF LoopInv, ProxyTypeOK
<1>2. RoutesOK /\ s.pc = "authorize"
  BY DEF LoopInv, ProxyTypeOK, Authorize, RoutesOK, RequestAt
<1>3. CASE Set(r, t)
  <2>1. t \in Handlers
    BY <1>1, ZenonT(40) DEF Handlers
  <2>2. /\ t.pc = "send" /\ t.bound = s.bound /\ t.late = s.late
        /\ t.tried = s.tried /\ t.round = s.round /\ t.account = s.account
    BY <1>1 DEF Handlers
  <2>3. req'[r] = t
    BY <1>1, <1>3 DEF Set
  <2> HIDE DEF t
  <2>4. m \in Nat /\ lateSends' = [lateSends EXCEPT ![r] = m]
    <3>1. lateSends' = IF s.late THEN [lateSends EXCEPT ![r] = @ + 1] ELSE lateSends
      BY <2>2, <2>3 DEF Authorize
    <3>2. CASE s.late
      BY <3>1, <3>2, <1>1
    <3>3. CASE ~s.late
      <4>1. m = n /\ lateSends' = lateSends
        BY <3>1, <3>3
      <4> QED BY <4>1, <1>1
    <3> QED BY <3>2, <3>3
  <2>5. s.account \in Accounts \ s.tried /\ s.tried \in SUBSET Accounts /\ s.round \in BOOLEAN
    BY <1>1, <1>2 DEF HandlerInv, Handlers
  <2>6. EarlierRound(t) = EarlierRound(s) /\ EarlierRound(s) \in Nat
        /\ EarlierRound(s) <= Cardinality(Accounts)
    BY <2>2, <2>5, TriedCounts DEF EarlierRound
  <2>7. /\ Cardinality(s.tried) \in Nat /\ Cardinality(Accounts) \in Nat
        /\ Cardinality(s.tried) + 1 <= Cardinality(Accounts)
    BY <2>5, TriedCounts, ZenonT(40)
  <2>8. n <= EarlierRound(s) + Cardinality(s.tried)
    BY <1>1, <1>2 DEF HandlerInv
  <2>9. m <= EarlierRound(s) + Cardinality(s.tried) + 1 /\ m <= 2 * Cardinality(Accounts)
    BY <1>1, <2>6, <2>7, <2>8
  <2>10. ~s.late => m = 0
    BY <1>1, <1>2 DEF HandlerInv
  <2>11. s.bound # NoAccount => s.tried = {}
    BY <1>1 DEF HandlerInv
  <2> HIDE DEF m
  <2>12. HandlerInv(t, m)
    BY <2>2, <2>5, <2>6, <2>9, <2>10, <2>11 DEF HandlerInv
  <2>13. Becomes(r, t, m)
    BY <1>3, <2>1, <2>4, <2>12 DEF Becomes, Set
  <2> QED BY <1>2, <2>13, BecomesKeeps
<1>4. ASSUME NEW x \in {"url", "ok", "billing"}, Set(r, Answered(s, x))
      PROVE  LoopInv'
  <2>1. Answered(s, x) \in Handlers /\ HandlerInv(Answered(s, x), n)
    BY <1>1, AnsweredHandler DEF Answers
  <2>2. req'[r] = Answered(s, x) /\ Answered(s, x).pc = "answered"
    BY <1>1, <1>4 DEF Set, Answered, Fresh
  <2>3. UNCHANGED lateSends
    BY <2>2 DEF Authorize
  <2> QED BY <2>1, <2>3, <1>2, <1>4, SetKeeps
<1> QED BY <1>3, <1>4 DEF Authorize

LEMMA SendKeeps ==
    ASSUME LoopInv, Observe, NEW r \in ProxyRequests,
           \/ ProxyUnavailable(r) \/ TransportError(r) \/ Succeed(r) \/ BridgedStreamIncomplete(r)
           \/ \E f \in Failures : ReceiveFailure(r, f)
    PROVE  LoopInv'
<1> DEFINE s == req[r]
<1>1. s \in Handlers /\ lateSends[r] \in Nat /\ HandlerInv(s, lateSends[r])
  BY DEF LoopInv, ProxyTypeOK
<1>2. s.pc = "send" /\ UNCHANGED lateSends
  BY ZenonT(40) DEF ProxyUnavailable, TransportError, Succeed, BridgedStreamIncomplete, ReceiveFailure,
                  RequestAt
<1>3. s.account \in Accounts
  BY <1>1, <1>2 DEF HandlerInv
<1>4. CASE ProxyUnavailable(r)
  <2>1. RoutesOK
    BY <1>4 DEF ProxyUnavailable, LoopInv, ProxyTypeOK, RoutesOK
  <2>2. CASE s.attempt < QuickRetryMax /\ ~s.late /\ RetrySame(r)
    BY <1>2, <2>1, <2>2, RetryKeeps
  <2>3. CASE Set(r, Answered(s, "proxy"))
    BY <1>1, <1>2, <2>1, <2>3, AnsweredHandler, SetKeeps DEF Answers
  <2> QED BY <1>4, <2>2, <2>3 DEF ProxyUnavailable
<1>5. CASE TransportError(r)
  <2>1. CASE s.attempt < QuickRetryMax /\ ~s.late /\ RetrySame(r) /\ UNCHANGED <<penalised, sharedBad>>
    <3>1. RoutesOK
      BY <1>5, <2>1 DEF TransportError, LoopInv, ProxyTypeOK, RoutesOK
    <3> QED BY <3>1, <1>2, <2>1, RetryKeeps
  <2>2. CASE Eject(s.account) /\ CrossOrAnswer(r, TRUE, "failed")
    <3>1. RoutesOK
      BY <1>3, <1>5, <2>2, EjectOK DEF TransportError
    <3> QED BY <3>1, <1>2, <2>2, CrossKeeps, ZenonT(40) DEF Answers
  <2> QED BY <1>5, <2>1, <2>2, ZenonT(40) DEF TransportError
<1>6. CASE Succeed(r) \/ BridgedStreamIncomplete(r)
  <2>1. RoutesOK
    BY <1>6, ZenonT(40) DEF Succeed, BridgedStreamIncomplete, LoopInv, ProxyTypeOK, RoutesOK
  <2>2. PICK h \in {"settled", "stream"}, x \in {"ok", "bridged"} :
            Set(r, Answered([s EXCEPT !.hold = h], x))
    BY <1>6, ZenonT(40) DEF Succeed, BridgedStreamIncomplete
  <2> DEFINE t == [s EXCEPT !.hold = h]
  <2>3. t \in Handlers
    BY <1>1 DEF Handlers
  <2>4. /\ t.pc = "send" /\ t.bound = s.bound /\ t.late = s.late /\ t.hold = h
        /\ t.tried = s.tried /\ t.round = s.round /\ t.account = s.account
    BY <1>1, <1>2 DEF Handlers
  <2>5. HandlerInv(t, lateSends[r])
    BY <1>1, <1>2, <2>4 DEF HandlerInv, EarlierRound
  <2> HIDE DEF t
  <2>6. Answered(t, x) \in Handlers /\ HandlerInv(Answered(t, x), lateSends[r])
    BY <1>1, <2>3, <2>5, AnsweredHandler DEF Answers
  <2>7. Set(r, Answered(t, x))
    BY <2>2 DEF t
  <2> QED BY <1>2, <2>1, <2>6, <2>7, SetKeeps
<1>7. ASSUME NEW f \in Failures, ReceiveFailure(r, f)
      PROVE  LoopInv'
  <2>1. RoutesOK
    BY <1>7, ZenonT(40) DEF ReceiveFailure, LoopInv, ProxyTypeOK, RoutesOK
  <2> DEFINE t == [s EXCEPT !.pc = "react", !.failure = f]
  <2>2. t \in Handlers
    BY <1>1, ZenonT(40) DEF Handlers
  <2>3. /\ t.pc = "react" /\ t.bound = s.bound /\ t.late = s.late /\ t.hold = s.hold
        /\ t.tried = s.tried /\ t.round = s.round /\ t.account = s.account
    BY <1>1 DEF Handlers
  <2>4. HandlerInv(t, lateSends[r])
    BY <1>1, <1>2, <2>3 DEF HandlerInv, EarlierRound
  <2>5. Set(r, t)
    BY <1>7, ZenonT(40) DEF ReceiveFailure
  <2> QED BY <1>2, <2>1, <2>2, <2>4, <2>5, SetKeeps
<1> QED BY <1>4, <1>5, <1>6, <1>7

LEMMA ReplyOK == \A e : IsFailoverRetryable(e) \in BOOLEAN /\ Reply(e) \in Answers
  BY DEF IsFailoverRetryable, Reply, Answers, AllowCross

LEMMA ReactKeeps ==
    ASSUME LoopInv, Observe, NEW r \in ProxyRequests,
           StreamPreludeError(r) \/ UpstreamError(r)
    PROVE  LoopInv'
<1> DEFINE s == req[r]
           e == s.failure.context
<1>1. s \in Handlers /\ lateSends[r] \in Nat /\ HandlerInv(s, lateSends[r])
  BY DEF LoopInv, ProxyTypeOK
<1>2. s.pc = "react" /\ UNCHANGED <<lateSends, enabled>>
  BY DEF StreamPreludeError, UpstreamError, RequestAt
<1>3. s.account \in Accounts
  BY <1>1, <1>2 DEF HandlerInv
<1>4. RoutesOK
  <2>1. CASE StreamPreludeError(r)
    BY <1>3, <2>1 DEF StreamPreludeError, Eject, LoopInv, ProxyTypeOK, RoutesOK
  <2>2. CASE UpstreamError(r)
    <3>1. penalised' \subseteq Accounts /\ sharedBad' \subseteq Accounts
      BY <1>3, <2>2 DEF UpstreamError, Eject, LoopInv, ProxyTypeOK
    <3>2. recovering' \subseteq Accounts
      BY <1>3, <2>2 DEF UpstreamError, LoopInv, ProxyTypeOK
    <3> QED BY <3>1, <3>2, <1>2, SMTT(30) DEF RoutesOK, LoopInv, ProxyTypeOK
  <2> QED BY <2>1, <2>2
<1>5. CASE ShouldRetrySameAccount(e, s.attempt) /\ ~s.late /\ RetrySame(r)
  BY <1>2, <1>4, <1>5, RetryKeeps DEF ShouldRetrySameAccount
<1>6. CASE CrossOrAnswer(r, IsFailoverRetryable(e), Reply(e))
  BY <1>2, <1>4, <1>6, ReplyOK, CrossKeeps
<1> QED BY <1>5, <1>6 DEF StreamPreludeError, UpstreamError

\* Every step of the data plane keeps the invariant of the loop.
LEMMA LoopStep == LoopInv /\ [ProxyNext]_proxyRequestVars => LoopInv'
<1> SUFFICES ASSUME LoopInv, [ProxyNext]_proxyRequestVars PROVE LoopInv'
  OBVIOUS
<1>1. CASE UNCHANGED proxyRequestVars
  BY <1>1 DEF proxyRequestVars, LoopInv, ProxyTypeOK
<1>2. ASSUME NEW r \in ProxyRequests, Step(r)
      PROVE  LoopInv'
  BY <1>2, PickKeeps, CheckKeeps, AuthorizeKeeps, SendKeeps, ReactKeeps DEF Step
<1>3. ASSUME NEW r \in ProxyRequests, Observe, HangUp(r) \/ PassDeadline(r) \/ \E b \in Bindings : StartRequest(r, b)
      PROVE  LoopInv'
  <2> DEFINE s == req[r]
  <2>1. s \in Handlers /\ lateSends[r] \in Nat /\ HandlerInv(s, lateSends[r])
    BY DEF LoopInv, ProxyTypeOK
  <2>2. RoutesOK /\ UNCHANGED lateSends
    BY <1>3, ZenonT(40) DEF HangUp, PassDeadline, StartRequest, LoopInv, ProxyTypeOK, RoutesOK
  <2>3. CASE HangUp(r)
    BY <1>3, <2>1, <2>2, <2>3, GoneHandler, SetKeeps, ZenonT(40) DEF HangUp
  <2>4. CASE PassDeadline(r)
    <3>1. Set(r, [s EXCEPT !.late = TRUE]) /\ ~s.late /\ s.pc \notin {"idle", "answered", "gone"}
      BY <2>4 DEF PassDeadline, Set, Active
    <3> QED BY <3>1, <1>3, <2>1, <2>2, LateHandler, SetKeeps
  <2>5. ASSUME NEW b \in Bindings, StartRequest(r, b)
        PROVE  LoopInv'
    <3>1. lateSends[r] = 0
      <4>1. s = Fresh
        BY <2>1, <2>5 DEF StartRequest, RequestAt, HandlerInv
      <4> QED BY <4>1, <2>1 DEF HandlerInv, Fresh
    <3> QED BY <3>1, <1>3, <2>2, <2>5, StartedHandler, SetKeeps, ZenonT(40) DEF StartRequest
  <2> QED BY <1>3, <2>3, <2>4, <2>5
<1>4. ASSUME NEW a \in Accounts, Observe,
             FinishRecovery(a) \/ ExpirePenalty(a) \/ SharedCacheChanges(a) \/ ApplySnapshot(a)
      PROVE  LoopInv'
  <2>1. UNCHANGED <<req, lateSends>>
    BY <1>4 DEF FinishRecovery, ExpirePenalty, SharedCacheChanges, ApplySnapshot
  <2>2. RoutesOK
    BY <1>4 DEF FinishRecovery, ExpirePenalty, SharedCacheChanges, ApplySnapshot,
                LoopInv, ProxyTypeOK, RoutesOK
  <2> QED BY <1>4, <2>1, <2>2, RestKeeps
<1> QED BY <1>1, <1>2, <1>3, <1>4 DEF ProxyNext, Environment, Tick

LEMMA LoopStarts == ProxyInit => LoopInv
<1> SUFFICES ASSUME ProxyInit PROVE LoopInv
  OBVIOUS
<1>1. ProxyTypeOK
  BY FreshHandler, SMTT(30) DEF ProxyInit, ProxyTypeOK
<1>2. HandlerInv(Fresh, 0)
  BY TriedCounts DEF HandlerInv, Fresh, EarlierRound
<1> QED BY <1>1, <1>2 DEF ProxyInit, LoopInv

\* A request that looks for an account or has been answered holds no credits,
\* whatever errors, retries, failovers and disconnects came before.
THEOREM HoldsNeverForgotten == ProxySafetySpec => []NoHoldIsForgotten
<1>1. LoopInv => NoHoldIsForgotten
  BY DEF LoopInv, HandlerInv, NoHoldIsForgotten, RequestAt
<1> QED BY <1>1, LoopStarts, LoopStep, PTL DEF ProxySafetySpec

\* After its deadline a request sends to each account at most twice, although
\* neither the failover nor the extra round looks at the deadline.
THEOREM LateAttemptsAreBounded == ProxySafetySpec => []LateAttemptsBounded
<1>1. LoopInv => LateAttemptsBounded
  BY DEF LoopInv, HandlerInv, LateAttemptsBounded
<1> QED BY <1>1, LoopStarts, LoopStep, PTL DEF ProxySafetySpec

\* The accounts a request has spared so far are routable, untried and not the
\* one it is sending to; a request that failed has spared none.
SparedAt(r) ==
    /\ Active(r) => spared[r] \subseteq ProxyRoutable /\ spared[r] \cap req[r].tried = {}
    /\ req[r].pc \in {"send", "react"} => req[r].account \notin spared[r]
    /\ (Failover /\ r \notin missed /\ req[r].pc = "answered" /\ req[r].bound = NoAccount
          /\ req[r].answer = "failed") => spared[r] = {}

SparedInv == \A r \in ProxyRequests : SparedAt(r)

\* What a step of r has to show for SparedAt(r).
Spares(r, t) ==
    /\ req'[r] = t /\ t.pc # "idle"
    /\ t.pc \notin {"answered", "gone"} => spared'[r] \cap t.tried = {}
    /\ t.pc = "react" => t.account \notin spared'[r]
    /\ (Failover /\ r \notin missed' /\ t.pc = "answered" /\ t.bound = NoAccount
          /\ t.answer = "failed") => spared'[r] = {}

\* What a step of another request or of the environment leaves to q.
LeavesAlone(q) == req'[q] = req[q] /\ (q \in missed => q \in missed')

LEMMA ActiveObserves ==
    ASSUME SparedInv, Observe, NEW r \in ProxyRequests, Active(r), req'[r].pc # "idle"
    PROVE  /\ spared'[r] \subseteq spared[r]
           /\ spared'[r] \subseteq enabled' \ penalised'
           /\ req'[r].pc = "send" => req'[r].account \notin spared'[r]
  BY DEF Observe, Active

\* The answers of a request are not mistaken for each other.
LEMMA AnsweredFields ==
    ASSUME NEW s \in Handlers, NEW x \in Answers
    PROVE  Answered(s, x).pc = "answered" /\ Answered(s, x).answer = x /\ Answered(s, x).bound = s.bound
  BY DEF Answered, Fresh

\* Failing over leaves the account tried; answering "failed" leaves no account
\* spared, since no candidate was left or the pick missed it.
LEMMA CrossSpares ==
    ASSUME LoopInv, SparedInv, Observe, NEW r \in ProxyRequests,
           req[r].pc \in {"send", "react"}, NEW retryable \in BOOLEAN, NEW x \in Answers,
           x = "failed" => retryable,
           CrossOrAnswer(r, retryable, x)
    PROVE  \E t : Spares(r, t)
<1> DEFINE s == req[r]
           over == [s EXCEPT !.pc = "pick", !.tried = @ \cup {s.account},
                             !.hold = "none", !.failure = NoFailure]
<1>1. s \in Handlers /\ req \in [ProxyRequests -> Handlers]
  BY DEF LoopInv, ProxyTypeOK
<1>2. Active(r) /\ s.account \notin spared[r] /\ spared[r] \cap s.tried = {}
      /\ spared[r] \subseteq ProxyRoutable
  BY DEF SparedInv, SparedAt, Active
<1>3. CASE FailOver(r)
  <2>1. req'[r] = over
    BY <1>1, <1>3 DEF FailOver, Set
  <2>2. over.pc = "pick" /\ over.tried = s.tried \cup {s.account}
    BY <1>1 DEF Handlers
  <2> HIDE DEF over
  <2>3. spared'[r] \subseteq spared[r]
    BY <1>2, <2>1, <2>2, ActiveObserves
  <2> QED BY <1>2, <2>1, <2>2, <2>3 DEF Spares
<1>4. CASE /\ Set(r, Answered(s, x))
           /\ MayCross(r, retryable) => NothingFound(r, ProxyCandidates(r))
  <2> DEFINE t == Answered(s, x)
  <2>1. req'[r] = t
    BY <1>1, <1>4 DEF Set
  <2>2. t.pc = "answered" /\ t.answer = x /\ t.bound = s.bound
    BY <1>1, AnsweredFields
  <2> HIDE DEF t
  <2>3. spared'[r] \subseteq spared[r]
    BY <1>2, <2>1, <2>2, ActiveObserves
  <2>4. Failover /\ r \notin missed' /\ s.bound = NoAccount /\ x = "failed" => spared'[r] = {}
    <3> SUFFICES ASSUME Failover, r \notin missed', s.bound = NoAccount, x = "failed"
                 PROVE  spared'[r] = {}
      OBVIOUS
    <3>1. ProxyCandidates(r) = {}
      <4>1. NothingFound(r, ProxyCandidates(r))
        BY <1>4 DEF MayCross
      <4> QED BY <4>1, <2>1, <2>2, ZenonT(40) DEF NothingFound
    <3>2. spared[r] \subseteq ProxyCandidates(r)
      BY <1>2 DEF ProxyCandidates
    <3> QED BY <3>1, <3>2, <2>3
  <2> QED BY <2>1, <2>2, <2>4 DEF Spares
<1> QED BY <1>3, <1>4, ZenonT(40) DEF CrossOrAnswer

LEMMA RetrySpares ==
    ASSUME LoopInv, SparedInv, Observe, NEW r \in ProxyRequests, Active(r), RetrySame(r)
    PROVE  \E t : Spares(r, t)
<1> DEFINE s == req[r]
           t == [s EXCEPT !.pc = "authorize", !.attempt = @ + 1, !.failure = NoFailure]
<1>1. s \in Handlers /\ req' = [req EXCEPT ![r] = t] /\ req'[r] = t
  BY DEF LoopInv, ProxyTypeOK, RetrySame, Set
<1>2. t.pc = "authorize" /\ t.tried = s.tried
  BY <1>1 DEF Handlers
<1> HIDE DEF t
<1>3. spared'[r] \subseteq spared[r]
  BY <1>1, <1>2, ActiveObserves
<1> QED BY <1>1, <1>2, <1>3 DEF Spares, SparedInv, SparedAt

LEMMA PickSpares ==
    ASSUME LoopInv, SparedInv, Observe, NEW r \in ProxyRequests,
           PickAccount(r)
    PROVE  \E t : Spares(r, t)
<1> DEFINE s == req[r]
<1>1. s \in Handlers /\ req \in [ProxyRequests -> Handlers]
  BY DEF LoopInv, ProxyTypeOK
<1>2. s.pc = "pick" /\ Active(r) /\ spared[r] \cap s.tried = {} /\ spared[r] \subseteq ProxyRoutable
  BY ZenonT(40) DEF PickAccount, RequestAt, Active, SparedInv, SparedAt
<1>3. ASSUME NEW pc \in {"check", "authorize"}, NEW a,
             Set(r, [s EXCEPT !.pc = pc, !.account = a, !.attempt = 0])
      PROVE  \E t : Spares(r, t)
  <2> DEFINE t == [s EXCEPT !.pc = pc, !.account = a, !.attempt = 0]
  <2>1. req'[r] = t /\ t.pc = pc /\ t.tried = s.tried
    BY <1>1, <1>3 DEF Set, Handlers
  <2> HIDE DEF t
  <2>2. spared'[r] \subseteq spared[r]
    BY <1>2, <2>1, ActiveObserves
  <2> QED BY <1>2, <2>1, <2>2 DEF Spares
<1>4. CASE s.bound # NoAccount /\ Set(r, Answered(s, "missing"))
  <2>1. req'[r] = Answered(s, "missing") /\ "missing" \in Answers
    BY <1>1, <1>4 DEF Set, Answers
  <2> QED BY <1>1, <2>1, AnsweredFields DEF Spares
<1>5. ASSUME NEW round, Set(r, [s EXCEPT !.round = round, !.tried = {}])
      PROVE  \E t : Spares(r, t)
  <2> DEFINE t == [s EXCEPT !.round = round, !.tried = {}]
  <2>1. req'[r] = t /\ t.pc = "pick" /\ t.tried = {}
    BY <1>1, <1>2, <1>5 DEF Set, Handlers
  <2> QED BY <2>1, ZenonT(40) DEF Spares
<1>6. CASE Set(r, [s EXCEPT !.tried = {}])
  <2> DEFINE t == [s EXCEPT !.tried = {}]
  <2>1. req'[r] = t /\ t.pc = "pick" /\ t.tried = {}
    BY <1>1, <1>2, <1>6 DEF Set, Handlers
  <2> QED BY <2>1, ZenonT(40) DEF Spares
<1>7. CASE Set(r, Answered(s, "failed")) /\ NothingFound(r, ProxyRoutable \ s.tried)
  <2> DEFINE t == Answered(s, "failed")
  <2>1. req'[r] = t /\ "failed" \in Answers
    BY <1>1, <1>7 DEF Set, Answers
  <2>2. t.pc = "answered"
    BY <1>1, <2>1, AnsweredFields
  <2> HIDE DEF t
  <2>3. r \notin missed' => ProxyRoutable \ s.tried = {}
    BY <1>7, <2>1, <2>2, ZenonT(40) DEF NothingFound
  <2>4. spared'[r] \subseteq spared[r]
    BY <1>2, <2>1, <2>2, ActiveObserves
  <2> QED BY <1>2, <2>1, <2>2, <2>3, <2>4 DEF Spares
<1> QED BY <1>3, <1>4, <1>5, <1>6, <1>7, ZenonT(40) DEF PickAccount, NoRoute

LEMMA CheckSpares ==
    ASSUME LoopInv, SparedInv, Observe, NEW r \in ProxyRequests, CheckSharedCache(r)
    PROVE  \E t : Spares(r, t)
<1> DEFINE s == req[r]
           back == [s EXCEPT !.pc = "pick", !.tried = @ \cup {s.account}]
           on == [s EXCEPT !.pc = "authorize"]
<1>1. s \in Handlers /\ req \in [ProxyRequests -> Handlers]
  BY DEF LoopInv, ProxyTypeOK
<1>2. s.pc = "check" /\ Active(r) /\ spared[r] \cap s.tried = {}
  BY DEF CheckSharedCache, RequestAt, Active, SparedInv, SparedAt
<1>3. CASE s.account \in penalised' /\ Set(r, back)
  <2>1. req'[r] = back /\ back.pc = "pick" /\ back.tried = s.tried \cup {s.account}
    BY <1>1, <1>3 DEF Set, Handlers
  <2> HIDE DEF back
  <2>2. spared'[r] \subseteq spared[r] /\ spared'[r] \subseteq enabled' \ penalised'
    BY <1>2, <2>1, ActiveObserves
  <2> QED BY <1>2, <1>3, <2>1, <2>2 DEF Spares
<1>4. CASE Set(r, on)
  <2>1. req'[r] = on /\ on.pc = "authorize" /\ on.tried = s.tried
    BY <1>1, <1>4 DEF Set, Handlers
  <2> HIDE DEF on
  <2>2. spared'[r] \subseteq spared[r]
    BY <1>2, <2>1, ActiveObserves
  <2> QED BY <1>2, <2>1, <2>2 DEF Spares
<1> QED BY <1>3, <1>4 DEF CheckSharedCache

LEMMA AuthorizeSpares ==
    ASSUME LoopInv, SparedInv, Observe, NEW r \in ProxyRequests, Authorize(r)
    PROVE  \E t : Spares(r, t)
<1> DEFINE s == req[r]
           t == [s EXCEPT !.pc = "send", !.hold = "held"]
<1>1. s \in Handlers /\ req \in [ProxyRequests -> Handlers]
  BY DEF LoopInv, ProxyTypeOK
<1>2. s.pc = "authorize" /\ Active(r) /\ spared[r] \cap s.tried = {}
  BY DEF Authorize, RequestAt, Active, SparedInv, SparedAt
<1>3. CASE Set(r, t)
  <2>1. req'[r] = t /\ t.pc = "send" /\ t.tried = s.tried
    BY <1>1, <1>3 DEF Set, Handlers
  <2> HIDE DEF t
  <2>2. spared'[r] \subseteq spared[r]
    BY <1>2, <2>1, ActiveObserves
  <2> QED BY <1>2, <2>1, <2>2 DEF Spares
<1>4. ASSUME NEW x \in {"url", "ok", "billing"}, Set(r, Answered(s, x))
      PROVE  \E v : Spares(r, v)
  <2>1. req'[r] = Answered(s, x) /\ x \in Answers
    BY <1>1, <1>4 DEF Set, Answers
  <2> QED BY <1>1, <2>1, AnsweredFields DEF Spares
<1> QED BY <1>3, <1>4 DEF Authorize

LEMMA SendSpares ==
    ASSUME LoopInv, SparedInv, Observe, NEW r \in ProxyRequests,
           \/ ProxyUnavailable(r) \/ TransportError(r) \/ Succeed(r) \/ BridgedStreamIncomplete(r)
           \/ \E f \in Failures : ReceiveFailure(r, f)
           \/ StreamPreludeError(r) \/ UpstreamError(r)
    PROVE  \E t : Spares(r, t)
<1> DEFINE s == req[r]
           e == s.failure.context
<1>1. s \in Handlers /\ req \in [ProxyRequests -> Handlers]
  BY DEF LoopInv, ProxyTypeOK
<1>2. s.pc \in {"send", "react"} /\ Active(r) /\ s.account \notin spared[r]
      /\ spared[r] \cap s.tried = {}
  BY ZenonT(40) DEF ProxyUnavailable, TransportError, Succeed, BridgedStreamIncomplete, ReceiveFailure,
         StreamPreludeError,
         UpstreamError, RequestAt, Active, SparedInv, SparedAt
<1>3. CASE RetrySame(r)
  BY <1>2, <1>3, RetrySpares
<1>4. CASE CrossOrAnswer(r, TRUE, "failed")
  BY <1>2, <1>4, CrossSpares, ZenonT(40) DEF Answers
<1>5. CASE CrossOrAnswer(r, IsFailoverRetryable(e), Reply(e))
  <2>1. Reply(e) = "failed" => IsFailoverRetryable(e)
    BY DEF Reply
  <2> QED BY <2>1, <1>2, <1>5, ReplyOK, CrossSpares
<1>6. CASE Set(r, Answered(s, "proxy"))
  <2>1. req'[r] = Answered(s, "proxy") /\ "proxy" \in Answers
    BY <1>1, <1>6 DEF Set, Answers
  <2> QED BY <1>1, <2>1, AnsweredFields DEF Spares
<1>7. ASSUME NEW h \in {"settled", "stream"}, NEW x \in {"ok", "bridged"},
             Set(r, Answered([s EXCEPT !.hold = h], x))
      PROVE  \E t : Spares(r, t)
  <2> DEFINE v == [s EXCEPT !.hold = h]
  <2>1. v \in Handlers /\ x \in Answers
    BY <1>1 DEF Handlers, Answers
  <2>2. req'[r] = Answered(v, x)
    BY <1>1, <1>7 DEF Set
  <2> HIDE DEF v
  <2> QED BY <2>1, <2>2, AnsweredFields DEF Spares
<1>8. ASSUME NEW f \in Failures, Set(r, [s EXCEPT !.pc = "react", !.failure = f])
      PROVE  \E t : Spares(r, t)
  <2> DEFINE t == [s EXCEPT !.pc = "react", !.failure = f]
  <2>1. req'[r] = t /\ t.pc = "react" /\ t.tried = s.tried /\ t.account = s.account
    BY <1>1, <1>8 DEF Set, Handlers
  <2> HIDE DEF t
  <2>2. spared'[r] \subseteq spared[r]
    BY <1>2, <2>1, ActiveObserves
  <2> QED BY <1>2, <2>1, <2>2 DEF Spares
<1> QED BY <1>3, <1>4, <1>5, <1>6, <1>7, <1>8, ZenonT(40)
     DEF ProxyUnavailable, TransportError, Succeed, BridgedStreamIncomplete, ReceiveFailure,
         StreamPreludeError, UpstreamError

LEMMA AloneKeeps ==
    ASSUME SparedInv, Observe, NEW q \in ProxyRequests, LeavesAlone(q)
    PROVE  SparedAt(q)'
<1>1. CASE req[q].pc = "idle"
  BY <1>1 DEF SparedAt, LeavesAlone, Active
<1>2. CASE req[q].pc \in {"answered", "gone"}
  <2>1. spared'[q] = spared[q]
    BY <1>2 DEF Observe, LeavesAlone
  <2> QED BY <2>1, <1>2 DEF SparedInv, SparedAt, LeavesAlone, Active
<1>3. CASE Active(q)
  <2>1. spared'[q] \subseteq spared[q] /\ spared'[q] \subseteq enabled' \ penalised'
    BY <1>3, ActiveObserves DEF LeavesAlone, Active
  <2> QED BY <2>1, <1>3 DEF SparedInv, SparedAt, LeavesAlone, Active, ProxyRoutable
<1> QED BY <1>1, <1>2, <1>3 DEF Active

\* A step of an active request keeps SparedInv.
LEMMA SparesKeeps ==
    ASSUME SparedInv, Observe, NEW r \in ProxyRequests, Active(r), NEW t, Spares(r, t),
           \A q \in ProxyRequests \ {r} : LeavesAlone(q)
    PROVE  SparedInv'
<1>1. /\ spared'[r] \subseteq enabled' \ penalised'
      /\ spared'[r] \subseteq spared[r]
      /\ req'[r].pc = "send" => req'[r].account \notin spared'[r]
  BY ActiveObserves DEF Spares
<1>2. SparedAt(r)'
  BY <1>1 DEF SparedAt, Spares, Active, ProxyRoutable
<1>3. \A q \in ProxyRequests \ {r} : SparedAt(q)'
  BY AloneKeeps
<1> QED BY <1>2, <1>3 DEF SparedInv

\* No step of a request touches another.
LEMMA OthersLeftAlone ==
    ASSUME LoopInv, NEW r \in ProxyRequests,
           Step(r) \/ HangUp(r) \/ PassDeadline(r) \/ \E b \in Bindings : StartRequest(r, b)
    PROVE  \A q \in ProxyRequests \ {r} : LeavesAlone(q)
<1>1. missed \subseteq missed'
  BY ZenonT(40) DEF Step, HangUp, PassDeadline, StartRequest, PickAccount, CheckSharedCache, Authorize,
     ProxyUnavailable, TransportError, Succeed, BridgedStreamIncomplete, ReceiveFailure,
     StreamPreludeError, UpstreamError, CrossOrAnswer, NothingFound
<1>2. \E t : Set(r, t)
  <2>1. CASE PassDeadline(r)
    BY <2>1, ZenonT(40) DEF PassDeadline, Set
  <2>2. CASE Step(r) \/ HangUp(r) \/ \E b \in Bindings : StartRequest(r, b)
    BY <2>2, ZenonT(40) DEF Step, HangUp, StartRequest, PickAccount, NoRoute, CheckSharedCache, Authorize,
       ProxyUnavailable, TransportError, Succeed, BridgedStreamIncomplete, ReceiveFailure,
       StreamPreludeError, UpstreamError, CrossOrAnswer, RetrySame, FailOver
  <2> QED BY <2>1, <2>2
<1>3. req \in [ProxyRequests -> Handlers]
  BY DEF LoopInv, ProxyTypeOK
<1> QED BY <1>1, <1>2, <1>3 DEF Set, LeavesAlone

LEMMA SparedStep == LoopInv /\ SparedInv /\ [ProxyNext]_proxyRequestVars => SparedInv'
<1> SUFFICES ASSUME LoopInv, SparedInv, [ProxyNext]_proxyRequestVars PROVE SparedInv'
  OBVIOUS
<1>0. req \in [ProxyRequests -> Handlers]
  BY DEF LoopInv, ProxyTypeOK
<1>1. CASE UNCHANGED proxyRequestVars
  BY <1>1 DEF proxyRequestVars, SparedInv, SparedAt, Active, ProxyRoutable
<1>2. ASSUME NEW r \in ProxyRequests, Step(r)
      PROVE  SparedInv'
  <2>1. Active(r)
    BY <1>2, ZenonT(40) DEF Step, PickAccount, CheckSharedCache, Authorize, ProxyUnavailable, TransportError,
                Succeed, BridgedStreamIncomplete, ReceiveFailure, StreamPreludeError, UpstreamError, RequestAt, Active
  <2>2. \E t : Spares(r, t)
    BY <1>2, PickSpares, CheckSpares, AuthorizeSpares, SendSpares DEF Step
  <2> QED BY <1>2, <2>1, <2>2, OthersLeftAlone, SparesKeeps DEF Step
<1>3. ASSUME NEW r \in ProxyRequests, Observe, HangUp(r) \/ PassDeadline(r)
      PROVE  SparedInv'
  <2>1. Active(r)
    BY <1>3 DEF HangUp, PassDeadline
  <2>2. CASE HangUp(r)
    <3> DEFINE t == [Fresh EXCEPT !.pc = "gone", !.hold = req[r].hold]
    <3>1. req'[r] = t /\ t.pc = "gone"
      BY <1>0, <2>2 DEF HangUp, Set, Fresh
    <3>2. Spares(r, t)
      BY <3>1 DEF Spares
    <3> QED BY <1>3, <2>1, <3>2, OthersLeftAlone, SparesKeeps
  <2>3. CASE PassDeadline(r)
    <3> DEFINE s == req[r]
               t == [s EXCEPT !.late = TRUE]
    <3>1. req'[r] = t /\ t.pc = s.pc /\ t.tried = s.tried /\ t.account = s.account
      BY <1>0, <2>3 DEF PassDeadline, Handlers
    <3> HIDE DEF t
    <3>2. s.pc \notin {"idle", "answered", "gone"}
      BY <2>1 DEF Active
    <3>3. spared'[r] \subseteq spared[r]
      BY <1>3, <2>1, <3>1, <3>2, ActiveObserves
    <3>4. Spares(r, t)
      BY <3>1, <3>2, <3>3 DEF Spares, SparedInv, SparedAt, Active
    <3> QED BY <1>3, <2>1, <3>4, OthersLeftAlone, SparesKeeps
  <2> QED BY <1>3, <2>2, <2>3
<1>4. ASSUME NEW r \in ProxyRequests, Observe, NEW b \in Bindings, StartRequest(r, b)
      PROVE  SparedInv'
  <2> DEFINE t == [Fresh EXCEPT !.pc = "pick", !.bound = b]
  <2>1. req[r].pc = "idle" /\ req'[r] = t /\ t.pc = "pick" /\ t.tried = {}
    BY <1>0, <1>4 DEF StartRequest, RequestAt, Set, Fresh
  <2> HIDE DEF t
  <2>2. spared'[r] = enabled' \ penalised'
    BY <1>4, <2>1 DEF Observe
  <2>3. SparedAt(r)'
    BY <2>1, <2>2 DEF SparedAt, Active, ProxyRoutable
  <2>4. \A q \in ProxyRequests \ {r} : SparedAt(q)'
    BY <1>4, OthersLeftAlone, AloneKeeps
  <2> QED BY <2>3, <2>4 DEF SparedInv
<1>5. ASSUME NEW a \in Accounts, Observe,
             FinishRecovery(a) \/ ExpirePenalty(a) \/ SharedCacheChanges(a) \/ ApplySnapshot(a)
      PROVE  SparedInv'
  <2>1. \A q \in ProxyRequests : LeavesAlone(q)
    BY <1>5 DEF FinishRecovery, ExpirePenalty, SharedCacheChanges, ApplySnapshot, LeavesAlone
  <2> QED BY <2>1, <1>5, AloneKeeps DEF SparedInv
<1> QED BY <1>1, <1>2, <1>3, <1>4, <1>5 DEF ProxyNext, Environment, Tick

\* A request that fails has sent to every account that was routable from its
\* start to its end, whatever other requests, the penalties, the shared cache,
\* the recovery tasks and the snapshots did meanwhile; the one exception is a
\* last pick that missed an account.
THEOREM FailoverAlwaysExhaustive == ProxySafetySpec => []FailoverIsExhaustive
<1>1. ProxyInit => SparedInv
  BY DEF ProxyInit, SparedInv, SparedAt, Active, Fresh
<1>2. LoopInv /\ SparedInv /\ [ProxyNext]_proxyRequestVars => SparedInv'
  BY SparedStep
<1>3. SparedInv => FailoverIsExhaustive
  BY DEF SparedInv, SparedAt, FailoverIsExhaustive, RequestAt
<1> QED BY <1>1, <1>2, <1>3, LoopStarts, LoopStep, PTL DEF ProxySafetySpec
=============================================================================
