------------------------------- MODULE MCEdge -------------------------------
(***************************************************************************)
(* What stands between a client and the proxy, on one small instance: the  *)
(* cache of API keys, the routing cache the data planes share, the         *)
(* translation of a stream for the Messages endpoint and the background    *)
(* responses.  They share no state: focus, fixed in the initial state,     *)
(* says which of them moves, and the others rest in one of their initial   *)
(* states.                                                                 *)
(***************************************************************************)
EXTENDS AuthCache, RoutingCache, StreamTranslator, BackgroundResponses

CONSTANT Focused  \* the components that may move

VARIABLE focus

\* Text, if any, is the first item of the answer; then calls.
PlainOutputs == {<<>>, <<"text">>, <<"call">>, <<"text", "call">>, <<"call", "call">>, <<"text", "call", "call">>}
ReasoningOutputs == {<<"reasoning", "call">>}

Ask(owner, conv, session, stream, background, followed) ==
  [owner |-> owner, conv |-> conv, session |-> session, stream |-> stream, background |-> background,
   store |-> TRUE, followed |-> followed]

TwoInConversation ==
  [q1 |-> Ask("o1", "c", NoKey, TRUE, TRUE, FALSE), q2 |-> Ask("o1", "c", NoKey, FALSE, TRUE, FALSE)]
TwoOwners ==
  [q1 |-> Ask("o1", "c", NoKey, TRUE, TRUE, TRUE), q2 |-> Ask("o2", "c", "s", FALSE, FALSE, FALSE)]
BgAsked == {TwoInConversation, TwoOwners}
StreamAsked == {[q1 |-> Ask("o1", NoKey, NoKey, TRUE, TRUE, TRUE)]}

-----------------------------------------------------------------------------
edgeVars == <<focus, authVars, cacheVars, trVars, bgVars>>

AtRest(component, state) == focus = component \/ state

EdgeInit ==
  /\ focus \in Focused
  /\ AuthInit
  /\ AtRest("keys", failOpen /\ localKeys = {} /\ keyState = [k \in Keys |-> "unknown"])
  /\ AtRest("routing", hasShared = TRUE) /\ CacheInit
  /\ AtRest("stream", output = CHOOSE o \in Outputs : TRUE) /\ TrInit
  /\ AtRest("background", asked = CHOOSE w \in BgWorlds : TRUE) /\ BgInit

KeysDo(A) == focus = "keys" /\ A /\ UNCHANGED <<focus, cacheVars, trVars, bgVars>>
RoutingDoes(A) == focus = "routing" /\ A /\ UNCHANGED <<focus, authVars, trVars, bgVars>>
StreamDoes(A) == focus = "stream" /\ A /\ UNCHANGED <<focus, authVars, cacheVars, bgVars>>
BackgroundDoes(A) == focus = "background" /\ A /\ UNCHANGED <<focus, authVars, cacheVars, trVars>>

EdgeNext == KeysDo(AuthNext) \/ RoutingDoes(CacheNext) \/ StreamDoes(TrNext) \/ BackgroundDoes(BgNext)

\* Time passes, every handler and task that can take its next step takes it, a permit or
\* an end that is offered again and again is taken (BgFairness).
EdgeSpec ==
  /\ EdgeInit /\ [][EdgeNext]_edgeVars
  /\ WF_edgeVars(KeysDo(AuthTick)) /\ \A r \in Requests : WF_edgeVars(KeysDo(AuthStep(r)))
  /\ WF_edgeVars(RoutingDoes(CacheTick)) /\ \A i \in Instances : WF_edgeVars(RoutingDoes(CallStep(i)))
  /\ WF_edgeVars(StreamDoes(TaskStep))
  /\ WF_edgeVars(BackgroundDoes(CleanupExpired))
  /\ \A q \in BgRequests : /\ SF_edgeVars(BackgroundDoes(AcquirePermit(q)))
                           /\ SF_edgeVars(BackgroundDoes(SelfStreamEof(q)))
                           /\ WF_edgeVars(BackgroundDoes(BgWorkerStep(q)))
  /\ \A r \in BgReaders : WF_edgeVars(BackgroundDoes(BgReaderStep(r)))
=============================================================================
