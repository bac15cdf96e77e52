----------------------------- MODULE MCRequests -----------------------------
(***************************************************************************)
(* What a proxied request meets in the data plane, on one small instance:  *)
(* the loop over the upstream accounts, the outbound proxy pool, the       *)
(* health reports and the ring of recently healthy accounts, the Messages  *)
(* endpoint and the WebSocket proxy.  They share no state: focus, fixed in *)
(* the initial state, says which of them moves, and the others rest in one *)
(* of their initial states.                                                *)
(*                                                                         *)
(* The Messages endpoint is asked for conversations of up to three turns,  *)
(* each an assistant's message with thinking and tool calls and the        *)
(* results, a call id used twice among them.                               *)
(***************************************************************************)
EXTENDS ProxyRequest, OutboundProxies, UpstreamHealth, MessagesRequest, WebSocketProxy

CONSTANTS a1, a2

VARIABLE focus

Context(class, server) == [class |-> class, code |-> "other", learned |-> "no", server |-> server]

\* One context for each row of the decision table that the loop tells apart.
MCErrors ==
    {Context("AuthExpired", FALSE), Context("RateLimited", FALSE), Context("Overloaded", TRUE),
     Context("NonRetryableClient", FALSE), Context("NoContext", TRUE),
     [Context("NonRetryableClient", FALSE) EXCEPT !.code = "previous_response_not_found"],
     [Context("NonRetryableClient", FALSE) EXCEPT !.learned = "same"]}

B(type, id, name, chars) ==
  [type |-> type, id |-> id, name |-> name, nameChars |-> 4, chars |-> chars, cleared |-> FALSE]
Msg(role, content) == [role |-> role, content |-> content]

\* An assistant that thinks and calls a tool, and the result.
Turn(think, id, name, input, result) ==
  <<Msg("assistant", (IF think THEN <<B("thinking", Nothing, Nothing, 40)>> ELSE <<>>)
                       \o <<B("text", Nothing, Nothing, 5), B("tool_use", id, name, input)>>),
    Msg("user", <<B("tool_result", id, Nothing, result), B("image", Nothing, Nothing, 0)>>)>>

TurnKinds == {<<TRUE, "bash", 40, 80>>, <<FALSE, "read", 2, 4>>, <<FALSE, "bash", 12, 50>>}
Made(kinds, ids) ==
  FlattenSeq([n \in DOMAIN kinds |-> Turn(kinds[n][1], ids[n], kinds[n][2], kinds[n][3], kinds[n][4])])

Conversations ==
  {Made(kinds, <<1, 2, 3, 4>>) : kinds \in UNION {[1..n -> TurnKinds] : n \in 0..3}}
    \cup {Made(kinds, <<1, 2, 1>>) : kinds \in [1..3 -> TurnKinds]}

Edit(type, keep, trigger, threshold, exclude, inputs, atLeast) ==
  [type |-> type, keep |-> keep, trigger |-> trigger, threshold |-> threshold,
   exclude |-> exclude, inputs |-> inputs, atLeast |-> atLeast]
Thinking(keep) == Edit("clear_thinking", keep, Nothing, Nothing, {}, {}, 0)
Tools(keep, threshold, exclude, inputs, atLeast) ==
  Edit("clear_tool_uses", keep, "tool_uses", threshold, exclude, inputs, atLeast)

ToolEdits == {Tools(0, 1, {}, {"bash"}, 0), Tools(1, 2, {"read"}, {}, 0), Tools(2, 1, {}, {"read", "bash"}, 0),
              Tools(1, 1, {}, {}, 10), Tools(Nothing, Nothing, {}, {}, 0),
              Edit("clear_tool_uses", 1, Nothing, 30, {}, {"bash"}, 0)}
EditLists ==
  {Nothing, <<>>} \cup {<<t>> : t \in ToolEdits} \cup {<<Thinking(k)>> : k \in {Nothing, All}}
    \cup {<<Thinking(k), t>> : k \in {0, 2}, t \in ToolEdits}
    \cup {<<Tools(1, 1, {}, {}, 0), Thinking(1)>>, <<Edit("other", Nothing, Nothing, Nothing, {}, {}, 0)>>}

Asking(model, messages, list, thinking, effort, stream, counting) ==
  [model |-> model, messages |-> messages, edits |-> list, thinking |-> thinking, effort |-> effort,
   stream |-> stream, counting |-> counting, system |-> 3, tools |-> 2]
NoThinking == [type |-> Nothing, budget |-> 0]
Modes == {NoThinking} \cup {[type |-> t, budget |-> 0] : t \in {"adaptive", "disabled"}}
           \cup {[type |-> "enabled", budget |-> b] : b \in {2048, 2049, 8192, 8193}}
Hello == <<Msg("user", <<B("text", Nothing, Nothing, 5)>>)>>

EmptyAsking == Asking("opus", Nothing, Nothing, NoThinking, Nothing, FALSE, FALSE)

TheRequests ==
  {Asking("opus", c, l, NoThinking, Nothing, FALSE, FALSE) : c \in Conversations, l \in EditLists}
    \cup {Asking(m, Hello, Nothing, t, e, TRUE, FALSE) :
             m \in {"opus", "sonnet", "haiku"}, t \in Modes, e \in {Nothing, "low", "high", "max", "odd"}}
    \cup {Asking("opus", Made(<<<<TRUE, "bash", 40, 80>>>>, <<1>>), l, NoThinking, Nothing, FALSE, TRUE) :
             l \in {Nothing, <<Thinking(1)>>}}
    \cup {Asking(m, Hello, Nothing, NoThinking, Nothing, FALSE, FALSE) : m \in {Nothing, "other"}}
    \cup {EmptyAsking,
          Asking("opus", <<Msg(Nothing, <<>>)>>, Nothing, NoThinking, Nothing, FALSE, FALSE)}

Families == {"opus", "sonnet", "haiku"}
Routed(fallback, mapped) ==
  [enabled |-> TRUE, fallback |-> fallback,
   target |-> [f \in Families |-> IF f = "opus" THEN "gpt-5" ELSE IF f = "sonnet" THEN "gpt-5-mini" ELSE "o9"],
   efforts |-> [f \in Families |-> mapped],
   defaultEffort |-> [f \in Families |-> IF f = "haiku" THEN Nothing ELSE "max"]]
NoEfforts == [e \in {} |-> Nothing]
Raised == [low |-> "high", medium |-> "xhigh", max |-> "odd", odd |-> Nothing]
TheSettings ==
  {Routed(f, m) : f \in {"clamp_down", "omit"}, m \in {NoEfforts, Raised}}
    \cup {[Routed("omit", NoEfforts) EXCEPT !.enabled = FALSE],
          [Routed("omit", NoEfforts) EXCEPT !.target["opus"] = Nothing]}

-----------------------------------------------------------------------------
requestVars == <<focus, proxyRequestVars, proxyVars, healthVars, msgVars, wsVars>>

AtRest(component, state) == focus = component \/ state

ServingInit ==
    /\ focus \in {"loop", "proxies", "health", "messages", "websocket"}
    /\ AtRest("loop", enabled = Accounts /\ sharedBad = {}) /\ ProxyInit
    /\ ProxyPoolInit
    /\ AtRest("proxies", ~team /\ stored.settings = CHOOSE s \in PoolSettings : TRUE)
    /\ AtRest("proxies", stored.nodes = <<>>)
    /\ AtRest("health", healthStore = "memory") /\ HealthInit
    /\ AtRest("messages", ask = EmptyAsking /\ routing = CHOOSE s \in Settings : ~s.enabled)
    /\ MsgInit
    /\ AtRest("websocket", wsUnhealthy = {} /\ metered = TRUE) /\ WsInit

ServingNext ==
    /\ UNCHANGED focus
    /\ \/ focus = "loop" /\ ProxyNext /\ UNCHANGED <<proxyVars, healthVars, msgVars, wsVars>>
       \/ focus = "proxies" /\ ProxyPoolNext /\ UNCHANGED <<proxyRequestVars, healthVars, msgVars, wsVars>>
       \/ focus = "health" /\ HealthNext /\ UNCHANGED <<proxyRequestVars, proxyVars, msgVars, wsVars>>
       \/ focus = "messages" /\ MsgNext /\ UNCHANGED <<proxyRequestVars, proxyVars, healthVars, wsVars>>
       \/ focus = "websocket" /\ WsNext /\ UNCHANGED <<proxyRequestVars, proxyVars, healthVars, msgVars>>

ServingSpec == ServingInit /\ [][ServingNext]_requestVars
=============================================================================
