---------------------------- MODULE MessagesRequest ----------------------------
(***************************************************************************)
(* The request side of the Anthropic Messages API: the handlers of         *)
(* proxy/anthropic_api.rs and the translation of proxy/                    *)
(* anthropic_translator.rs into a Responses request.  A client may ask     *)
(* for its old thinking and old tool results to be dropped first           *)
(* (context_management), and names a reasoning effort that the target      *)
(* model may not have.  A message is its role and its content blocks; a    *)
(* message that is one string is a message of one text block.              *)
(***************************************************************************)
EXTENDS Integers, Sequences, SequencesExt, FiniteSets, FiniteSetsExt

CONSTANTS
  Asked,            \* the requests clients send
  Settings,         \* the Claude Code routing settings in force
  Nothing,          \* a field that is absent
  All               \* "all", as the thinking to keep

VARIABLES
  ask,              \* the request of this run
  routing,          \* the settings it is served with
  stage,            \* how far the handler is
  effective,        \* its messages, as edited so far
  edits,            \* edits still to be applied
  applied,          \* applied_edits
  body,             \* the translated request
  reply             \* what the client gets

msgVars == <<ask, routing, stage, effective, edits, applied, body, reply>>

DefaultKeepToolUses == 3
DefaultTokensTrigger == 100000
ClearedResultChars == 33     \* "[Old tool result content cleared]"
ClearedInputChars == 2       \* "{}"
ImageTokens == 2000
Larger(x, y) == IF x > y THEN x ELSE y
Or(x, default) == IF x = Nothing THEN default ELSE x
Total(s) == FoldLeft(LAMBDA x, y : x + y, 0, s)

-----------------------------------------------------------------------------
\* Token estimates: four characters to a token, and a third on top.

RoughTokens(chars) == (chars + 3) \div 4
ContentBlockTokens(b) ==
  IF b.type = "image" THEN ImageTokens
  ELSE IF b.type = "tool_use" THEN RoughTokens(b.nameChars + b.chars)
  ELSE RoughTokens(b.chars)
MessageTokens(m) == Total([k \in DOMAIN m.content |-> ContentBlockTokens(m.content[k])])
RequestInputTokens(q, messages) ==
  LET total == q.system + q.tools + Total([i \in DOMAIN messages |-> MessageTokens(messages[i])])
  IN  (4 * total + 2) \div 3

-----------------------------------------------------------------------------
\* clear_thinking_20251015: the thinking of all but the last turns that think.

IsThinkingBlock(b) == b.type \in {"thinking", "redacted_thinking"}
ParseClearThinkingKeep(edit) ==
  IF edit.keep = All THEN Nothing ELSE IF edit.keep = Nothing THEN 1 ELSE Larger(edit.keep, 1)

ThinkingTurns(messages) ==
  {i \in DOMAIN messages : /\ messages[i].role = "assistant"
                           /\ \E k \in DOMAIN messages[i].content : IsThinkingBlock(messages[i].content[k])}

ClearThinking(messages, edit) ==
  LET keep == ParseClearThinkingKeep(edit)
      turns == ThinkingTurns(messages)
      old == {i \in turns : Cardinality({j \in turns : j > i}) >= keep}
      removed == Total([i \in DOMAIN messages |->
                   IF i \in old THEN Total([k \in DOMAIN messages[i].content |->
                       IF IsThinkingBlock(messages[i].content[k])
                         THEN ContentBlockTokens(messages[i].content[k]) ELSE 0])
                   ELSE 0])
  IN  IF keep = Nothing \/ old = {}
        THEN [messages |-> messages, applied |-> <<>>]
        ELSE [messages |-> [i \in DOMAIN messages |->
                IF i \notin old THEN messages[i]
                ELSE [messages[i] EXCEPT !.content = SelectSeq(@, LAMBDA b : ~IsThinkingBlock(b))]],
              applied |-> <<[type |-> edit.type, cleared |-> Cardinality(old), tokens |-> removed]>>]

-----------------------------------------------------------------------------
\* clear_tool_uses_20250919: the results, and on request the inputs, of old
\* tool calls.  A position is a message and a block of it.

Positions(messages) ==
  FlattenSeq([i \in DOMAIN messages |-> [k \in DOMAIN messages[i].content |-> <<i, k>>]])
MessageAt(messages, p) == messages[p[1]].content[p[2]]
Before(p, q) == p[1] < q[1] \/ (p[1] = q[1] /\ p[2] < q[2])
PositionsOf(messages, role, type) ==
  {p \in Range(Positions(messages)) : messages[p[1]].role = role /\ MessageAt(messages, p).type = type}

ToolUsePositions(messages) ==
  {p \in PositionsOf(messages, "assistant", "tool_use") : MessageAt(messages, p).id # Nothing}

\* A result belongs to the last call before it with its id, and a call has
\* the first result that belongs to it.
ResultsOf(messages, u) ==
  {r \in PositionsOf(messages, "user", "tool_result") :
     LET id == MessageAt(messages, u).id IN
       /\ MessageAt(messages, r).id = id /\ Before(u, r)
       /\ ~ \E v \in ToolUsePositions(messages) :
              MessageAt(messages, v).id = id /\ Before(u, v) /\ Before(v, r)}

CollectToolHistory(messages) ==
  LET uses == ToolUsePositions(messages)
      answered == SelectSeq(Positions(messages), LAMBDA p : p \in uses /\ ResultsOf(messages, p) # {})
  IN  [n \in DOMAIN answered |->
        LET u == answered[n]
            results == ResultsOf(messages, u)
        IN  [name |-> MessageAt(messages, u).name, use |-> u,
             result |-> CHOOSE r \in results : \A s \in results : s = r \/ Before(r, s)]]

ParseToolUseKeep(edit) ==
  IF edit.keep \in {All, Nothing} THEN DefaultKeepToolUses ELSE Larger(edit.keep, 1)
ClearToolInputsOf(edit, name) == name \in edit.inputs

TriggerFired(q, messages, edit, clearable) ==
  IF edit.trigger = "tool_uses"
    THEN Len(clearable) >= Larger(Or(edit.threshold, DefaultKeepToolUses), 1)
    ELSE RequestInputTokens(q, messages) >= Larger(Or(edit.threshold, DefaultTokensTrigger), 0)

\* The marker replaces a result even if it is the longer of the two; the
\* saving is then 0.
ClearToolResultContent(messages, p) ==
  LET b == MessageAt(messages, p) IN
  IF b.cleared THEN [messages |-> messages, saved |-> 0]
  ELSE [messages |-> [messages EXCEPT ![p[1]].content[p[2]] =
                        [b EXCEPT !.cleared = TRUE, !.chars = ClearedResultChars]],
        saved |-> Larger(RoughTokens(b.chars) - RoughTokens(ClearedResultChars), 0)]

ClearToolUseInput(messages, p) ==
  LET b == MessageAt(messages, p)
      saved == RoughTokens(b.chars) - RoughTokens(ClearedInputChars)
  IN  IF saved <= 0 THEN [messages |-> messages, saved |-> 0]
      ELSE [messages |-> [messages EXCEPT ![p[1]].content[p[2]] =
                            [b EXCEPT !.cleared = TRUE, !.chars = ClearedInputChars]],
            saved |-> saved]

ClearEntry(acc, entry, edit) ==
  LET r == ClearToolResultContent(acc.messages, entry.result)
      u == IF ClearToolInputsOf(edit, entry.name) THEN ClearToolUseInput(r.messages, entry.use)
           ELSE [messages |-> r.messages, saved |-> 0]
      saved == r.saved + u.saved
  IN  IF edit.atLeast > 0 /\ acc.tokens >= edit.atLeast THEN acc
      ELSE [messages |-> u.messages, tokens |-> acc.tokens + saved,
            cleared |-> acc.cleared + IF saved > 0 THEN 1 ELSE 0]

ClearUpToOneMore(clearable, edit) == Larger(Len(clearable) - ParseToolUseKeep(edit) + 1, 0)
ClearUpTo(clearable, edit) == Larger(Len(clearable) - ParseToolUseKeep(edit), 0)

ClearToolUses(q, messages, edit) ==
  LET clearable == SelectSeq(CollectToolHistory(messages), LAMBDA e : e.name \notin edit.exclude)
      old == SubSeq(clearable, 1, ClearUpTo(clearable, edit))
      acc == FoldLeft(LAMBDA a, e : ClearEntry(a, e, edit),
                      [messages |-> messages, tokens |-> 0, cleared |-> 0], old)
  IN  IF clearable = <<>> \/ ~TriggerFired(q, messages, edit, clearable)
        THEN [messages |-> messages, applied |-> <<>>]
        ELSE [messages |-> acc.messages,
              applied |-> IF acc.cleared = 0 THEN <<>>
                          ELSE <<[type |-> edit.type, cleared |-> acc.cleared, tokens |-> acc.tokens]>>]

EditOrderIsRight(list) ==
  Len(list) < 2 \/ list[1].type = "clear_thinking"
    \/ \A k \in DOMAIN list : list[k].type # "clear_thinking"

-----------------------------------------------------------------------------
\* The reasoning effort.

EffortRank == [low |-> 0, medium |-> 1, high |-> 2, xhigh |-> 3, max |-> 3]
ThinkingMode(q) == q.thinking.type

InferEffort(q) ==
  IF ThinkingMode(q) = "adaptive" THEN "medium"
  ELSE IF ThinkingMode(q) # "enabled" THEN Nothing
  ELSE IF q.thinking.budget <= 2048 THEN "low"
  ELSE IF q.thinking.budget <= 8192 THEN "medium"
  ELSE "high"

SourceEffort(q) ==
  IF ThinkingMode(q) = "disabled" THEN Nothing
  ELSE IF ThinkingMode(q) = "adaptive" THEN Or(q.effort, "medium")
  ELSE IF ThinkingMode(q) = "enabled" THEN InferEffort(q)
  ELSE Or(q.effort, InferEffort(q))

ConfiguredEffort(s, family, source) ==
  IF source \in DOMAIN s.efforts[family] THEN s.efforts[family][source] ELSE s.defaultEffort[family]

SupportedEfforts(target) ==
  IF target = "gpt-5-mini" THEN {"low", "medium", "high"}
  ELSE IF target = "gpt-5" THEN {"low", "medium", "high", "xhigh"}
  ELSE Nothing

\* The strongest effort the model has that is not above the one asked for;
\* none if the one asked for is not on the scale.
ClampDown(effort, supported) ==
  LET below == {e \in supported : effort \in DOMAIN EffortRank /\ EffortRank[e] <= EffortRank[effort]}
  IN  IF below = {} THEN Nothing
      ELSE CHOOSE e \in below : \A f \in below : EffortRank[f] <= EffortRank[e]

Negotiate(s, target, effort) ==
  LET supported == SupportedEfforts(target) IN
  IF supported = Nothing \/ effort \in supported THEN effort
  ELSE IF s.fallback = "clamp_down" THEN ClampDown(effort, supported)
  ELSE Nothing

TranslateReasoning(q, s, family) ==
  LET source == SourceEffort(q)
      configured == ConfiguredEffort(s, family, source)
  IN  IF source = Nothing \/ configured = Nothing THEN Nothing
      ELSE Negotiate(s, s.target[family], configured)

-----------------------------------------------------------------------------
\* The messages become input items: blocks of text and images gather in a
\* message, calls and results stand alone, thinking is dropped.

FlushPending(role, acc) ==
  IF acc.pending = <<>> THEN acc
  ELSE [pending |-> <<>>, items |-> Append(acc.items, [type |-> "message", role |-> role, content |-> acc.pending])]

ContentBlockItem(b) ==
  IF b.type = "tool_use" THEN [type |-> "function_call", id |-> b.id, chars |-> b.chars]
  ELSE [type |-> "function_call_output", id |-> b.id, chars |-> b.chars]

TranslateBlock(role, acc, b) ==
  IF IsThinkingBlock(b) THEN acc
  ELSE IF b.type \in {"tool_use", "tool_result"}
    THEN LET flushed == FlushPending(role, acc)
         IN  [flushed EXCEPT !.items = Append(@, ContentBlockItem(b))]
  ELSE [acc EXCEPT !.pending = Append(@, [type |-> b.type, chars |-> b.chars])]

TranslateMessageItems(m) ==
  FlushPending(m.role, FoldLeft(LAMBDA a, b : TranslateBlock(m.role, a, b),
                                [pending |-> <<>>, items |-> <<>>], m.content)).items

TranslatedInput(messages) ==
  FlattenSeq([i \in DOMAIN messages |-> TranslateMessageItems(messages[i])])

-----------------------------------------------------------------------------
\* The handlers: anthropic_messages_handler and anthropic_count_tokens_handler
\* differ only in what they do with the translated request.

Answer(kind) == [kind |-> kind, context |-> Nothing, tokens |-> Nothing]
Refused == Answer("invalid_request_error")
ContextRequested == ask.edits # Nothing

CountTokens(messages) ==
  [Answer("count") EXCEPT
    !.tokens = RequestInputTokens(ask, messages),
    !.context = IF ContextRequested THEN RequestInputTokens(ask, ask.messages) ELSE Nothing]

MsgInit ==
  /\ ask \in Asked /\ routing \in Settings
  /\ stage = "body" /\ effective = <<>> /\ edits = <<>> /\ applied = <<>>
  /\ body = Nothing /\ reply = Nothing

Refuse == stage' = "done" /\ reply' = Refused

\* A body that cannot be read, is not JSON or names no model.
ReadBody ==
  /\ stage = "body"
  /\ IF ask.model = Nothing THEN Refuse ELSE stage' = "model" /\ UNCHANGED reply
  /\ UNCHANGED <<ask, routing, effective, edits, applied, body>>

\* resolve_claude_code_target_model; then the messages and the order of the
\* edits are looked at.
ResolveTargetModel ==
  /\ stage = "model"
  /\ IF \/ ask.model \notin DOMAIN routing.target \* not an Opus, Sonnet or Haiku
        \/ ~routing.enabled
        \/ routing.target[ask.model] = Nothing
        \/ ask.messages = Nothing
        \/ ContextRequested /\ ~EditOrderIsRight(ask.edits)
       THEN Refuse /\ UNCHANGED <<effective, edits>>
       ELSE /\ stage' = "edits" /\ effective' = ask.messages
            /\ edits' = IF ContextRequested THEN ask.edits ELSE <<>>
            /\ UNCHANGED reply
  /\ UNCHANGED <<ask, routing, applied, body>>

ApplyEdit(edit) ==
  IF edit.type = "clear_thinking" THEN ClearThinking(effective, edit)
  ELSE ClearToolUses(ask, effective, edit)

ContextEdit ==
  /\ stage = "edits" /\ edits # <<>>
  /\ edits' = Tail(edits)
  /\ IF Head(edits).type \notin {"clear_thinking", "clear_tool_uses"}
       THEN Refuse /\ UNCHANGED <<effective, applied>>
       ELSE LET r == ApplyEdit(Head(edits)) IN
              /\ effective' = r.messages /\ applied' = applied \o r.applied
              /\ UNCHANGED <<stage, reply>>
  /\ UNCHANGED <<ask, routing, body>>

\* build_translated_responses_request, and the answer of the count.
BuildRequest ==
  /\ stage = "edits" /\ edits = <<>>
  /\ IF \E i \in DOMAIN effective : effective[i].role = Nothing
       THEN Refuse /\ UNCHANGED body
       ELSE /\ body' = [model |-> routing.target[ask.model], input |-> TranslatedInput(effective),
                        effort |-> TranslateReasoning(ask, routing, ask.model), stream |-> ask.stream]
            /\ IF ask.counting
                 THEN /\ stage' = "done"
                      /\ reply' = CountTokens(effective)
                 ELSE stage' = "proxy" /\ UNCHANGED reply
  /\ UNCHANGED <<ask, routing, effective, edits, applied>>

\* translate_proxy_response_to_anthropic: the status and the content type of
\* the proxy's answer decide, then whether its body can be read.
ProxyAnswers ==
  /\ stage = "proxy" /\ stage' = "done"
  /\ \E ok, sse, readable \in BOOLEAN :
       reply' = [Answer(IF ~ok THEN IF ask.stream THEN "error_stream" ELSE "error"
                        ELSE IF ask.stream \/ sse THEN "stream"
                        ELSE IF readable THEN "message" ELSE "api_error")
                 EXCEPT !.context = IF ContextRequested /\ ok /\ (ask.stream \/ sse \/ readable)
                                      THEN applied ELSE Nothing]
  /\ UNCHANGED <<ask, routing, effective, edits, applied, body>>

MsgNext == ReadBody \/ ResolveTargetModel \/ ContextEdit \/ BuildRequest \/ ProxyAnswers

MsgSpec == MsgInit /\ [][MsgNext]_msgVars

-----------------------------------------------------------------------------
\* Properties.

\* The messages without their thinking, which is never sent.
Said(messages) ==
  [i \in DOMAIN messages |->
    [messages[i] EXCEPT !.content = SelectSeq(@, LAMBDA b : ~IsThinkingBlock(b))]]

\* The blocks an edit may empty: those of calls that are neither among the last
\* it keeps nor of a tool it excludes.
Clearable(messages, edit) ==
  LET clearable == SelectSeq(CollectToolHistory(messages), LAMBDA e : e.name \notin edit.exclude)
      old == {clearable[n] : n \in 1..(Len(clearable) - ParseToolUseKeep(edit))}
  IN  {e.use : e \in {x \in old : x.name \in edit.inputs}} \cup {e.result : e \in old}

\* Whatever edits a client asks for, the upstream gets every call and every
\* result of the conversation in its place, and text, images and the calls
\* that the edits keep (the last ones, and those of excluded tools) are sent
\* as they are: an index that is off by one, a result taken for that of an
\* earlier call with the same id, or positions that moved when thinking was
\* cut out, would lose what the model is working on.
RecentUsesKept ==
  body # Nothing =>
    LET before == Said(ask.messages)
        after == Said(effective)
        list == IF ContextRequested THEN ask.edits ELSE <<>>
        old == UNION {Clearable(before, list[n]) : n \in {m \in DOMAIN list : list[m].type = "clear_tool_uses"}}
    IN  /\ Positions(after) = Positions(before)
        /\ \A p \in Range(Positions(before)) :
             /\ p \notin old => MessageAt(after, p) = MessageAt(before, p)
             /\ MessageAt(after, p).type = MessageAt(before, p).type /\ MessageAt(after, p).id = MessageAt(before, p).id

================================================================================
