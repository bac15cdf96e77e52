--------------------------- MODULE StreamTranslator ---------------------------
(***************************************************************************)
(* AnthropicSseTranslator (proxy/anthropic_translator.rs) and the task     *)
(* that runs it (translate_proxy_stream_to_anthropic): the events of an    *)
(* upstream Responses stream become the frames of a Messages stream.  The  *)
(* answer is a list of items: text, tool calls, and reasoning, which has   *)
(* no counterpart.  Frames go to the client one by one through a channel;  *)
(* AnthropicStream is what the client is promised.                         *)
(***************************************************************************)
EXTENDS Integers, Sequences, SequencesExt, FiniteSets

CONSTANTS
  Outputs,       \* the answers of the upstream: sequences of item kinds
  MaxItems       \* their greatest length

VARIABLES
  output,        \* the answer of this run
  events,        \* events the upstream has yet to send
  translator,    \* the translator's fields
  outgoing,      \* frames of the last event still to be sent
  line,          \* "reading", "ended": the task has returned, "gone": client left
  delivered      \* frames the client has read

trVars == <<output, events, translator, outgoing, line, delivered>>

Indices == 0..(MaxItems - 1)
Event(type, i) == [type |-> type, index |-> i]
Frame(type, i, x) == [type |-> type, index |-> i, item |-> x]

\* What an upstream sends for an answer, in order; it may leave events out.
ItemEvents(o, k) ==
  IF o[k] = "text" THEN <<Event("text_delta", k - 1)>>
  ELSE IF o[k] = "call"
    THEN <<Event("item_added", k - 1), Event("arguments_delta", k - 1),
           Event("arguments_done", k - 1), Event("item_done", k - 1)>>
  ELSE <<>>
Script(o) == <<Event("created", 0)>> \o FlattenSeq([k \in DOMAIN o |-> ItemEvents(o, k)])
                 \o <<Event("completed", 0)>>

-----------------------------------------------------------------------------
\* The translator.  Each operator returns its new fields and the frames.

NoTool == [known |-> FALSE, started |-> FALSE, filled |-> FALSE, stopped |-> FALSE]
NewTranslator == [started |-> FALSE, text |-> FALSE, terminal |-> FALSE,
                  tool |-> [i \in Indices |-> NoTool]]

EnsureMessageStart(t) ==
  [t |-> [t EXCEPT !.started = TRUE],
   frames |-> IF t.started THEN <<>> ELSE <<Frame("message_start", 0, -1)>>]

\* handle_output_text_delta: all text goes to block 0.
TextDelta(t, x) ==
  LET m == EnsureMessageStart(t) IN
  [t |-> [m.t EXCEPT !.text = TRUE],
   frames |-> m.frames \o (IF t.text THEN <<>> ELSE <<Frame("block_start", 0, x)>>)
                       \o <<Frame("block_delta", 0, -1)>>]

\* A call's block has the index of its item in the answer.
EnsureToolUseBlockStarted(t, i, x) ==
  LET m == EnsureMessageStart(t)
      opened == t.tool[i].started \/ t.tool[i].stopped
  IN  [t |-> [m.t EXCEPT !.tool[i].known = TRUE, !.tool[i].started = @ \/ ~opened],
       frames |-> m.frames \o IF opened THEN <<>> ELSE <<Frame("block_start", i, x)>>]

ArgumentsDelta(t, i) ==
  LET m == EnsureToolUseBlockStarted(t, i, i)
  IN  [t |-> [m.t EXCEPT !.tool[i].filled = TRUE], frames |-> Append(m.frames, Frame("block_delta", i, -1))]

\* The arguments are repeated when the call is done; they are sent if no delta
\* came before.
CloseToolUseBlockAlways(t, i, x) ==
  LET m == EnsureToolUseBlockStarted(t, i, x)
  IN  [t |-> [m.t EXCEPT !.tool[i].filled = TRUE, !.tool[i].stopped = TRUE],
       frames |-> m.frames \o <<Frame("block_delta", i, -1), Frame("block_stop", i, -1)>>]

CloseToolUseBlock(t, i, x) ==
  LET m == EnsureToolUseBlockStarted(t, i, x)
  IN  [t |-> [m.t EXCEPT !.tool[i].filled = TRUE, !.tool[i].stopped = TRUE],
       frames |-> m.frames
                  \o (IF t.tool[i].filled THEN <<>> ELSE <<Frame("block_delta", i, -1)>>)
                  \o (IF t.tool[i].stopped THEN <<>> ELSE <<Frame("block_stop", i, -1)>>)]

\* anthropic_content_from_responses_output: the items that are content, which
\* may be fewer than the items of the answer.
AnthropicContent(o) ==
  SelectSeq([k \in DOMAIN o |-> [kind |-> o[k], item |-> k - 1]], LAMBDA b : b.kind # "reasoning")

EmitFullContentBlockNever(i, x) == <<>>
EmitFullContentBlock(i, x) ==
  <<Frame("block_start", i, x), Frame("block_delta", i, -1), Frame("block_stop", i, -1)>>

MaybeEmitOrClose(acc, b, i) ==
  IF b.kind = "call" /\ acc.t.tool[i].known
    THEN LET m == CloseToolUseBlock(acc.t, i, b.item) IN [t |-> m.t, frames |-> acc.frames \o m.frames]
    ELSE [t |-> acc.t, frames |-> acc.frames \o EmitFullContentBlock(i, b.item)]

\* The blocks of the whole answer, by their place in the content; with text
\* already sent, block 0 only has to be closed.
ResponseCompleted(t) ==
  LET m == EnsureMessageStart([t EXCEPT !.terminal = TRUE])
      content == AnthropicContent(output)
      first == IF t.text THEN 2 ELSE 1
      acc0 == [t |-> m.t, frames |-> m.frames \o IF t.text THEN <<Frame("block_stop", 0, -1)>> ELSE <<>>]
      acc == FoldLeft(LAMBDA a, k : MaybeEmitOrClose(a, content[k], k - 1), acc0,
                      [n \in 1..(Len(content) - first + 1) |-> n + first - 1])
  IN  [t |-> acc.t, frames |-> acc.frames \o <<Frame("message_delta", 0, -1), Frame("message_stop", 0, -1)>>]

ErrorFrame == Frame("error", 0, -1)
Failed(t) == [t |-> [t EXCEPT !.terminal = TRUE], frames |-> <<ErrorFrame>>]

TranslateFrame(t, e) ==
  IF t.terminal \/ e.type = "ignored" THEN [t |-> t, frames |-> <<>>]
  ELSE IF e.type = "created" THEN EnsureMessageStart(t)
  ELSE IF e.type = "text_delta" THEN TextDelta(t, e.index)
  ELSE IF e.type = "item_added" THEN EnsureToolUseBlockStarted(t, e.index, e.index)
  ELSE IF e.type = "arguments_delta" THEN ArgumentsDelta(t, e.index)
  ELSE IF e.type \in {"arguments_done", "item_done"} THEN CloseToolUseBlock(t, e.index, e.index)
  ELSE IF e.type = "completed" THEN ResponseCompleted(t)
  ELSE Failed(t)   \* response.failed, response.error, error, and no JSON

-----------------------------------------------------------------------------
\* The task of translate_proxy_stream_to_anthropic.

Reading == line = "reading" /\ outgoing = <<>>

Receive(e) ==
  LET r == TranslateFrame(translator, e) IN
    /\ translator' = r.t
    /\ outgoing' = r.frames
    /\ UNCHANGED <<output, line, delivered>>

NextEvent == Reading /\ events # <<>> /\ Receive(Head(events)) /\ events' = Tail(events)

\* The upstream leaves an event out.
SkipEvent ==
  /\ Reading /\ events # <<>> /\ Head(events).type # "completed"
  /\ events' = Tail(events)
  /\ UNCHANGED <<output, translator, outgoing, line, delivered>>

\* The upstream fails, or sends something that is not JSON.
UpstreamFails == Reading /\ events # <<>> /\ Receive(Event("failed", 0)) /\ events' = <<>>

\* A comment, [DONE], or an event of another kind.
OtherEvent == Reading /\ Receive(Event("ignored", 0)) /\ UNCHANGED events

\* The connection breaks or ends within a frame: an error whatever came before.
ReadError ==
  /\ Reading
  /\ line' = "ended" /\ outgoing' = <<ErrorFrame>>
  /\ UNCHANGED <<output, events, translator, delivered>>

\* finish_on_upstream_eof.

UpstreamEof ==
  /\ Reading
  /\ line' = "ended"
  /\ outgoing' = IF translator.terminal THEN <<>> ELSE <<ErrorFrame>>
  /\ translator' = [translator EXCEPT !.terminal = TRUE]
  /\ UNCHANGED <<output, events, delivered>>

SendFrame ==
  /\ line # "gone" /\ outgoing # <<>>
  /\ delivered' = Append(delivered, Head(outgoing))
  /\ outgoing' = Tail(outgoing)
  /\ UNCHANGED <<output, events, translator, line>>

\* The client hangs up: the next send fails and the task returns.
ClientLeaves ==
  /\ line # "gone"
  /\ line' = "gone"
  /\ UNCHANGED <<output, events, translator, outgoing, delivered>>

TrInit ==
  /\ output \in Outputs
  /\ events = Script(output)
  /\ translator = NewTranslator
  /\ outgoing = <<>> /\ line = "reading" /\ delivered = <<>>

TrNext == NextEvent \/ SkipEvent \/ UpstreamFails \/ OtherEvent \/ ReadError \/ UpstreamEof \/ SendFrame \/ ClientLeaves

TaskStep == SendFrame \/ NextEvent \/ UpstreamEof
TrSpec == TrInit /\ [][TrNext]_trVars /\ WF_trVars(TaskStep)

-----------------------------------------------------------------------------
\* What the client has seen: the state of AnthropicStream.

Of(type, i) == SelectSeq(delivered, LAMBDA f : f.type = type /\ f.index = i)
Has(type) == \E k \in DOMAIN delivered : delivered[k].type = type
SeenPhase ==
  IF Has("error") THEN "error" ELSE IF Has("message_stop") THEN "done"
  ELSE IF Has("message_delta") THEN "closing" ELSE IF Has("message_start") THEN "open" ELSE "idle"
SeenBlock == [i \in Indices |-> IF Of("block_stop", i) # <<>> THEN "closed"
                                ELSE IF Of("block_start", i) # <<>> THEN "open" ELSE "none"]
SeenCarries == [i \in Indices |-> IF Of("block_start", i) = <<>> THEN -1 ELSE Last(Of("block_start", i)).item]
SeenFilled == [i \in Indices |-> Len(Of("block_delta", i))]

Client == INSTANCE AnthropicStream WITH
  BlockIndices <- Indices, AnswerItems <- Indices,
  phase <- SeenPhase, block <- SeenBlock, carries <- SeenCarries, filled <- SeenFilled

\* The frames a client reads follow the order of AnthropicStream, whatever the
\* upstream leaves out and wherever it fails.
ClientReadsAMessage == Client!StreamSpec

\* Every item of a completed answer reaches the client, no call twice.
AnswerIsWhole ==
  SeenPhase = "done" =>
    \A k \in DOMAIN output : output[k] # "reasoning" =>
      Cardinality({n \in DOMAIN delivered : /\ delivered[n].type = "block_start"
                                            /\ delivered[n].item = k - 1}) = 1

=============================================================================
