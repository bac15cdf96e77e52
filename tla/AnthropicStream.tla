--------------------------- MODULE AnthropicStream ---------------------------
(***************************************************************************)
(* What a client of /v1/messages may rely on while it reads a streamed     *)
(* answer: one message_start; blocks that are opened once, filled while    *)
(* they are open and closed once, each carrying an item of the answer no   *)
(* other block carries; message_delta and message_stop when every block is *)
(* closed; and an error at any time, after which no content comes.         *)
(***************************************************************************)
EXTENDS Integers

CONSTANTS BlockIndices, AnswerItems

VARIABLES
  phase,    \* "idle", "open", "closing", "done" or "error"
  block,    \* index -> "none", "open" or "closed"
  carries,  \* index -> the item of the answer, -1 for none
  filled    \* index -> deltas received

streamVars == <<phase, block, carries, filled>>

StreamInit ==
  /\ phase = "idle"
  /\ block = [i \in BlockIndices |-> "none"]
  /\ carries = [i \in BlockIndices |-> -1]
  /\ filled = [i \in BlockIndices |-> 0]

MessageStart ==
  /\ phase = "idle"
  /\ phase' = "open"
  /\ UNCHANGED <<block, carries, filled>>

BlockStart(i, x) ==
  /\ phase = "open" /\ block[i] = "none"
  /\ \A j \in BlockIndices : carries[j] # x
  /\ block' = [block EXCEPT ![i] = "open"]
  /\ carries' = [carries EXCEPT ![i] = x]
  /\ UNCHANGED <<phase, filled>>

BlockDelta(i) ==
  /\ phase = "open" /\ block[i] = "open"
  /\ filled' = [filled EXCEPT ![i] = @ + 1]
  /\ UNCHANGED <<phase, block, carries>>

BlockStop(i) ==
  /\ phase = "open" /\ block[i] = "open"
  /\ block' = [block EXCEPT ![i] = "closed"]
  /\ UNCHANGED <<phase, carries, filled>>

MessageDelta ==
  /\ phase = "open" /\ \A i \in BlockIndices : block[i] # "open"
  /\ phase' = "closing"
  /\ UNCHANGED <<block, carries, filled>>

MessageStop ==
  /\ phase = "closing"
  /\ phase' = "done"
  /\ UNCHANGED <<block, carries, filled>>

StreamError ==
  /\ phase' = "error"
  /\ UNCHANGED <<block, carries, filled>>

StreamNext ==
  \/ MessageStart \/ MessageDelta \/ MessageStop \/ StreamError
  \/ \E i \in BlockIndices : BlockDelta(i) \/ BlockStop(i) \/ \E x \in AnswerItems : BlockStart(i, x)

StreamSpec == StreamInit /\ [][StreamNext]_streamVars

=============================================================================
