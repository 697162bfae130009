-------------------------- MODULE CurrentnessWire --------------------------
(***************************************************************************)
(* The HTTP exchange of one currentness channel: the client's request, and *)
(* the frames of the service's streamed answer, in order.  A broken        *)
(* exchange delivers nothing more, to either side, and tells neither.      *)
(***************************************************************************)
EXTENDS Integers, Sequences

CONSTANTS
  Channels,       \* attempts to open a channel, each made once
  MaxGeneration   \* bound on the changes of the authority

VARIABLES
  exchange,   \* exchange[c]: "none", "open", "hungUp" by the client or "broken"
  frames      \* frames[c]: sent by the service, not read by the client

wireVars == <<exchange, frames>>

Generations == 0 .. MaxGeneration
NoGeneration == -1

Ready(g) == [type |-> "ready", generation |-> g]
Pulse == [type |-> "pulse", generation |-> NoGeneration]
Ended == [type |-> "ended", generation |-> NoGeneration]
Refused == [type |-> "refused", generation |-> NoGeneration]
Frame == [type : {"ready", "pulse", "ended", "refused"}, generation : Generations \cup {NoGeneration}]

WireInit ==
  /\ exchange = [c \in Channels |-> "none"]
  /\ frames = [c \in Channels |-> <<>>]

WireTypeOK ==
  /\ exchange \in [Channels -> {"none", "open", "hungUp", "broken"}]
  /\ frames \in [Channels -> Seq(Frame)]

\* The next thing the client can read of channel c.
Arrives(c, type) == frames[c] # <<>> /\ Head(frames[c]).type = type
Consume(c) == frames' = [frames EXCEPT ![c] = Tail(@)]

\* What the service writes once nobody can read it goes nowhere.
Written(c, frame) == IF exchange[c] = "open" THEN Append(frames[c], frame) ELSE frames[c]
Emit(c, frame) == frames' = [frames EXCEPT ![c] = Written(c, frame)]

\* The client gives up the exchanges S, and what they have brought.
HangUp(S) ==
  /\ exchange' = [c \in Channels |->
                    IF c \in S /\ exchange[c] = "open" THEN "hungUp" ELSE exchange[c]]
  /\ frames' = [c \in Channels |-> IF c \in S THEN <<>> ELSE frames[c]]

Cut(c) ==
  /\ exchange[c] = "open"
  /\ exchange' = [exchange EXCEPT ![c] = "broken"]
  /\ frames' = [frames EXCEPT ![c] = <<>>]
=============================================================================
