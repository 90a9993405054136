------------------------------- MODULE T0Card -------------------------------
(***************************************************************************)
(* What a T=0 card promises the interface it talks to, without the state   *)
(* the implementation keeps.  A powered card answers the reset, settles    *)
(* the protocol, and then serves one command at a time: a complete header  *)
(* is followed by at most MaxAcks rounds of ACK and data, and every        *)
(* command ends with a status.  Losing power ends any conversation and     *)
(* leaves nothing behind.                                                  *)
(***************************************************************************)
EXTENDS Naturals

CONSTANT MaxAcks   \* rounds of ACK and data a command may take

VARIABLES
  phase,   \* where the conversation stands
  acks,    \* ACKs sent for the command under execution
  out      \* what the card transmitted in its last turn

vars == <<phase, acks, out>>

Phases == {"inactive", "protocol", "idle", "executing", "receiving"}
Active == Phases \ {"inactive"}

Move(from, to, message) ==
  phase = from /\ phase' = to /\ out' = message

Init == phase = "inactive" /\ acks = 0 /\ out = "none"

\* The Answer-to-Reset opens the conversation.
AnswerReset == Move("inactive", "protocol", "atr") /\ UNCHANGED acks

\* The card takes its turn without saying anything.
Listen ==
  /\ phase \in Phases \ {"executing"}
  /\ out' = "none"
  /\ UNCHANGED <<phase, acks>>

\* The first byte after the ATR starts a command under the offered protocol.
UseOffered == Move("protocol", "idle", "none") /\ UNCHANGED acks

\* A parameter exchange is answered: agreed, or to be tried again.
AnswerPps ==
  /\ \E to \in {"protocol", "idle"} : Move("protocol", to, "pps")
  /\ UNCHANGED acks

TakeHeader == Move("idle", "executing", "none") /\ UNCHANGED acks

Ack ==
  /\ acks < MaxAcks
  /\ Move("executing", "receiving", "ack")
  /\ acks' = acks + 1

TakeData == Move("receiving", "executing", "none") /\ UNCHANGED acks

Answer == Move("executing", "idle", "status") /\ acks' = 0

PowerDown ==
  /\ phase' = "inactive" /\ acks' = 0 /\ out' = "none"

Next ==
  \/ AnswerReset \/ Listen \/ UseOffered \/ AnswerPps
  \/ TakeHeader \/ Ack \/ TakeData \/ Answer \/ PowerDown

\* A card that owes an answer gives it, and takes the data it asked for.
Fairness == WF_vars(Ack \/ Answer) /\ WF_vars(TakeData)

Spec == Init /\ [][Next]_vars /\ Fairness
=============================================================================
