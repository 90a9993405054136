----------------------------- MODULE ByteQueue -----------------------------
(***************************************************************************)
(* What the response chaining buffer promises its users: bytes come out in *)
(* the order they went in, each once, and only a reset loses any.          *)
(***************************************************************************)
EXTENDS Naturals, Sequences

VARIABLES
  pending,   \* bytes not yet given out
  given      \* bytes given out by the last step

vars == <<pending, given>>

Init == pending = << >> /\ given = << >>

Clear == pending' = << >> /\ given' = << >>

\* Bytes are added behind the pending ones.
Put ==
  /\ Len(pending) <= Len(pending')
  /\ SubSeq(pending', 1, Len(pending)) = pending
  /\ given' = << >>

\* Bytes are given out from the front.
Take == given' \o pending' = pending

Next == Clear \/ Put \/ Take

Spec == Init /\ [][Next]_vars
=============================================================================
