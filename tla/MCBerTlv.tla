------------------------------ MODULE MCBerTlv ------------------------------
(***************************************************************************)
(* A primitive tag, one of two and one of three bytes, a constructed one   *)
(* and one whose class the JSON reader did not know; data on both sides of *)
(* the longest length of one byte, and buffers one byte off.               *)
(***************************************************************************)
EXTENDS BerTlv

MCTags == {[cla |-> 0, pc |-> FALSE, num |-> 2],
           [cla |-> 2, pc |-> FALSE, num |-> 40],
           [cla |-> 3, pc |-> FALSE, num |-> 200],
           [cla |-> 1, pc |-> TRUE, num |-> 15],
           [cla |-> ClassInvalid, pc |-> FALSE, num |-> 2]}
MCSlack == {-1, 0, 1}
=============================================================================
