------------------------------- MODULE MCNet -------------------------------
(* Two cards, of which one may have to wait for the other's slot.          *)
EXTENDS Net, TLC

CONSTANTS c1, c2, s1
=============================================================================
