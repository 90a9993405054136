-------------------------- MODULE MCResponseChain --------------------------
(* Response chaining with P3 up to 2 and responses of up to three bytes,   *)
(* so that a response can be longer than 61xx can announce.                *)
EXTENDS ResponseChain, TLC

CONSTANTS b1, b2

MCByte == {b1, b2}

MCChunks == {<<b1>>, <<b1, b2>>, <<b2, b1, b1>>}
=============================================================================
