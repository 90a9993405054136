------------------------------ MODULE MCApduRc ------------------------------
(* The chaining buffer on short strings of two different bytes.            *)
EXTENDS ApduRc, TLC

CONSTANTS b1, b2

MCByte == {b1, b2}

\* Nothing, a byte, several, and more than fits behind anything.
MCChunks == {<< >>, <<b1>>, <<b2>>, <<b1, b2>>, <<b2, b2, b1>>}
=============================================================================
