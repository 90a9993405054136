----------------------------- MODULE MCCardFsm -----------------------------
(* The card under a driver that may do anything, on small buffers.         *)
EXTENDS CardFsm, TLC

CONSTANTS Other     \* a byte that is not PPSS

MCByte == {PPSS, Other}

\* The rungs of the activation, and VCC low but readable.
MCContStates == {{}, {"VALID_VCC"}, ContPowered, ContClocked, ContReady}

\* A byte, most of a header, and more than any buffer takes.
MCRxChunks ==
  {[i \in 1..n |-> Other] : n \in {0, 1, 4, 6}} \cup {<<PPSS>>}

MCTxSizes == {1, 2, 4}

MCResults == Result
=============================================================================
