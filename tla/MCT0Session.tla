---------------------------- MODULE MCT0Session ----------------------------
(* A card and a well-behaved interface, with headers of their real length. *)
EXTENDS T0Session, TLC

MCByte == (BOOLEAN \X (1..HdrLen)) \cup {PPSS, PpsByte, DataByte}

\* The session chooses contacts and chunks itself.
MCContStates == {}
MCRxChunks   == {}

\* Like the two drivers a TX buffer no answer outgrows; and the least one that
\* takes an ATR, too small for the longest answer.
MCTxSizes == {AtrLen, DataMax + AtrLen}

\* The handlers of apduh.c do not send NULL.
MCResults == {res \in Result : res.sw1 # "NULL"}
=============================================================================
