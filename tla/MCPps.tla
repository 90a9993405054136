------------------------------- MODULE MCPps -------------------------------
(* Requests of every shape: which of PPS1 to PPS3 are there, T=0 and T=1,  *)
(* parameters of every kind, and a byte disturbed anywhere behind PPSS in  *)
(* one bit, in neighbouring ones or in all.                                *)
EXTENDS Pps, Bitwise

\* XorByte is the operator ^ of C.
ASSUME XorIsBitwise == \A a, c \in Byte : XorByte(a, c) = a ^^ c

\* The default parameters, those of the ATR and of the mock, and others
\* that no table reserves.
Pps1Named == {17, 18, 24, 33, 137, 148, 150, 149, 116}

\* Reserved for Fi, reserved for Di.
Pps1Reserved == {23, 161}

Meant(pps1s) ==
  LET Message(p0, opt) == LET body == <<PPSS, p0>> \o opt
                          IN  Append(body, Ck(body))
      Opt(there, b)    == IF there THEN <<b>> ELSE << >>
  IN  {Message(t + (IF has[1] THEN 16 ELSE 0) + (IF has[2] THEN 32 ELSE 0)
                 + (IF has[3] THEN 64 ELSE 0),
               Opt(has[1], b1) \o Opt(has[2], b2) \o Opt(has[3], 0)) :
         t \in {0, 1}, has \in [1..3 -> BOOLEAN], b1 \in pps1s, b2 \in {0, 90}}

MCRequests == Meant(Pps1Named)

MCReservedRequests == Meant(Pps1Named \cup Pps1Reserved)

MCIntact == {NoFlip}

MCFlips ==
  {NoFlip} \cup {<<i, mask>> : i \in 2..LenMax,
                             mask \in {1, 2, 4, 8, 16, 32, 64, 128, 3, 48, 255}}
=============================================================================
