-------------------------------- MODULE Pps --------------------------------
(***************************************************************************)
(* The parameter exchange of src/pps.c with its bytes, and the part of     *)
(* fsm_handle_s_pps_req that puts its outcome into effect.  CardFsm has    *)
(* the exchange of messages around it and abstracts from the bytes: FsmView*)
(* below is what it relies upon.                                           *)
(*                                                                         *)
(* A request is PPSS, PPS0, those of PPS1, PPS2 and PPS3 that PPS0         *)
(* announces in its bits 5 to 7, and the check byte PCK.                   *)
(***************************************************************************)
EXTENDS Integers, Sequences

CONSTANTS
  Requests,   \* requests as the interface meant them
  Flips       \* <<position, mask>> of a disturbed byte, or NoFlip

VARIABLES
  req,        \* the request as it arrived
  line,       \* "intact", "disturbed", or "cut": PPS0 announces fewer bytes
  stage,      \* "received", "done", or "aborted" by an assertion
  ret,        \* what swicc_pps returned
  res,        \* the response transmitted, if any
  tp          \* internal.tp

ppsVars == <<req, line, stage, ret, res, tp>>

PPSS   == 255
LenMin == 2
LenMax == 6

Byte == 0..255

\* Bit b of a byte, counted from 1.
Weight == <<1, 2, 4, 8, 16, 32, 64, 128>>
Bit(byte, b) == (byte \div Weight[b]) % 2
HighNibble(byte) == byte \div 16
LowNibble(byte)  == byte % 16

\* The operator ^ of C on bytes: the sum of the bits, but for the carries.
XorByte(a, c) ==
  LET x(b) == ((Bit(a, b) + Bit(c, b)) % 2) * Weight[b]
  IN  x(1) + x(2) + x(3) + x(4) + x(5) + x(6) + x(7) + x(8)

\* swicc_ck: the XOR of all bytes, tck after each of them.
Tck(buf) ==
  LET tck[n \in 0..Len(buf)] == IF n = 0 THEN 0 ELSE XorByte(tck[n - 1], buf[n])
  IN  tck

Ck(buf) == Tck(buf)[Len(buf)]

\* The tables of src/io.c, by index 0 to 15.
Fi   == <<372, 372, 558, 744, 1116, 1488, 1860, 0,
          0, 512, 768, 1024, 1536, 2048, 0, 0>>
Di   == <<0, 1, 2, 4, 8, 16, 32, 64, 12, 20, 0, 0, 0, 0, 0, 0>>
Fmax == <<4000, 5000, 6000, 8000, 12000, 16000, 20000, 0,
          0, 5000, 7500, 10000, 15000, 20000, 0, 0>>

\* swicc_etu, in the arithmetic of its integers.
Etu(fi, di, fmax) == fi \div (di * fmax)

TpZero == [fi |-> 0, di |-> 0, fmax |-> 0, etu |-> 0]

-----------------------------------------------------------------------------
Announced(pps0, i) == Bit(pps0, 4 + i) = 1

\* swicc_pps_len
PpsLen(pps) ==
  3 + Bit(pps[2], 5) + Bit(pps[2], 6) + Bit(pps[2], 7)

\* Where PPSi is, if it is announced: behind those announced before it.
Position(pps, i) ==
  3 + (IF i > 1 THEN Bit(pps[2], 5) ELSE 0) + (IF i > 2 THEN Bit(pps[2], 6) ELSE 0)

PpsI(pps, i) == pps[Position(pps, i)]

\* pps_parse: which requests it refuses, and what it reads from the others.
CkIgnored(pps) == TRUE
CkHolds(pps)   == Ck(pps) = 0

Parses(pps) ==
  /\ Len(pps) >= LenMin /\ Len(pps) <= LenMax
  /\ pps[1] = PPSS /\ CkHolds(pps)
  /\ Bit(pps[2], 8) = 0
  /\ \A i \in 1..3 : Announced(pps[2], i) => Position(pps, i) <= Len(pps)
  /\ Announced(pps[2], 3) => PpsI(pps, 3) = 0

FiIdx(pps) == IF Announced(pps[2], 1) THEN LowNibble(PpsI(pps, 1)) ELSE 1
DiIdx(pps) == IF Announced(pps[2], 1) THEN HighNibble(PpsI(pps, 1)) ELSE 1

\* pps_deparse: a PPS1 with the default parameters is left out.
DropsPps1(pps) ==
  Announced(pps[2], 1) => FiIdx(pps) = 1 /\ DiIdx(pps) = 1

Pps0AsRequested(pps) == pps[2]
Pps0(pps) ==
  IF DropsPps1(pps) /\ Announced(pps[2], 1) THEN pps[2] - 16 ELSE pps[2]

Body(pps) ==
  <<PPSS, Pps0(pps)>>
    \o (IF DropsPps1(pps) THEN << >>
                          ELSE <<DiIdx(pps) * 16 + FiIdx(pps)>>)
    \o (IF Announced(pps[2], 2) THEN <<PpsI(pps, 2)>> ELSE << >>)
    \o (IF Announced(pps[2], 3) THEN <<0>> ELSE << >>)

Response(pps) == Append(Body(pps), Ck(Body(pps)))

\* swicc_pps with a TX buffer that takes any response (CardFsm has smaller).
SucceedsAlways(pps) == TRUE
Succeeds(pps)       == Response(pps) = pps

-----------------------------------------------------------------------------
NoFlip == <<0, 0>>

\* A request is announced in full and has its check byte.  (A first byte
\* other than PPSS is not taken for a request at all.)
ASSUME PpsAssumption ==
  /\ \A r \in Requests : /\ r \in Seq(Byte) /\ Len(r) >= 3 /\ r[1] = PPSS
                         /\ Len(r) = PpsLen(r) /\ Ck(r) = 0
  /\ Flips \subseteq {NoFlip} \cup ((2..LenMax) \X (Byte \ {0}))

Disturbed(pps, f) ==
  IF f[1] \in 1..Len(pps) THEN [pps EXCEPT ![f[1]] = XorByte(@, f[2])] ELSE pps

\* The card receives as many bytes as PPS0 tells it to.  If that is more
\* than there are, it waits for them and no request is handled.
Init ==
  /\ stage = "received" /\ ret = "none" /\ res = << >> /\ tp = TpZero
  /\ \E r \in Requests, f \in Flips :
       LET arriving == Disturbed(r, f)
       IN  /\ PpsLen(arriving) <= Len(r)
           /\ req = SubSeq(arriving, 1, PpsLen(arriving))
           /\ line = IF arriving = r THEN "intact"
                     ELSE IF Len(req) < Len(r) THEN "cut" ELSE "disturbed"

\* The request is complete: fsm_handle_s_pps_req handles it.
HandlePps ==
  /\ stage = "received"
  /\ UNCHANGED <<req, line>>
  /\ \/ /\ ~Parses(req)
        /\ ret' = "PPS_INVALID" /\ res' = << >> /\ stage' = "done"
        /\ UNCHANGED tp
     \/ /\ Parses(req) /\ ~Succeeds(req)
        /\ ret' = "PPS_FAILED" /\ res' = Response(req) /\ stage' = "done"
        /\ UNCHANGED tp
     \/ /\ Parses(req) /\ Succeeds(req)
        /\ ret' = "SUCCESS" /\ res' = Response(req)
        /\ LET fi == Fi[FiIdx(req) + 1]
               di == Di[DiIdx(req) + 1]
               fmax == Fmax[FiIdx(req) + 1]
               etu == IF fmax = 0 \/ di = 0 THEN 0 ELSE Etu(fi, di, fmax)
           IN  /\ tp' = [fi |-> fi, di |-> di, fmax |-> fmax, etu |-> etu]
               /\ stage' = IF fmax = 0 \/ di = 0 THEN "aborted" ELSE "done"

Next == HandlePps
Spec == Init /\ [][Next]_ppsVars

-----------------------------------------------------------------------------
(***************************************************************************)
(* A request of which one byte was disturbed, in any of its bits, is never *)
(* agreed to nor answered: the check byte catches it.  (It may miss a PPS0 *)
(* that was disturbed so that it announces fewer bytes.)                   *)
(***************************************************************************)
DisturbanceNoticed ==
  line = "disturbed" /\ stage # "received" =>
    ret = "PPS_INVALID" /\ res = << >>

(***************************************************************************)
(* Every response, also one that turns PPS1 down, is a well-formed message:*)
(* its PPS0 announces exactly the bytes that follow and its check byte     *)
(* holds, so an interface reads from it what the card meant.               *)
(***************************************************************************)
ResponseWellFormed ==
  res # << >> => Parses(res) /\ PpsLen(res) = Len(res)

(***************************************************************************)
(* What CardFsm makes of a request that parses: the response is one byte   *)
(* shorter when the proposed parameters are the default ones, and the      *)
(* exchange succeeds when it is not.                                       *)
(***************************************************************************)
FsmView ==
  ret \in {"PPS_FAILED", "SUCCESS"} =>
    LET default == Announced(req[2], 1) /\ PpsI(req, 1) = 17
    IN  /\ Len(res) = IF default THEN Len(req) - 1 ELSE Len(req)
        /\ ret = "SUCCESS" <=> ~default

(***************************************************************************)
(* assert(fmax != 0U), assert(di != 0U): the ETU is computed only from     *)
(* parameters that are not reserved.                                       *)
(***************************************************************************)
EtuDefined == stage # "aborted"
=============================================================================
