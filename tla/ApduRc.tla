------------------------------- MODULE ApduRc -------------------------------
(***************************************************************************)
(* The response chaining (RC) buffer of src/apdu_rc.c: handlers enqueue a  *)
(* response, GET RESPONSE dequeues it in parts.  rc.b holds rc.len bytes,  *)
(* of which rc.offset were already handed out.  The buffer is not          *)
(* compacted: bytes handed out keep their room until the next reset.       *)
(*                                                                         *)
(* It lives outside of the framework's internal state so that proprietary  *)
(* handlers may use it, so here the calls come in any order.               *)
(***************************************************************************)
EXTENDS Naturals, Sequences

CONSTANTS
  Byte,      \* bytes a response is made of
  DataMax,   \* SWICC_DATA_MAX, the capacity of the buffer
  Chunks     \* byte strings a caller may enqueue

ASSUME RcAssumption ==
  /\ DataMax \in Nat
  /\ Chunks \subseteq Seq(Byte)

VARIABLES
  rc,        \* the buffer: b[0 .. len) and offset
  out        \* bytes the last call wrote for its caller

rcVars == <<rc, out>>

\* Where there are two or three forms of an operator below, the last one is
\* the code's and the others are what a slip would make of it.

RcEmpty == [b |-> << >>, offset |-> 0]

RcLenRemUnder(q) == Len(q.b) - (q.offset + 1)
RcLenRem(q)      == Len(q.b) - q.offset

EnqFitsOver(q, buf) == RcLenRem(q) + Len(buf) <= DataMax
EnqFits(q, buf)     == Len(q.b) + Len(buf) <= DataMax
EnqFront(q, buf)    == [q EXCEPT !.b = buf \o q.b]
Enq(q, buf)         == [q EXCEPT !.b = q.b \o buf]

\* Bytes from..to of the buffer, counted from 1.
DeqFitsOver(q, n)  == n <= Len(q.b)
DeqFitsUnder(q, n) == n < RcLenRem(q)
DeqFits(q, n)      == n <= RcLenRem(q)
DeqBytes(q, n)     == SubSeq(q.b, q.offset + 1, q.offset + n)
DeqStays(q, n)     == q
Deq(q, n)          == [q EXCEPT !.offset = q.offset + n]

\* swicc_apdu_rc_reset
RcReset == rc' = RcEmpty /\ out' = << >>

\* swicc_apdu_rc_enq: all of the bytes or none.
RcEnq(buf) ==
  /\ rc' = IF EnqFits(rc, buf) THEN Enq(rc, buf) ELSE rc
  /\ out' = << >>

\* swicc_apdu_rc_deq: as many bytes as requested or none.
RcDeq(n) ==
  \/ DeqFits(rc, n) /\ rc' = Deq(rc, n) /\ out' = DeqBytes(rc, n)
  \/ ~DeqFits(rc, n) /\ rc' = rc /\ out' = << >>

RcInit == rc = RcEmpty /\ out = << >>

RcNext ==
  \/ RcReset
  \/ \E buf \in Chunks : RcEnq(buf)
  \/ \E n \in 0..DataMax + 1 : RcDeq(n)

RcSpec == RcInit /\ [][RcNext]_rcVars

-----------------------------------------------------------------------------
(***************************************************************************)
(* "The offset is guaranteed to never move further than the length", and   *)
(* the length never past the buffer: the subtractions of swicc_apdu_rc_deq *)
(* and swicc_apdu_rc_len_rem do not wrap, whatever the calls.              *)
(***************************************************************************)
RcTypeOK ==
  /\ rc \in [b : Seq(Byte), offset : Nat]
  /\ rc.offset <= Len(rc.b) /\ Len(rc.b) <= DataMax
  /\ out \in Seq(Byte)

(***************************************************************************)
(* The buffer is a queue of bytes: what swicc_apdu_rc_deq hands out is the *)
(* front of what was enqueued and not handed out yet.                      *)
(***************************************************************************)
Pending == SubSeq(rc.b, rc.offset + 1, Len(rc.b))

Queue == INSTANCE ByteQueue WITH pending <- Pending, given <- out

IsQueue == Queue!Spec
=============================================================================
