--------------------------- MODULE BerTlvEncoder ---------------------------
(***************************************************************************)
(* The BER-TLV encoder of src/dato.c, used as SELECT (apduh.c) and the     *)
(* JSON reader (diskjs.c) use it: a first pass without a buffer finds the  *)
(* length, a second pass makes the same calls with a buffer of that size.  *)
(* The encoder writes from the end of the buffer towards its front: the    *)
(* value of a data object before its header, the last object first.        *)
(*                                                                         *)
(* An encoder is known by its numbers; all encoders of a pass share one    *)
(* buffer.  The bytes of a datum are all the number of the call that       *)
(* brought it.                                                             *)
(***************************************************************************)
EXTENDS Integers, Sequences

CONSTANTS
  TagLenMax,  \* SWICC_DATO_BERTLV_TAG_LEN_MAX
  LenLenMax,  \* SWICC_DATO_BERTLV_LEN_LEN_MAX
  NoLimit,    \* the size of an encoder without buffer (UINT32_MAX)
  Tags,       \* the tags the caller uses
  DataLens,   \* the lengths of data it passes
  Slack,      \* sizes of its buffer, less the length found in the dry run
  CallsMax    \* bound on the calls of one pass

\* A tag number of 2^14 and more does not fit in the bytes of a tag; no tag
\* of the ISO tables is that long.
TagNumMax == 16383
Tag == [cla : 0..4, pc : BOOLEAN, num : 0..TagNumMax]
ClassInvalid == 4   \* SWICC_DATO_BERTLV_TAG_CLA_INVALID

ASSUME EncoderAssumption ==
  /\ TagLenMax = 3 /\ LenLenMax = 5
  /\ NoLimit \in Nat /\ DataLens \subseteq Nat
  /\ Tags \subseteq Tag /\ Slack \subseteq Int /\ CallsMax \in Nat

VARIABLES
  pass,   \* "dry", "real", or how the second pass ended
  enc,    \* the encoders in use, the outermost first
  buf,    \* the buffer (empty in the dry run)
  calls,  \* the calls of the first pass
  next,   \* the number of the next call in the second pass
  need    \* the length found by the first pass

encVars == <<pass, enc, buf, calls, next, need>>

-----------------------------------------------------------------------------
(* Header fields.                                                          *)

\* The bytes of n, most significant first, without leading zeros and at
\* most max of them.
ByteCount(n, max) ==
  LET fits == {k \in 0..max : k = max \/ n \div 256^k = 0}
  IN CHOOSE k \in fits : \A j \in fits : k <= j

Bytes(n, max) ==
  LET k == ByteCount(n, max)
  IN [i \in 1..k |-> (n \div 256^(k - i)) % 256]

LenField(n) ==
  IF n <= 127 THEN <<n>>
  ELSE LET d == Bytes(n, LenLenMax - 1) IN <<128 + Len(d)>> \o d

\* The bytes after the first have seven bits of a number above 30 each, and
\* there are no leading zeros.
LongNum(num) ==
  IF num < 128 THEN <<num>> ELSE <<128 + num \div 128, num % 128>>

TagField(tag) ==
  LET b0 == tag.cla * 64 + (IF tag.pc THEN 32 ELSE 0)
  IN IF tag.num <= 30 THEN <<b0 + tag.num>>
     ELSE <<b0 + 31>> \o LongNum(tag.num)

-----------------------------------------------------------------------------
(* The calls.                                                              *)

EncInit(size) == [len |-> 0, size |-> size, len_val |-> 0, offset |-> size]

Dry    == pass = "dry"
Top    == enc[Len(enc)]
Free   == Top.size - Top.len
SetTop(e) == [enc EXCEPT ![Len(enc)] = e]

\* bytes written from position pos on, counted from 0.
Write(pos, bytes) ==
  [i \in DOMAIN buf |-> IF i \in (pos + 1)..(pos + Len(bytes))
                        THEN bytes[i - pos] ELSE buf[i]]

\* swicc_dato_bertlv_enc_data
DataFits(n) == Top.offset - n >= 0

EncData(n, byte) ==
  /\ DataFits(n)
  /\ enc' = SetTop([Top EXCEPT !.offset = @ - n, !.len_val = @ + n,
                               !.len = @ + n])
  /\ buf' = Write(Top.offset - n, [i \in 1..n |-> byte])

\* swicc_dato_bertlv_enc_hdr: bertlv_hdr_deprs writes the length, then the
\* tag before it, and looks at the room only when there is a buffer.
HdrLen(tag) == Len(TagField(tag)) + Len(LenField(Top.len_val))
HdrFitsUnder(tag) == Dry \/ HdrLen(tag) < Free
HdrFits(tag) == Dry \/ HdrLen(tag) <= Free

EncHdrKeepsLength(tag) ==
  /\ tag.cla # ClassInvalid /\ HdrFits(tag)
  /\ enc' = SetTop([Top EXCEPT !.len = @ + HdrLen(tag),
                               !.offset = @ - HdrLen(tag)])
  /\ buf' = Write(Free - HdrLen(tag), TagField(tag) \o LenField(Top.len_val))

EncHdr(tag) ==
  /\ tag.cla # ClassInvalid /\ HdrFits(tag)
  /\ enc' = SetTop([Top EXCEPT !.len = @ + HdrLen(tag),
                               !.offset = @ - HdrLen(tag), !.len_val = 0])
  /\ buf' = Write(Free - HdrLen(tag), TagField(tag) \o LenField(Top.len_val))

\* swicc_dato_bertlv_enc_nstd_start
CanNest == Top.len_val = 0

EncNstdStart ==
  /\ CanNest
  /\ enc' = Append(enc, EncInit(IF Dry THEN NoLimit ELSE Free))
  /\ UNCHANGED buf

\* swicc_dato_bertlv_enc_nstd_end
EncNstdEndStays ==
  LET outer == enc[Len(enc) - 1]
  IN /\ outer.len_val = 0
     /\ enc' = [SubSeq(enc, 1, Len(enc) - 1) EXCEPT ![Len(enc) - 1] =
                  [outer EXCEPT !.len = @ + Top.len, !.len_val = Top.len]]
     /\ UNCHANGED buf

EncNstdEnd ==
  LET outer == enc[Len(enc) - 1]
  IN /\ outer.len_val = 0
     /\ enc' = [SubSeq(enc, 1, Len(enc) - 1) EXCEPT ![Len(enc) - 1] =
                  [outer EXCEPT !.len = @ + Top.len, !.len_val = Top.len,
                                !.offset = @ - Top.len]]
     /\ UNCHANGED buf

-----------------------------------------------------------------------------
(* The caller.                                                             *)

NoTag == [cla |-> 0, pc |-> FALSE, num |-> 0]
DataCall(n)      == [op |-> "data", n |-> n, tag |-> NoTag]
HdrCall(tag, n)  == [op |-> "hdr", n |-> n, tag |-> tag]
StartCall        == [op |-> "start", n |-> 0, tag |-> NoTag]
EndCall          == [op |-> "end", n |-> 0, tag |-> NoTag]

LastOp == IF calls = << >> THEN "start" ELSE calls[Len(calls)].op

\* Constructed objects are those whose value was nested, every datum has a
\* header, and what has been nested gets one at once.
Allowed(c) ==
  CASE c.op = "data"  -> LastOp # "end"
    [] c.op = "hdr"   -> c.tag.pc <=> LastOp = "end"
    [] c.op = "start" -> LastOp # "end"
    [] c.op = "end"   -> Len(enc) > 1 /\ LastOp \in {"start", "hdr"}

\* The i-th call of a pass.
Do(c, i) ==
  CASE c.op = "data"  -> EncData(c.n, i)
    [] c.op = "hdr"   -> EncHdr(c.tag)
    [] c.op = "start" -> EncNstdStart
    [] c.op = "end"   -> EncNstdEnd

Fails(c) ==
  CASE c.op = "data"  -> ~DataFits(c.n)
    [] c.op = "hdr"   -> c.tag.cla = ClassInvalid \/ ~HdrFits(c.tag)
    [] c.op = "start" -> ~CanNest
    [] c.op = "end"   -> FALSE

Calls == {DataCall(n) : n \in DataLens} \cup {StartCall, EndCall}
         \cup {HdrCall(tag, Top.len_val) : tag \in Tags}

\* A call of the first pass.
CallDry(c) ==
  /\ Dry /\ Len(calls) < CallsMax /\ Allowed(c)
  /\ Do(c, Len(calls) + 1)
  /\ calls' = Append(calls, c)
  /\ UNCHANGED <<pass, next, need>>

\* A call that is refused ends the attempt.
CallRefused(c) ==
  /\ Dry /\ Len(calls) < CallsMax /\ Allowed(c) /\ Fails(c)
  /\ pass' = "refused"
  /\ UNCHANGED <<enc, buf, calls, next, need>>

\* The first pass is over: a buffer is offered for the second.
StartReal(size) ==
  /\ Dry /\ Len(enc) = 1 /\ LastOp = "hdr"
  /\ pass' = "real" /\ need' = Top.len /\ next' = 1
  /\ enc' = <<EncInit(size)>> /\ buf' = [i \in 1..size |-> 0]
  /\ UNCHANGED calls

CallReal ==
  /\ pass = "real" /\ next <= Len(calls)
  /\ Do(calls[next], next)
  /\ next' = next + 1
  /\ UNCHANGED <<pass, calls, need>>

\* SWICC_RET_BUFFER_TOO_SHORT.  (What a header that did not fit left in the
\* buffer is not looked at.)
CallTooShort ==
  /\ pass = "real" /\ next <= Len(calls) /\ Fails(calls[next])
  /\ pass' = "short"
  /\ UNCHANGED <<enc, buf, calls, next, need>>

EndReal ==
  /\ pass = "real" /\ next > Len(calls)
  /\ pass' = "encoded"
  /\ UNCHANGED <<enc, buf, calls, next, need>>

EncoderStart ==
  /\ pass = "dry" /\ enc = <<EncInit(NoLimit)>> /\ buf = << >>
  /\ calls = << >> /\ next = 1 /\ need = 0

EncoderNext ==
  \/ \E c \in Calls : CallDry(c) \/ CallRefused(c)
  \/ \E s \in Slack : Top.len + s >= 0 /\ StartReal(Top.len + s)
  \/ CallReal \/ CallTooShort \/ EndReal

EncoderSpec == EncoderStart /\ [][EncoderNext]_encVars

-----------------------------------------------------------------------------
(***************************************************************************)
(* The numbers of an encoder agree: data is written at offset and headers  *)
(* at size - len, so that value and header of an object touch only when    *)
(* the two are the same place; an encoder that is nested has the free      *)
(* space of the one around it.                                             *)
(***************************************************************************)
Offered == pass \in {"real", "short", "encoded"}

Bookkeeping ==
  \A i \in 1..Len(enc) :
    LET e == enc[i]
    IN /\ e.offset = e.size - e.len /\ e.len_val <= e.len
       /\ Offered => e.len <= e.size
       /\ i < Len(enc) => e.len_val = 0
       /\ i < Len(enc) /\ Offered => enc[i + 1].size = e.size - e.len

(***************************************************************************)
(* "A dry-run which is useful for getting the total length": the second    *)
(* pass takes exactly as many bytes, so it succeeds in every buffer of     *)
(* that size, and only a smaller one is too short.                         *)
(***************************************************************************)
ExactFits ==
  /\ pass = "short"   => Len(buf) < need
  /\ pass = "encoded" => Top.len = need /\ need <= Len(buf)
=============================================================================
