------------------------------- MODULE BerTlv -------------------------------
(***************************************************************************)
(* Documents the encoder of src/dato.c has written, read by its decoder: a *)
(* reader that goes through a document as the API of dato.h lets it, with  *)
(* a decoder for the document, swicc_dato_bertlv_dec_next to go on to the  *)
(* next object and swicc_dato_bertlv_dec_cur to go into a constructed one. *)
(***************************************************************************)
EXTENDS BerTlvEncoder, SequencesExt

CONSTANT Beyond  \* what may be found past the end of the buffer

VARIABLES
  reader,  \* "off", "next", "item", "done", "error" or "strayed"
  dec,     \* the decoders in use, the outermost first
  read     \* what the reader has been told, in order

readVars == <<reader, dec, read>>
vars == <<encVars, readVars>>

-----------------------------------------------------------------------------
(* The header parser.  The result is the status and, with it, the tag, the *)
(* length of the value and the length of the header.                       *)

Failed(ret) == [ret |-> ret, tag |-> NoTag, val |-> 0, hdr |-> 0]

\* bertlv_hdr_tag_prs: how many bytes the tag b[0], b[1], ... has.
TagRet(b, room) ==
  LET last == {i \in 1..(TagLenMax - 1) : b[i] < 128}
      n    == CHOOSE i \in last : \A j \in last : i <= j
  IN CASE b[0] % 32 # 31                      -> [ret |-> "SUCCESS", n |-> 1]
       [] b[0] % 32 = 31 /\ \E i \in 1..(TagLenMax - 1) :
            /\ i >= room
            /\ \A j \in 1..(i - 1) : j \notin last -> [ret |-> "END", n |-> 0]
       [] OTHER -> IF last = {} THEN [ret |-> "ERROR", n |-> 0]
                   ELSE [ret |-> "SUCCESS", n |-> n + 1]

\* The first byte after b[0] has the low bits of a long number.
TagParsed(b, n) ==
  [cla |-> b[0] \div 64, pc |-> (b[0] \div 32) % 2 = 1,
   num |-> CASE n = 1 -> b[0] % 32
             [] n = 2 -> b[1] % 128
             [] n = 3 -> (b[1] % 128) + (b[2] % 128) * 128]

\* The bits of two numbers together, each at its place.
Or(x, y) ==
  LET set(n, i) == (n \div 2^i) % 2
  IN FoldLeft(LAMBDA sum, i : sum + (IF set(x, i) + set(y, i) = 0
                                     THEN 0 ELSE 2^i),
              0, [i \in 1..30 |-> i - 1])

\* The length: of the lenLen bytes that follow the first the last is left,
\* and the number starts from lenLen, shifted by seven bits a byte.
LongVal(b, at, lenLen) ==
  FoldLeft(LAMBDA val, i : Or(val, b[at + i] * 128^(i - 1)),
           lenLen, [i \in 1..(lenLen - 1) |-> i])

\* bertlv_hdr_prs.  It may look past the end of the object: at the first
\* byte of a length, and at one byte more of a long one than there is.
HdrPrs(b, room) ==
  LET tag    == TagRet(b, room)
      b0     == b[tag.n]
      lenLen == b0 % 128
      parsed(val, hdr) == [ret |-> "SUCCESS", tag |-> TagParsed(b, tag.n),
                           val |-> val, hdr |-> hdr]
  IN IF room < 1 THEN Failed("END")
     ELSE IF tag.ret # "SUCCESS" THEN Failed(tag.ret)
     ELSE IF b0 < 128 THEN parsed(b0, tag.n + 1)
     ELSE IF lenLen \in {0, 127} \/ lenLen > LenLenMax THEN Failed("ERROR")
     ELSE IF \E i \in 1..(lenLen - 1) : room < tag.n + i THEN Failed("END")
     ELSE parsed(LongVal(b, tag.n, lenLen), tag.n + lenLen)

-----------------------------------------------------------------------------
(* The decoder.                                                            *)

\* A decoder knows where in the buffer its object begins.
DecInit(base, len) ==
  [base |-> base, len |-> len, offset |-> 0, tag |-> NoTag, val |-> 0]

Cur == dec[Len(dec)]
SetCur(d) == [dec EXCEPT ![Len(dec)] = d]

\* swicc_dato_bertlv_dec_next: the head moves behind the object it parsed.
DecNext(hdr) ==
  SetCur([Cur EXCEPT !.offset = @ + hdr.hdr + hdr.val,
                       !.tag = hdr.tag, !.val = hdr.val])

\* swicc_dato_bertlv_dec_cur
DecCur == DecInit(Cur.base + Cur.offset - Cur.val, Cur.val)

\* The buffer from the head on.
ByteAt(i, beyond) ==
  LET p == Cur.base + Cur.offset + i + 1
  IN IF p \in DOMAIN buf THEN buf[p] ELSE beyond

-----------------------------------------------------------------------------
(* The reader.                                                             *)

Item(kind, tag, val) == [kind |-> kind, tag |-> tag, val |-> val]
Close == Item("close", NoTag, << >>)

\* The encoder wrote the last need bytes of the buffer.
ReadStart ==
  /\ pass = "encoded" /\ reader = "off"
  /\ dec' = <<DecInit(Len(buf) - need, need)>>
  /\ reader' = "next" /\ UNCHANGED <<read, encVars>>

ReadNext(beyond) ==
  /\ reader = "next" /\ Cur.offset < Cur.len
  /\ LET b   == [i \in 0..(TagLenMax + LenLenMax) |-> ByteAt(i, beyond)]
         hdr == HdrPrs(b, Cur.len - Cur.offset)
     IN IF hdr.ret = "SUCCESS" THEN dec' = DecNext(hdr) /\ reader' = "item"
        ELSE reader' = "error" /\ UNCHANGED dec
  /\ UNCHANGED <<read, encVars>>

\* SWICC_RET_DATO_END: nothing is left of this object.
ReadEnd ==
  /\ reader = "next" /\ Cur.offset >= Cur.len
  /\ \/ Len(dec) = 1 /\ reader' = "done" /\ UNCHANGED <<dec, read>>
     \/ /\ Len(dec) > 1 /\ dec' = SubSeq(dec, 1, Len(dec) - 1)
        /\ read' = Append(read, Close) /\ UNCHANGED reader
  /\ UNCHANGED encVars

\* The value of an object that does not end in the document is not read.
Inside == DecCur.base + DecCur.len <= Len(buf)

ReadItem ==
  /\ reader = "item"
  /\ \/ ~Inside /\ reader' = "strayed" /\ UNCHANGED <<dec, read>>
     \/ /\ Inside /\ Cur.tag.pc /\ reader' = "next"
        /\ dec' = Append(dec, DecCur)
        /\ read' = Append(read, Item("open", Cur.tag, << >>))
     \/ /\ Inside /\ ~Cur.tag.pc /\ reader' = "next" /\ UNCHANGED dec
        /\ read' = Append(read, Item("value", Cur.tag,
             SubSeq(buf, DecCur.base + 1, DecCur.base + DecCur.len)))
  /\ UNCHANGED encVars

Init == EncoderStart /\ reader = "off" /\ dec = << >> /\ read = << >>

Next ==
  \/ EncoderNext /\ UNCHANGED readVars
  \/ ReadStart \/ ReadEnd \/ ReadItem
  \/ \E b \in Beyond : ReadNext(b)

Spec == Init /\ [][Next]_vars

-----------------------------------------------------------------------------
(* What the encoder was told, in the order a reader meets it: the calls    *)
(* backwards.                                                              *)

\* The bytes of the calls that brought data for the header of call i.
Value(i) ==
  LET first == CHOOSE j \in 1..i : /\ \A k \in j..(i - 1) : calls[k].op = "data"
                                   /\ j = 1 \/ calls[j - 1].op # "data"
  IN FlattenSeq([k \in 1..(i - first) |-> [b \in 1..calls[i - k].n |-> i - k]])

Told(i) ==
  CASE calls[i].op = "start" -> <<Close>>
    [] calls[i].op = "hdr"   ->
         IF calls[i].tag.pc THEN <<Item("open", calls[i].tag, << >>)>>
         ELSE <<Item("value", calls[i].tag, Value(i))>>
    [] OTHER -> << >>

Document == FlattenSeq([i \in 1..Len(calls) |-> Told(Len(calls) + 1 - i)])

AsWritten ==
  /\ reader \notin {"error", "strayed"}
  /\ IsPrefix(read, Document)
  /\ reader = "done" => read = Document

\* No number is too large for the short form of the decoder: lengths have
\* one byte, and tag numbers one byte of seven bits.
ShortForms ==
  \A i \in 1..Len(calls) : calls[i].op = "hdr" =>
    calls[i].n <= 127 /\ calls[i].tag.num < 128

(***************************************************************************)
(* "Move the decoder head to the next item in the BER-TLV DO then parse    *)
(* this item" (dato.h:160): a document without long lengths and tag        *)
(* numbers reads as the objects it was written from, in their order and    *)
(* nesting, with their values.                                             *)
(***************************************************************************)
DecodesBack == reader # "off" /\ ShortForms => AsWritten

(***************************************************************************)
(* The same of values of any length: the next item is found.               *)
(***************************************************************************)
NextItemFound ==
  reader # "off" /\ (\A i \in 1..Len(calls) : calls[i].tag.num < 128)
    => AsWritten
=============================================================================
