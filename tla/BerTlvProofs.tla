---------------------------- MODULE BerTlvProofs ----------------------------
(***************************************************************************)
(* The two passes of the encoder for every choice of tags and data, every  *)
(* sequence of calls and every size of the buffer: TLC checks the same on  *)
(* short documents (MCBerTlv).                                             *)
(*                                                                         *)
(* The argument compares the passes call by call.  What a call does to the *)
(* counters does not depend on the size of an encoder, so the first pass   *)
(* fixes a history of counters that the second runs through again; of the  *)
(* buffer each moment of it has used a certain part.                       *)
(***************************************************************************)
EXTENDS BerTlv, WellFoundedInduction, TLAPS

Call == [op : {"data", "hdr", "start", "end"}, n : Nat, tag : Tag]

\* An encoder, and what of it does not depend on its size: its counters, and
\* how much had been used when it was begun.
Encoder == [len : Nat, size : Int, len_val : Nat, offset : Int]
Level   == [len : Nat, val : Nat, base : Nat]

\* The encoders in use, the outermost first.
Levels(s) ==
  /\ s \in Seq(Level) /\ Len(s) >= 1 /\ s[1].base = 0
  /\ \A i \in 1..Len(s) : s[i].val <= s[i].len
  /\ \A i \in 1..(Len(s) - 1) :
       s[i].val = 0 /\ s[i + 1].base = s[i].base + s[i].len

Used(s) == Last(s).base + Last(s).len

\* Calls that are refused for no other reason than space.
Legit(c, s) ==
  /\ c.op = "hdr"   => c.tag.cla # ClassInvalid
  /\ c.op = "start" => Last(s).val = 0
  /\ c.op = "end"   => Len(s) > 1

\* What the caller sees to: which call may come after which, and that a
\* header has the length of what was brought for it.
OpAt(cs, k) == IF k = 0 THEN "start" ELSE cs[k].op

Follows(c, op, s) ==
  /\ c.op \in {"data", "start"} => op # "end"
  /\ c.op = "end" => op \in {"start", "hdr"}
  /\ c.op = "hdr" => (c.tag.pc <=> (op = "end")) /\ c.n = Last(s).val

\* The bytes a call needs, and what it makes of the counters.
Takes(c, s) ==
  CASE c.op = "data" -> c.n
    [] c.op = "hdr"  -> Len(TagField(c.tag)) + Len(LenField(Last(s).val))
    [] OTHER         -> 0

Begun(s) == [len |-> 0, val |-> 0, base |-> Used(s)]

Moved(c, s) ==
  CASE c.op = "data" ->
         [s EXCEPT ![Len(s)] = [len |-> @.len + c.n, val |-> @.val + c.n,
                                base |-> @.base]]
    [] c.op = "hdr" ->
         [s EXCEPT ![Len(s)] = [len |-> @.len + Takes(c, s), val |-> 0,
                                base |-> @.base]]
    [] c.op = "start" -> Append(s, Begun(s))
    [] c.op = "end" ->
         [SubSeq(s, 1, Len(s) - 1) EXCEPT
            ![Len(s) - 1] = [len |-> @.len + Last(s).len,
                             val |-> Last(s).len, base |-> @.base]]

\* h is what the counters were after each call of the first pass.
History(h) ==
  /\ h[0] = <<[len |-> 0, val |-> 0, base |-> 0]>>
  /\ \A k \in 0..Len(calls) : Levels(h[k])
  /\ \A k \in 1..Len(calls) :
       /\ Legit(calls[k], h[k - 1]) /\ h[k] = Moved(calls[k], h[k - 1])
       /\ Follows(calls[k], OpAt(calls, k - 1), h[k - 1])
  /\ \A k \in 0..Len(calls), m \in 0..Len(calls) :
       k <= m => Used(h[k]) <= Used(h[m])

Agrees(s) ==
  /\ enc \in Seq(Encoder) /\ Len(enc) = Len(s)
  /\ \A i \in 1..Len(s) :
       /\ enc[i].len = s[i].len /\ enc[i].len_val = s[i].val
       /\ enc[i].offset = enc[i].size - enc[i].len

\* Nested encoders share what is left of the buffer.
Shares(s) ==
  \A i \in 1..Len(s) :
    enc[i].size = Len(buf) - s[i].base /\ enc[i].len <= enc[i].size

\* The p-th byte the j-th call writes, and where the calls up to m have
\* written theirs: before those of the earlier ones.
ByteOf(c, j, p) ==
  IF c.op = "hdr" THEN (TagField(c.tag) \o LenField(c.n))[p] ELSE j

Written(h, m) ==
  \A j \in 1..m : \A p \in 1..Takes(calls[j], h[j - 1]) :
    buf[Len(buf) - Used(h[j]) + p] = ByteOf(calls[j], j, p)

DryInv == \E h : History(h) /\ Agrees(h[Len(calls)])

RealInv ==
  \E h :
    /\ History(h) /\ Len(h[Len(calls)]) = 1 /\ Used(h[Len(calls)]) = need
    /\ next \in 1..(Len(calls) + 1)
    /\ Agrees(h[next - 1]) /\ Shares(h[next - 1])
    /\ Written(h, next - 1)

BufTypeOK == DOMAIN buf = 1..Len(buf) /\ Len(buf) \in Nat

EncoderInv ==
  /\ pass \in {"dry", "real", "short", "encoded", "refused"}
  /\ calls \in Seq(Call) /\ BufTypeOK
  /\ ~Offered => DryInv
  /\ Offered => RealInv
  /\ pass = "short" => Len(buf) < need
  /\ pass = "encoded" => next > Len(calls)

-----------------------------------------------------------------------------
(* Header fields have a length.                                            *)

\* A function on 1..n is a sequence of what it contains.
LEMMA SequenceOf ==
  ASSUME NEW n \in Nat, NEW f, f = [i \in 1..n |-> f[i]]
  PROVE  /\ f \in Seq({f[i] : i \in 1..n}) /\ Len(f) = n
         /\ DOMAIN f = 1..n
  OBVIOUS

LEMMA LeastOf4 ==
  ASSUME NEW fits \in SUBSET (0..4), 4 \in fits
  PROVE  (CHOOSE k \in fits : \A j \in fits : k <= j) \in 0..4
<1>1. \E k \in fits : \A j \in fits : k <= j
  <2>1. CASE 0 \in fits
    BY <2>1
  <2>2. CASE 0 \notin fits /\ 1 \in fits
    BY <2>2
  <2>3. CASE 0 \notin fits /\ 1 \notin fits /\ 2 \in fits
    BY <2>3
  <2>4. CASE /\ 0 \notin fits /\ 1 \notin fits /\ 2 \notin fits
             /\ 3 \in fits
    BY <2>4
  <2>5. CASE /\ 0 \notin fits /\ 1 \notin fits /\ 2 \notin fits
             /\ 3 \notin fits
    BY <2>5
  <2>6. QED
    BY <2>1, <2>2, <2>3, <2>4, <2>5
<1>2. QED
  BY <1>1

LEMMA ByteCounts ==
  ASSUME NEW n \in Nat
  PROVE  ByteCount(n, 4) \in 0..4
<1> DEFINE fits == {k \in 0..4 : k = 4 \/ n \div 256^k = 0}
<1>1. fits \in SUBSET (0..4) /\ 4 \in fits
  OBVIOUS
<1> HIDE DEF fits
<1>2. (CHOOSE k \in fits : \A j \in fits : k <= j) \in 0..4
  BY <1>1, LeastOf4
<1>3. QED
  BY <1>2 DEF ByteCount, fits

LEMMA BytesLen ==
  ASSUME NEW n \in Nat
  PROVE  \E k \in Nat :
           /\ Len(Bytes(n, 4)) = k
           /\ Bytes(n, 4) \in Seq({Bytes(n, 4)[i] : i \in 1..k})
<1> DEFINE k == ByteCount(n, 4)
           f == Bytes(n, 4)
<1>1. k \in Nat
  BY ByteCounts
<1>2. f = [i \in 1..k |-> f[i]]
  BY DEF Bytes
<1> HIDE DEF f, k
<1>3. Len(f) = k /\ f \in Seq({f[i] : i \in 1..k})
  BY <1>1, <1>2, SequenceOf
<1>4. QED
  BY <1>1, <1>3 DEF f

LEMMA JoinedLen ==
  ASSUME NEW b, NEW S, NEW f \in Seq(S)
  PROVE  Len(<<b>> \o f) = 1 + Len(f)
<1>1. <<b>> \in Seq(S \cup {b}) /\ f \in Seq(S \cup {b})
  OBVIOUS
<1>2. QED
  BY <1>1

LEMMA LenFieldLen ==
  ASSUME NEW n \in Nat
  PROVE  /\ Len(LenField(n)) \in Nat
         /\ \E S : LenField(n) \in Seq(S)
<1>1. CASE n <= 127
  <2>1. LenField(n) = <<n>>
    BY <1>1 DEF LenField
  <2>2. <<n>> \in Seq(Nat) /\ Len(<<n>>) = 1
    OBVIOUS
  <2> QED BY <2>1, <2>2
<1>2. CASE n > 127
  <2> DEFINE d == Bytes(n, 4)
  <2>1. PICK k \in Nat : Len(d) = k /\ d \in Seq({d[i] : i \in 1..k})
    BY BytesLen
  <2>2. LenField(n) = <<128 + Len(d)>> \o d
    <3>1. ~(n <= 127) /\ LenLenMax - 1 = 4
      BY <1>2, EncoderAssumption
    <3>2. QED
      BY <3>1, Zenon DEF LenField
  <2> HIDE DEF d
  <2>3. Len(LenField(n)) = 1 + k
    BY <2>1, <2>2, JoinedLen
  <2>4. PICK b, S : b = 128 + Len(d) /\ S = {d[i] : i \in 1..k}
    OBVIOUS
  <2>5. \E T : LenField(n) \in Seq(T)
    <3>1. <<b>> \in Seq(S \cup {b}) /\ d \in Seq(S \cup {b})
      BY <2>1, <2>4
    <3>2. <<b>> \o d \in Seq(S \cup {b})
      BY <3>1
    <3> QED BY <2>2, <2>4, <3>2
  <2>6. QED
    BY <2>3, <2>5
<1>3. QED
  BY <1>1, <1>2

\* The fields of a record, whatever their sets are.
LEMMA FieldOf ==
  ASSUME NEW P, NEW Q, NEW R, NEW t \in [cla : P, pc : Q, num : R]
  PROVE  t.num \in R
  OBVIOUS

LEMMA TagNumbers ==
  ASSUME NEW tag \in Tag PROVE tag.num \in Nat
<1>1. tag.num \in 0..TagNumMax
  BY FieldOf, Zenon DEF Tag
<1>2. 0..TagNumMax \subseteq Nat
  OBVIOUS
<1>3. QED
  BY <1>1, <1>2, Zenon

LEMMA TagClass ==
  ASSUME NEW tag \in Tag PROVE tag.cla \in 0..4 /\ tag.pc \in BOOLEAN
<1>1. \A P, Q, R : \A t \in [cla : P, pc : Q, num : R] :
        t.cla \in P /\ t.pc \in Q
  OBVIOUS
<1> QED BY <1>1, Zenon DEF Tag

LEMMA ShortSeqs ==
  ASSUME NEW x \in Int, NEW y \in Int, NEW z \in Int
  PROVE  /\ <<x>> \in Seq(Int) /\ Len(<<x>>) = 1 /\ <<x>>[1] = x
         /\ <<y, z>> \in Seq(Int) /\ Len(<<y, z>>) = 2
         /\ <<y, z>>[1] = y /\ <<y, z>>[2] = z
  OBVIOUS

LEMMA Joined ==
  ASSUME NEW S, NEW f \in Seq(S), NEW g \in Seq(S)
  PROVE  /\ f \o g \in Seq(S) /\ Len(f \o g) = Len(f) + Len(g)
         /\ \A i \in 1..Len(f) : (f \o g)[i] = f[i]
         /\ \A i \in 1..Len(g) : (f \o g)[Len(f) + i] = g[i]
  OBVIOUS

\* The first byte of a tag without its number.
TagStart(tag) == tag.cla * 64 + (IF tag.pc THEN 32 ELSE 0)

FieldFor(b0, num) ==
  IF num <= 30 THEN <<b0 + num>> ELSE <<b0 + 31>> \o LongNum(num)

Shape(f, b0, num) ==
  /\ f \in Seq(Int) /\ Len(f) \in 1..3
  /\ num <= 30 => Len(f) = 1 /\ f[1] = b0 + num
  /\ num \in 31..127 => Len(f) = 2 /\ f[1] = b0 + 31 /\ f[2] = num

LEMMA FieldForIs ==
  ASSUME NEW b0 \in Int, NEW num \in Nat
  PROVE  Shape(FieldFor(b0, num), b0, num)
<1> SUFFICES ASSUME NEW f, f = FieldFor(b0, num) PROVE Shape(f, b0, num)
  OBVIOUS
<1>1. b0 + 31 \in Int /\ b0 + num \in Int /\ num \in Int
  OBVIOUS
<1>2. CASE num <= 30
  <2>1. FieldFor(b0, num) = <<b0 + num>>
    BY <1>2 DEF FieldFor
  <2> QED BY <1>1, <1>2, <2>1, ShortSeqs DEF Shape
<1>3. CASE num \in 31..127
  <2>1. FieldFor(b0, num) = <<b0 + 31>> \o <<num>>
    <3>1. ~(num <= 30) /\ num < 128
      BY <1>3
    <3> QED BY <3>1 DEF FieldFor, LongNum
  <2>2. PICK a, c : a = <<b0 + 31>> /\ c = <<num>>
    OBVIOUS
  <2>3. /\ a \in Seq(Int) /\ c \in Seq(Int) /\ Len(a) = 1 /\ Len(c) = 1
        /\ a[1] = b0 + 31 /\ c[1] = num
    BY <1>1, <2>2, ShortSeqs
  <2>4. /\ a \o c \in Seq(Int) /\ Len(a \o c) = 2
        /\ (a \o c)[1] = b0 + 31 /\ (a \o c)[2] = num
    <3>1. 1 \in 1..Len(a) /\ 1 \in 1..Len(c) /\ Len(a) + 1 = 2
          /\ Len(a) + Len(c) = 2
      BY <2>3
    <3>2. /\ a \o c \in Seq(Int) /\ Len(a \o c) = Len(a) + Len(c)
          /\ \A i \in 1..Len(a) : (a \o c)[i] = a[i]
          /\ \A i \in 1..Len(c) : (a \o c)[Len(a) + i] = c[i]
      <4>1. a \in Seq(Int) /\ c \in Seq(Int)
        BY <2>3
      <4> QED BY ONLY <4>1, Joined
    <3>3. (a \o c)[Len(a) + 1] = c[1] /\ (a \o c)[1] = a[1]
      BY <3>1, <3>2, Zenon
    <3>4. (a \o c)[2] = num /\ (a \o c)[1] = b0 + 31 /\ Len(a \o c) = 2
      BY <2>3, <3>1, <3>2, <3>3, Zenon
    <3> QED BY <3>2, <3>4, Zenon
  <2> QED BY <1>3, <2>1, <2>2, <2>4 DEF Shape
<1>4. CASE num > 127
  <2>1. PICK x \in Int, y \in Int : x = 128 + num \div 128 /\ y = num % 128
    OBVIOUS
  <2>2. FieldFor(b0, num) = <<b0 + 31>> \o <<x, y>>
    <3>1. ~(num <= 30) /\ ~(num < 128)
      BY <1>4
    <3> QED BY <2>1, <3>1 DEF FieldFor, LongNum
  <2>3. PICK a, c : a = <<b0 + 31>> /\ c = <<x, y>>
    OBVIOUS
  <2>4. a \in Seq(Int) /\ c \in Seq(Int) /\ Len(a) = 1 /\ Len(c) = 2
    BY <1>1, <2>3, ShortSeqs
  <2>5. a \o c \in Seq(Int) /\ Len(a \o c) = 3
    <3>1. a \o c \in Seq(Int) /\ Len(a \o c) = Len(a) + Len(c)
      BY <2>4, Joined, Zenon
    <3> QED BY <2>4, <3>1
  <2> QED BY <1>4, <2>2, <2>3, <2>5 DEF Shape
<1> QED BY <1>2, <1>3, <1>4

LEMMA TagFieldIs ==
  ASSUME NEW tag \in Tag
  PROVE  /\ tag.num \in Nat /\ TagStart(tag) \in Nat
         /\ Shape(TagField(tag), TagStart(tag), tag.num)
<1>1. tag.num \in Nat /\ tag.cla \in 0..4 /\ tag.pc \in BOOLEAN
  BY TagNumbers, TagClass
<1>2. TagStart(tag) \in Nat
  BY <1>1 DEF TagStart
<1>3. TagField(tag) = FieldFor(TagStart(tag), tag.num)
  BY DEF TagField, FieldFor, TagStart
<1> QED BY <1>1, <1>2, <1>3, FieldForIs

LEMMA TagFieldLen ==
  ASSUME NEW tag \in Tag PROVE Len(TagField(tag)) \in Nat
  BY TagFieldIs DEF Shape

LEMMA HeaderLen ==
  ASSUME NEW tag \in Tag, NEW n \in Nat
  PROVE  Len(TagField(tag) \o LenField(n))
           = Len(TagField(tag)) + Len(LenField(n))
<1>1. PICK S : LenField(n) \in Seq(S)
  BY LenFieldLen
<1>2. TagField(tag) \in Seq(Int)
  BY TagFieldIs DEF Shape
<1>3. PICK T : T = Int \cup S
  OBVIOUS
<1>4. TagField(tag) \in Seq(T) /\ LenField(n) \in Seq(T)
  BY <1>1, <1>2, <1>3
<1> QED BY <1>4, Joined

-----------------------------------------------------------------------------
(* A call and the counters.                                                *)

\* What the last encoder has.
LEMMA LastLevel ==
  ASSUME NEW s, Levels(s)
  PROVE  /\ Len(s) \in Nat /\ Len(s) >= 1 /\ DOMAIN s = 1..Len(s)
         /\ \A i \in 1..Len(s) :
              /\ s[i].len \in Nat /\ s[i].val \in Nat /\ s[i].base \in Nat
         /\ Used(s) = s[Len(s)].base + s[Len(s)].len /\ Used(s) \in Nat
<1>1. s \in Seq(Level) /\ Len(s) >= 1
  BY DEF Levels
<1>2. \A i \in 1..Len(s) : s[i] \in Level
  BY <1>1
<1>3. \A i \in 1..Len(s) :
        /\ s[i].len \in Nat /\ s[i].val \in Nat /\ s[i].base \in Nat
  BY <1>2 DEF Level
<1>4. QED
  BY <1>1, <1>3 DEF Used, Last

LEMMA TakesNat ==
  ASSUME NEW s, Levels(s), NEW c \in Call
  PROVE  Takes(c, s) \in Nat
<1>1. c.n \in Nat /\ c.tag \in Tag
  BY DEF Call
<1>2. Last(s).val \in Nat
  BY LastLevel DEF Last
<1>3. Len(TagField(c.tag)) \in Nat /\ Len(LenField(Last(s).val)) \in Nat
  BY <1>1, <1>2, TagFieldLen, LenFieldLen, Zenon
<1>4. QED
  BY <1>1, <1>3 DEF Takes

\* The counters after a call, one by one.
LEMMA MovedTop ==
  ASSUME NEW s, Levels(s), NEW c \in Call, c.op \in {"data", "hdr"}
  PROVE  LET t == Moved(c, s) IN
         /\ t \in Seq(Level) /\ Len(t) = Len(s)
         /\ \A i \in 1..(Len(s) - 1) : t[i] = s[i]
         /\ t[Len(s)].len = s[Len(s)].len + Takes(c, s)
         /\ t[Len(s)].base = s[Len(s)].base
         /\ t[Len(s)].val = IF c.op = "data" THEN s[Len(s)].val + c.n ELSE 0
<1> DEFINE v == IF c.op = "data" THEN s[Len(s)].val + c.n ELSE 0
           e == [len |-> s[Len(s)].len + Takes(c, s), val |-> v,
                 base |-> s[Len(s)].base]
<1>1. c.n \in Nat
  BY DEF Call
<1>2. Takes(c, s) \in Nat
  BY TakesNat
<1>3. Len(s) \in 1..Len(s) /\ s \in Seq(Level)
  BY LastLevel DEF Levels
<1>4. e \in Level
  <2>1. /\ s[Len(s)].len \in Nat /\ s[Len(s)].val \in Nat
        /\ s[Len(s)].base \in Nat
    BY <1>3, LastLevel
  <2>2. v \in Nat /\ s[Len(s)].len + Takes(c, s) \in Nat
    BY <1>1, <1>2, <2>1
  <2> HIDE DEF v
  <2>3. QED
    BY <2>1, <2>2 DEF Level
<1>5. Moved(c, s) = [s EXCEPT ![Len(s)] = e]
  <2>1. CASE c.op = "data"
    BY <2>1 DEF Moved, Takes
  <2>2. CASE c.op = "hdr"
    BY <2>2 DEF Moved
  <2>3. QED
    BY <2>1, <2>2
<1>6. /\ e.len = s[Len(s)].len + Takes(c, s)
      /\ e.base = s[Len(s)].base /\ e.val = v
  OBVIOUS
<1> HIDE DEF e
<1>7. QED
  BY <1>3, <1>4, <1>5, <1>6

LEMMA MovedStart ==
  ASSUME NEW s, Levels(s), NEW c \in Call, c.op = "start"
  PROVE  LET t == Moved(c, s) IN
         /\ t \in Seq(Level) /\ Len(t) = Len(s) + 1
         /\ \A i \in 1..Len(s) : t[i] = s[i]
         /\ t[Len(s) + 1] = Begun(s)
         /\ Begun(s).len = 0 /\ Begun(s).val = 0 /\ Begun(s).base = Used(s)
<1>1. Moved(c, s) = Append(s, Begun(s))
  BY DEF Moved
<1>2. Begun(s) \in Level
  BY LastLevel DEF Begun, Level
<1>3. s \in Seq(Level)
  BY DEF Levels
<1>4. Begun(s).len = 0 /\ Begun(s).val = 0 /\ Begun(s).base = Used(s)
  BY DEF Begun
<1>5. QED
  BY <1>1, <1>2, <1>3, <1>4

LEMMA MovedEnd ==
  ASSUME NEW s, Levels(s), NEW c \in Call, c.op = "end", Len(s) > 1
  PROVE  LET t == Moved(c, s)
             m == Len(s) - 1 IN
         /\ t \in Seq(Level) /\ Len(t) = m
         /\ \A i \in 1..(m - 1) : t[i] = s[i]
         /\ t[m].len = s[m].len + s[Len(s)].len
         /\ t[m].val = s[Len(s)].len /\ t[m].base = s[m].base
<1> DEFINE m == Len(s) - 1
           r == SubSeq(s, 1, m)
           e == [len |-> s[m].len + s[Len(s)].len, val |-> s[Len(s)].len,
                 base |-> s[m].base]
<1>1. s \in Seq(Level) /\ m \in 1..Len(s) /\ Len(s) \in 1..Len(s)
  BY LastLevel DEF Levels
<1>2. /\ r \in Seq(Level) /\ Len(r) = m
      /\ \A i \in 1..m : r[i] = s[i]
  BY <1>1
<1>3. e \in Level
  <2>1. /\ s[m].len \in Nat /\ s[m].base \in Nat
        /\ s[Len(s)].len \in Nat
    BY <1>1, LastLevel
  <2>2. QED
    BY <2>1 DEF Level
<1>4. Moved(c, s) = [r EXCEPT ![m] = e]
  BY <1>1, <1>2 DEF Moved, Last
<1>5. /\ e.len = s[m].len + s[Len(s)].len /\ e.val = s[Len(s)].len
      /\ e.base = s[m].base
  OBVIOUS
<1>6. m \in 1..m
  BY <1>1
<1> HIDE DEF e, r
<1>7. QED
  BY <1>2, <1>3, <1>4, <1>5, <1>6

LEMMA MovedLevels ==
  ASSUME NEW s, Levels(s), NEW c \in Call, Legit(c, s)
  PROVE  /\ Levels(Moved(c, s))
         /\ Used(Moved(c, s)) = Used(s) + Takes(c, s)
<1> DEFINE t == Moved(c, s)
<1>0. c.op \in {"data", "hdr", "start", "end"} /\ c.n \in Nat
  BY DEF Call
<1>1. Takes(c, s) \in Nat
  BY TakesNat
<1>2. CASE c.op \in {"data", "hdr"}
  <2>1. /\ t \in Seq(Level) /\ Len(t) = Len(s)
        /\ \A i \in 1..(Len(s) - 1) : t[i] = s[i]
        /\ t[Len(s)].len = s[Len(s)].len + Takes(c, s)
        /\ t[Len(s)].base = s[Len(s)].base
        /\ t[Len(s)].val = IF c.op = "data" THEN s[Len(s)].val + c.n ELSE 0
    BY <1>2, MovedTop
  <2>2. t[Len(s)].val <= t[Len(s)].len
    <3>1. CASE c.op = "data"
      <4>1. Takes(c, s) = c.n
        BY <3>1 DEF Takes
      <4>2. s[Len(s)].val <= s[Len(s)].len
        BY LastLevel DEF Levels
      <4>3. QED
        BY <1>0, <2>1, <3>1, <4>1, <4>2, LastLevel
    <3>2. CASE c.op = "hdr"
      BY <1>1, <2>1, <3>2, LastLevel
    <3>3. QED
      BY <1>2, <3>1, <3>2
  <2> HIDE DEF t
  <2>0. Len(s) \in 1..Len(s)
    BY LastLevel
  <2>3. Levels(t)
    <3>1. t[1].base = 0 /\ Len(t) >= 1
      <4>1. CASE Len(s) = 1
        BY <2>1, <4>1 DEF Levels
      <4>2. CASE Len(s) # 1
        BY <2>1, <2>0, <4>2 DEF Levels
      <4>3. QED
        BY <4>1, <4>2
    <3>2. ASSUME NEW i \in 1..Len(t) PROVE t[i].val <= t[i].len
      <4>1. CASE i = Len(s)
        BY <2>2, <4>1
      <4>2. CASE i # Len(s)
        <5>1. i \in 1..(Len(s) - 1) /\ i \in 1..Len(s)
          BY <2>1, <2>0, <4>2, LastLevel
        <5>2. s[i].val <= s[i].len /\ t[i] = s[i]
          BY <2>1, <5>1 DEF Levels
        <5>3. QED
          BY <5>2
      <4>3. QED
        BY <4>1, <4>2
    <3>3. ASSUME NEW i \in 1..(Len(t) - 1)
          PROVE  t[i].val = 0 /\ t[i + 1].base = t[i].base + t[i].len
      <4>1. i \in 1..(Len(s) - 1)
        BY <2>1
      <4>2. s[i].val = 0 /\ s[i + 1].base = s[i].base + s[i].len
        BY <4>1 DEF Levels
      <4>3. t[i] = s[i] /\ t[i + 1].base = s[i + 1].base
        <5>1. CASE i + 1 = Len(s)
          BY <2>1, <4>1, <5>1
        <5>2. CASE i + 1 # Len(s)
          <6>1. i + 1 \in 1..(Len(s) - 1)
            BY <2>0, <4>1, <5>2, LastLevel
          <6>2. QED
            BY <2>1, <4>1, <6>1
        <5>3. QED
          BY <5>1, <5>2
      <4>4. QED
        BY <4>2, <4>3
    <3>4. QED
      BY <2>1, <3>1, <3>2, <3>3, LastLevel DEF Levels
  <2>4. Used(t) = Used(s) + Takes(c, s)
    BY <1>1, <2>1, LastLevel DEF Used, Last
  <2>5. QED
    BY <2>3, <2>4 DEF t
<1>3. CASE c.op = "start"
  <2>1. /\ t \in Seq(Level) /\ Len(t) = Len(s) + 1
        /\ \A i \in 1..Len(s) : t[i] = s[i]
        /\ t[Len(s) + 1].len = 0 /\ t[Len(s) + 1].val = 0
        /\ t[Len(s) + 1].base = Used(s)
    BY <1>3, MovedStart
  <2>2. s[Len(s)].val = 0
    BY <1>3 DEF Legit, Last
  <2>3. Takes(c, s) = 0
    BY <1>3 DEF Takes
  <2> HIDE DEF t
  <2>4. Levels(t)
    <3>1. t[1].base = 0 /\ Len(t) >= 1
      BY <2>1, LastLevel DEF Levels
    <3>2. ASSUME NEW i \in 1..Len(t) PROVE t[i].val <= t[i].len
      BY <2>1, LastLevel DEF Levels
    <3>3. ASSUME NEW i \in 1..(Len(t) - 1)
          PROVE  t[i].val = 0 /\ t[i + 1].base = t[i].base + t[i].len
      <4>1. CASE i = Len(s)
        BY <2>1, <2>2, <4>1, LastLevel
      <4>2. CASE i # Len(s)
        <5>1. i \in 1..(Len(s) - 1) /\ i + 1 \in 1..Len(s)
          BY <2>1, <4>2, LastLevel
        <5>2. s[i].val = 0 /\ s[i + 1].base = s[i].base + s[i].len
          BY <5>1 DEF Levels
        <5>3. t[i] = s[i] /\ t[i + 1] = s[i + 1]
          BY <2>1, <5>1
        <5>4. QED
          BY <5>2, <5>3
      <4>3. QED
        BY <4>1, <4>2
    <3>4. QED
      BY <2>1, <3>1, <3>2, <3>3 DEF Levels
  <2>5. Used(t) = Used(s) + Takes(c, s)
    BY <2>1, <2>3, LastLevel DEF Used, Last
  <2>6. QED
    BY <2>4, <2>5 DEF t
<1>4. CASE c.op = "end"
  <2> DEFINE m == Len(s) - 1
  <2>1. Len(s) > 1
    BY <1>4 DEF Legit
  <2>2. /\ t \in Seq(Level) /\ Len(t) = m
        /\ \A i \in 1..(m - 1) : t[i] = s[i]
        /\ t[m].len = s[m].len + s[Len(s)].len
        /\ t[m].val = s[Len(s)].len /\ t[m].base = s[m].base
    BY <1>4, <2>1, MovedEnd
  <2>3. Takes(c, s) = 0
    BY <1>4 DEF Takes
  <2>4. s[m + 1].base = s[m].base + s[m].len
    BY <2>1, LastLevel DEF Levels
  <2>0. m \in 1..(Len(s) - 1) /\ m + 1 = Len(s) /\ Len(s) \in 1..Len(s)
    BY <2>1, LastLevel
  <2> HIDE DEF t, m
  <2>5. Levels(t)
    <3>1. t[1].base = 0 /\ Len(t) >= 1
      <4>1. CASE m = 1
        BY <2>2, <4>1 DEF Levels
      <4>2. CASE m # 1
        BY <2>2, <2>0, <4>2, LastLevel DEF Levels
      <4>3. QED
        BY <4>1, <4>2
    <3>2. ASSUME NEW i \in 1..Len(t) PROVE t[i].val <= t[i].len
      <4>1. CASE i = m
        <5>1. PICK a, b : a = s[m].len /\ b = s[Len(s)].len
          OBVIOUS
        <5>2. a \in Nat /\ b \in Nat
          BY <2>0, <5>1, LastLevel
        <5>3. t[m].val = b /\ t[m].len = a + b
          BY ONLY <2>2, <5>1, Zenon
        <5>4. b <= a + b
          BY ONLY <5>2
        <5> QED BY <4>1, <5>3, <5>4, Zenon
      <4>2. CASE i # m
        <5>1. i \in 1..(m - 1) /\ i \in 1..Len(s)
          BY <2>2, <2>0, <4>2, LastLevel
        <5>2. s[i].val <= s[i].len /\ t[i] = s[i]
          BY <2>2, <5>1 DEF Levels
        <5>3. QED
          BY <5>2
      <4>3. QED
        BY <4>1, <4>2
    <3>3. ASSUME NEW i \in 1..(Len(t) - 1)
          PROVE  t[i].val = 0 /\ t[i + 1].base = t[i].base + t[i].len
      <4>1. i \in 1..(m - 1) /\ i \in 1..(Len(s) - 1)
        BY <2>2, <2>0, LastLevel
      <4>2. s[i].val = 0 /\ s[i + 1].base = s[i].base + s[i].len
        BY <4>1 DEF Levels
      <4>3. t[i] = s[i] /\ t[i + 1].base = s[i + 1].base
        <5>1. CASE i + 1 = m
          BY <2>2, <4>1, <5>1
        <5>2. CASE i + 1 # m
          <6>1. i + 1 \in 1..(m - 1)
            BY <2>0, <4>1, <5>2, LastLevel
          <6>2. QED
            BY <2>2, <4>1, <6>1
        <5>3. QED
          BY <5>1, <5>2
      <4>4. QED
        BY <4>2, <4>3
    <3>4. QED
      BY <2>2, <3>1, <3>2, <3>3 DEF Levels
  <2>6. Used(t) = Used(s) + Takes(c, s)
    <3>1. Used(t) = t[m].base + t[m].len
      BY <2>2 DEF Used, Last
    <3>2. Used(s) = s[Len(s)].base + s[Len(s)].len
      BY DEF Used, Last
    <3>3. PICK a, b, d :
            a = s[m].base /\ b = s[m].len /\ d = s[Len(s)].len
      OBVIOUS
    <3>4. a \in Nat /\ b \in Nat /\ d \in Nat
      BY <2>0, <3>3, LastLevel
    <3>5. /\ Used(t) = a + (b + d) /\ Used(s) = (a + b) + d
          /\ Takes(c, s) = 0
      BY ONLY <2>2, <2>3, <2>4, <2>0, <3>1, <3>2, <3>3, Zenon
    <3>6. a + (b + d) = ((a + b) + d) + 0
      BY ONLY <3>4
    <3> QED BY ONLY <3>5, <3>6, Zenon
  <2>7. QED
    BY <2>5, <2>6 DEF t
<1>5. QED
  BY <1>0, <1>2, <1>3, <1>4

-----------------------------------------------------------------------------
(* A call and the encoders.                                                *)

\* Top is the last counter with a size.
LEMMA TopIs ==
  ASSUME NEW s, Levels(s), Agrees(s)
  PROVE  /\ Len(enc) = Len(s) /\ Len(s) \in 1..Len(s) /\ Top \in Encoder
         /\ Top.len = s[Len(s)].len /\ Top.len_val = s[Len(s)].val
         /\ Top.offset = Top.size - Top.len /\ Free = Top.size - Top.len
         /\ Top.len \in Nat /\ Top.len_val \in Nat
         /\ Top.size \in Int /\ Top.offset \in Int
<1>1. Len(enc) = Len(s) /\ Len(s) \in 1..Len(s)
  BY LastLevel DEF Agrees
<1>2. Top \in Encoder
  BY <1>1 DEF Agrees, Top
<1>3. /\ Top.len = s[Len(s)].len /\ Top.len_val = s[Len(s)].val
      /\ Top.offset = Top.size - Top.len
  BY <1>1 DEF Agrees, Top
<1>4. /\ Top.len \in Nat /\ Top.len_val \in Nat
      /\ Top.size \in Int /\ Top.offset \in Int
  BY <1>2 DEF Encoder
<1>5. QED
  BY <1>1, <1>2, <1>3, <1>4 DEF Free

LEMMA WriteKeeps ==
  ASSUME BufTypeOK, NEW pos, NEW bytes, buf' = Write(pos, bytes)
  PROVE  BufTypeOK' /\ Len(buf') = Len(buf)
<1> DEFINE n == Len(buf)
           f == Write(pos, bytes)
<1>1. n \in Nat /\ DOMAIN buf = 1..n
  BY DEF BufTypeOK
<1>2. f = [i \in 1..n |-> f[i]]
  BY <1>1, Zenon DEF Write
<1> HIDE DEF n, f
<1>3. Len(f) = n /\ DOMAIN f = 1..n
  BY <1>1, <1>2, SequenceOf
<1>4. QED
  BY <1>1, <1>3 DEF BufTypeOK, f, n

\* An encoder whose counters are changed.
Counted(r, k, v) ==
  [r EXCEPT !.len = @ + k, !.offset = @ - k, !.len_val = v]

LEMMA CountedIs ==
  ASSUME NEW r \in Encoder, NEW k \in Nat, NEW v \in Nat
  PROVE  /\ Counted(r, k, v) \in Encoder
         /\ Counted(r, k, v).len = r.len + k
         /\ Counted(r, k, v).size = r.size
         /\ Counted(r, k, v).len_val = v
         /\ Counted(r, k, v).offset = r.offset - k
<1>1. /\ r.len \in Nat /\ r.offset \in Int
      /\ r.len + k \in Nat /\ r.offset - k \in Int
  BY DEF Encoder
<1>2. PICK l, o, e :
        l = r.len + k /\ o = r.offset - k /\ e = Counted(r, k, v)
  OBVIOUS
<1>3. l \in Nat /\ o \in Int
  BY ONLY <1>1, <1>2
<1>4. e = [r EXCEPT !.len = l, !.offset = o, !.len_val = v]
  BY ONLY <1>2 DEF Counted
<1>5. /\ DOMAIN r = {"len", "size", "len_val", "offset"}
      /\ r = [x \in DOMAIN r |-> r[x]] /\ r.size \in Int
  BY ONLY r \in Encoder DEF Encoder
<1>6. /\ DOMAIN e = {"len", "size", "len_val", "offset"}
      /\ e = [x \in DOMAIN e |-> e[x]]
      /\ e.len = l /\ e.size = r.size /\ e.len_val = v /\ e.offset = o
  BY ONLY <1>4, <1>5
<1>7. e \in Encoder
  BY ONLY <1>3, <1>5, <1>6, v \in Nat DEF Encoder
<1> QED BY ONLY <1>2, <1>6, <1>7

\* What Legit and the encoders make of a call, by its kind.
LEMMA TopCall ==
  ASSUME NEW s, Levels(s), Agrees(s), NEW c \in Call, NEW i,
         c.op \in {"data", "hdr"}, Do(c, i), BufTypeOK
  PROVE  /\ Legit(c, s) /\ Agrees(Moved(c, s))'
         /\ BufTypeOK' /\ Len(buf') = Len(buf)
         /\ Shares(s) /\ ~Dry => Shares(Moved(c, s))'
<1> DEFINE t == Moved(c, s)
           n == Len(s)
           k == Takes(c, s)
           v == IF c.op = "data" THEN s[n].val + c.n ELSE 0
           e == Counted(Top, k, v)
<1>1. /\ Len(enc) = n /\ n \in 1..n /\ Top \in Encoder
      /\ Top.len = s[n].len /\ Top.len_val = s[n].val
      /\ Top.offset = Top.size - Top.len /\ Free = Top.size - Top.len
      /\ Top.len \in Nat /\ Top.len_val \in Nat
      /\ Top.size \in Int /\ Top.offset \in Int
  BY TopIs
<1>2. /\ t \in Seq(Level) /\ Len(t) = n
      /\ \A j \in 1..(n - 1) : t[j] = s[j]
      /\ t[n].len = s[n].len + k /\ t[n].base = s[n].base
      /\ t[n].val = v
  BY MovedTop
<1>3. k \in Nat /\ c.n \in Nat
  BY TakesNat DEF Call
<1>4. /\ c.op = "hdr" => c.tag.cla # ClassInvalid
      /\ enc' = SetTop(e)
      /\ ~Dry => k <= Free
      /\ \E pos, bytes : buf' = Write(pos, bytes)
  <2>1. CASE c.op = "data"
    <3>1. DataFits(c.n) /\ EncData(c.n, i)
      BY <2>1 DEF Do, EncData
    <3>2. k = c.n
      BY <2>1 DEF Takes
    <3>3. e = [Top EXCEPT !.offset = @ - c.n, !.len_val = @ + c.n,
                          !.len = @ + c.n]
      BY <1>1, <2>1, <3>2 DEF Encoder, Counted
    <3>4. QED
      BY <1>1, <1>3, <2>1, <3>1, <3>2, <3>3 DEF DataFits, EncData
  <2>2. CASE c.op = "hdr"
    <3>1. EncHdr(c.tag)
      BY <2>2 DEF Do
    <3>2. k = HdrLen(c.tag)
      BY <1>1, <2>2 DEF Takes, HdrLen, Last
    <3>3. e = [Top EXCEPT !.len = @ + HdrLen(c.tag),
                          !.offset = @ - HdrLen(c.tag), !.len_val = 0]
      BY <1>1, <2>2, <3>2 DEF Encoder, Counted
    <3>4. QED
      BY <2>2, <3>1, <3>2, <3>3 DEF EncHdr, HdrFits
  <2>3. QED
    BY <2>1, <2>2
<1>5. Legit(c, s)
  BY <1>4 DEF Legit
<1>6. BufTypeOK' /\ Len(buf') = Len(buf)
  BY <1>4, WriteKeeps
<1>7. /\ e \in Encoder /\ e.len = Top.len + k /\ e.len_val = v
      /\ e.size = Top.size /\ e.offset = e.size - e.len
  <2>1. v \in Nat
    BY <1>1, <1>3
  <2> HIDE DEF v, k
  <2>2. /\ e \in Encoder /\ e.len = Top.len + k /\ e.len_val = v
        /\ e.size = Top.size /\ e.offset = Top.offset - k
    <3>1. Top \in Encoder /\ k \in Nat
      BY <1>1, <1>3
    <3>2. QED
      BY <2>1, <3>1, CountedIs
  <2>3. QED
    BY <1>1, <1>3, <2>2
<1>8. enc \in Seq(Encoder)
  BY DEF Agrees
<1> HIDE DEF e, k, v, t
<1>9. /\ enc' \in Seq(Encoder) /\ Len(enc') = n /\ enc'[n] = e
      /\ \A j \in 1..(n - 1) : enc'[j] = enc[j]
  BY <1>1, <1>4, <1>7, <1>8 DEF SetTop
<1>10. Agrees(t)'
  <2>1. ASSUME NEW j \in 1..n
        PROVE  /\ enc'[j].len = t[j].len /\ enc'[j].len_val = t[j].val
               /\ enc'[j].offset = enc'[j].size - enc'[j].len
    <3>1. CASE j = n
      BY <1>1, <1>2, <1>7, <1>9, <3>1
    <3>2. CASE j # n
      <4>1. j \in 1..(n - 1)
        BY <1>1, <3>2
      <4>2. QED
        BY <1>2, <1>9, <4>1 DEF Agrees
    <3>3. QED
      BY <3>1, <3>2
  <2>2. QED
    BY <1>2, <1>9, <2>1 DEF Agrees
<1>11. ASSUME Shares(s), ~Dry PROVE Shares(t)'
  <2>1. ASSUME NEW j \in 1..n
        PROVE  /\ enc'[j].size = Len(buf') - t[j].base
               /\ enc'[j].len <= enc'[j].size
    <3>1. CASE j = n
      <4>1. Top.size = Len(buf) - s[n].base
        BY <1>1, <1>11 DEF Shares, Top
      <4>2. Top.len + k <= Top.size
        BY <1>1, <1>3, <1>4, <1>11
      <4>3. QED
        BY <1>2, <1>6, <1>7, <1>9, <3>1, <4>1, <4>2
    <3>2. CASE j # n
      <4>1. j \in 1..(n - 1)
        BY <1>1, <3>2
      <4>2. QED
        BY <1>2, <1>6, <1>9, <1>11, <4>1 DEF Shares
    <3>3. QED
      BY <3>1, <3>2
  <2>2. QED
    BY <1>2, <2>1 DEF Shares
<1>12. QED
  BY <1>5, <1>6, <1>10, <1>11 DEF t

LEMMA StartOrEnd ==
  ASSUME NEW s, Levels(s), Agrees(s), NEW c \in Call, NEW i,
         c.op \in {"start", "end"}, c.op = "end" => Len(enc) > 1,
         Do(c, i), BufTypeOK, NoLimit \in Nat
  PROVE  /\ Legit(c, s) /\ Agrees(Moved(c, s))'
         /\ BufTypeOK' /\ Len(buf') = Len(buf)
         /\ Shares(s) /\ ~Dry => Shares(Moved(c, s))'
<1> DEFINE t == Moved(c, s)
           n == Len(s)
<1>1. /\ Len(enc) = n /\ n \in 1..n /\ Top \in Encoder
      /\ Top.len = s[n].len /\ Top.len_val = s[n].val
      /\ Top.offset = Top.size - Top.len /\ Free = Top.size - Top.len
      /\ Top.len \in Nat /\ Top.len_val \in Nat
      /\ Top.size \in Int /\ Top.offset \in Int
  BY TopIs
<1>2. enc \in Seq(Encoder)
  BY DEF Agrees
<1>3. CASE c.op = "start"
  <2> DEFINE e == EncInit(IF Dry THEN NoLimit ELSE Free)
  <2>1. /\ t \in Seq(Level) /\ Len(t) = n + 1
        /\ \A j \in 1..n : t[j] = s[j]
        /\ t[n + 1].len = 0 /\ t[n + 1].val = 0 /\ t[n + 1].base = Used(s)
    BY <1>3, MovedStart
  <2>2. /\ CanNest /\ enc' = Append(enc, e) /\ buf' = buf
    BY <1>3 DEF Do, EncNstdStart
  <2>3. Legit(c, s)
    BY <1>1, <1>3, <2>2 DEF Legit, CanNest, Last
  <2>4. /\ e \in Encoder /\ e.len = 0 /\ e.len_val = 0
        /\ e.offset = e.size - e.len
        /\ ~Dry => e.size = Free
    <3> DEFINE z == IF Dry THEN NoLimit ELSE Free
    <3>1. z \in Int
      BY <1>1
    <3>2. ~Dry => z = Free
      OBVIOUS
    <3> HIDE DEF z
    <3>3. QED
      BY <3>1, <3>2 DEF EncInit, Encoder
  <2> HIDE DEF t, e
  <2>5. /\ enc' \in Seq(Encoder) /\ Len(enc') = n + 1 /\ enc'[n + 1] = e
        /\ \A j \in 1..n : enc'[j] = enc[j]
    BY <1>1, <1>2, <2>2, <2>4
  <2>6. Agrees(t)'
    <3>1. ASSUME NEW j \in 1..(n + 1)
          PROVE  /\ enc'[j].len = t[j].len /\ enc'[j].len_val = t[j].val
                 /\ enc'[j].offset = enc'[j].size - enc'[j].len
      <4>1. CASE j = n + 1
        <5>1. enc'[j] = e /\ t[j].len = 0 /\ t[j].val = 0
          BY <2>1, <2>5, <4>1
        <5>2. /\ e.len = 0 /\ e.len_val = 0
              /\ e.offset = e.size - e.len
          BY <2>4, Zenon
        <5>3. QED
          BY <5>1, <5>2
      <4>2. CASE j # n + 1
        <5>1. j \in 1..n
          BY <1>1, <4>2
        <5>2. QED
          BY <2>1, <2>5, <5>1 DEF Agrees
      <4>3. QED
        BY <4>1, <4>2
    <3>2. QED
      BY <2>1, <2>5, <3>1 DEF Agrees
  <2>7. ASSUME Shares(s), ~Dry PROVE Shares(t)'
    <3>1. ASSUME NEW j \in 1..(n + 1)
          PROVE  /\ enc'[j].size = Len(buf') - t[j].base
                 /\ enc'[j].len <= enc'[j].size
      <4>1. CASE j = n + 1
        <5>1. Top.size = Len(buf) - s[n].base /\ Top.len <= Top.size
          BY <1>1, <2>7 DEF Shares, Top
        <5>2. /\ Len(buf) \in Nat /\ s[n].base \in Nat
              /\ Used(s) = s[n].base + s[n].len
          BY <1>1, LastLevel DEF BufTypeOK
        <5>3. e.size = Free
          BY <2>4, <2>7, Zenon
        <5>4. /\ e.size = Top.size - Top.len /\ Top.len = s[n].len
              /\ Top.size \in Int /\ Top.len \in Nat
          BY <1>1, <5>3
        <5>5. e.size = Len(buf) - Used(s) /\ e.size >= 0
          BY <5>1, <5>2, <5>4
        <5>6. QED
          BY <2>1, <2>2, <2>4, <2>5, <4>1, <5>5
      <4>2. CASE j # n + 1
        <5>1. j \in 1..n
          BY <1>1, <4>2
        <5>2. QED
          BY <2>1, <2>2, <2>5, <2>7, <5>1 DEF Shares
      <4>3. QED
        BY <4>1, <4>2
    <3>2. QED
      BY <2>1, <3>1 DEF Shares
  <2>8. QED
    BY <2>2, <2>3, <2>6, <2>7 DEF t, BufTypeOK
<1>4. CASE c.op = "end"
  <2> DEFINE m == n - 1
             o == enc[m]
             e == [o EXCEPT !.len = @ + Top.len, !.len_val = Top.len,
                            !.offset = @ - Top.len]
  <2>1. n > 1 /\ m \in 1..(n - 1) /\ m + 1 = n /\ m \in 1..n
    BY <1>1, <1>4
  <2>2. /\ t \in Seq(Level) /\ Len(t) = m
        /\ \A j \in 1..(m - 1) : t[j] = s[j]
        /\ t[m].len = s[m].len + s[n].len
        /\ t[m].val = s[n].len /\ t[m].base = s[m].base
    BY <1>4, <2>1, MovedEnd
  <2>3. /\ enc' = [SubSeq(enc, 1, m) EXCEPT ![m] = e] /\ buf' = buf
    BY <1>1, <1>4 DEF Do, EncNstdEnd
  <2>4. Legit(c, s)
    BY <1>4, <2>1 DEF Legit
  <2>5. /\ o \in Encoder /\ o.len = s[m].len
        /\ o.offset = o.size - o.len
    BY <1>2, <2>1 DEF Agrees
  <2>6. /\ e \in Encoder /\ e.len = o.len + Top.len
        /\ e.len_val = Top.len /\ e.size = o.size
        /\ e.offset = e.size - e.len
    <3>1. e = Counted(o, Top.len, Top.len)
      BY <2>5 DEF Counted, Encoder
    <3>2. /\ o.len \in Nat /\ o.size \in Int
      BY <2>5 DEF Encoder
    <3> HIDE DEF e, o
    <3>3. /\ e \in Encoder /\ e.len = o.len + Top.len
          /\ e.len_val = Top.len /\ e.size = o.size
          /\ e.offset = o.offset - Top.len
      <4>1. PICK r \in Encoder : r = o
        BY <2>5
      <4>2. PICK k \in Nat : k = Top.len
        BY <1>1
      <4>3. /\ Counted(r, k, k) \in Encoder
            /\ Counted(r, k, k).len = r.len + k
            /\ Counted(r, k, k).size = r.size
            /\ Counted(r, k, k).len_val = k
            /\ Counted(r, k, k).offset = r.offset - k
        BY ONLY CountedIs
      <4>4. e = Counted(r, k, k)
        BY <3>1, <4>1, <4>2, Zenon
      <4> QED BY <4>1, <4>2, <4>3, <4>4, Zenon
    <3>4. QED
      BY <1>1, <2>5, <3>2, <3>3
  <2> HIDE DEF t, e, o, m
  <2>7. /\ enc' \in Seq(Encoder) /\ Len(enc') = m /\ enc'[m] = e
        /\ \A j \in 1..(m - 1) : enc'[j] = enc[j]
    <3> DEFINE r == SubSeq(enc, 1, m)
    <3>1. /\ r \in Seq(Encoder) /\ Len(r) = m
          /\ \A j \in 1..m : r[j] = enc[j]
      BY <1>1, <1>2, <2>1
    <3> HIDE DEF r
    <3>2. enc' = [r EXCEPT ![m] = e]
      BY <2>3 DEF r
    <3>3. m \in 1..m
      BY <2>1
    <3>4. QED
      BY <2>6, <3>1, <3>2, <3>3
  <2>8. Agrees(t)'
    <3>1. ASSUME NEW j \in 1..m
          PROVE  /\ enc'[j].len = t[j].len /\ enc'[j].len_val = t[j].val
                 /\ enc'[j].offset = enc'[j].size - enc'[j].len
      <4>1. CASE j = m
        BY <1>1, <2>2, <2>5, <2>6, <2>7, <4>1
      <4>2. CASE j # m
        <5>1. j \in 1..(m - 1) /\ j \in 1..n
          BY <1>1, <2>1, <4>2
        <5>2. QED
          BY <2>2, <2>7, <5>1 DEF Agrees
      <4>3. QED
        BY <4>1, <4>2
    <3>2. QED
      BY <2>2, <2>7, <3>1 DEF Agrees
  <2>9. ASSUME Shares(s), ~Dry PROVE Shares(t)'
    <3>1. ASSUME NEW j \in 1..m
          PROVE  /\ enc'[j].size = Len(buf') - t[j].base
                 /\ enc'[j].len <= enc'[j].size
      <4>1. CASE j = m
        <5>1. /\ Top.size = Len(buf) - s[n].base /\ Top.len <= Top.size
              /\ o.size = Len(buf) - s[m].base
          BY <1>1, <2>1, <2>9 DEF Shares, Top, o
        <5>2. s[n].base = s[m].base + s[m].len
          BY <2>1 DEF Levels
        <5>3. /\ Len(buf) \in Nat /\ s[m].base \in Nat /\ s[m].len \in Nat
          BY <2>1, LastLevel DEF BufTypeOK
        <5>4. /\ e.len = s[m].len + Top.len /\ e.size = o.size
              /\ Top.len \in Nat
          BY <1>1, <2>5, <2>6
        <5>5. e.len <= e.size /\ e.size = Len(buf) - s[m].base
          BY <5>1, <5>2, <5>3, <5>4
        <5>6. QED
          BY <2>2, <2>3, <2>7, <4>1, <5>5
      <4>2. CASE j # m
        <5>1. j \in 1..(m - 1) /\ j \in 1..n
          BY <1>1, <2>1, <4>2
        <5>2. QED
          BY <2>2, <2>3, <2>7, <2>9, <5>1 DEF Shares
      <4>3. QED
        BY <4>1, <4>2
    <3>2. QED
      BY <2>2, <3>1 DEF Shares
  <2>10. QED
    BY <2>3, <2>4, <2>8, <2>9 DEF t, BufTypeOK
<1>5. QED
  BY <1>3, <1>4

LEMMA CallMoves ==
  ASSUME NEW s, Levels(s), Agrees(s), NEW c \in Call, NEW i,
         c.op = "end" => Len(enc) > 1, Do(c, i), BufTypeOK
  PROVE  /\ Legit(c, s) /\ Agrees(Moved(c, s))'
         /\ BufTypeOK' /\ Len(buf') = Len(buf)
         /\ Shares(s) /\ ~Dry => Shares(Moved(c, s))'
<1>1. c.op \in {"data", "hdr"} \/ c.op \in {"start", "end"}
  BY DEF Call
<1>2. NoLimit \in Nat
  BY EncoderAssumption
<1>3. QED
  BY <1>1, <1>2, TopCall, StartOrEnd

\* Counters that agree with the encoders are what Bookkeeping is about.
LEMMA KeepsBooks ==
  ASSUME NEW s, Levels(s), Agrees(s), Offered => Shares(s), BufTypeOK
  PROVE  Bookkeeping
<1>1. SUFFICES ASSUME NEW i \in 1..Len(enc)
               PROVE  /\ enc[i].offset = enc[i].size - enc[i].len
                      /\ enc[i].len_val <= enc[i].len
                      /\ Offered => enc[i].len <= enc[i].size
                      /\ i < Len(enc) => enc[i].len_val = 0
                      /\ i < Len(enc) /\ Offered =>
                           enc[i + 1].size = enc[i].size - enc[i].len
  BY Zenon DEF Bookkeeping
<1>2. Len(enc) = Len(s) /\ Len(s) \in Nat /\ i \in 1..Len(s)
  BY LastLevel DEF Agrees
<1>3. /\ enc[i].len = s[i].len /\ enc[i].len_val = s[i].val
      /\ enc[i].offset = enc[i].size - enc[i].len
  BY <1>2 DEF Agrees
<1>4. s[i].val <= s[i].len /\ s[i].len \in Nat /\ s[i].base \in Nat
  BY <1>2, LastLevel DEF Levels
<1>5. ASSUME Offered PROVE enc[i].len <= enc[i].size
  BY <1>2, <1>5 DEF Shares
<1>6. ASSUME i < Len(enc)
      PROVE  s[i].val = 0 /\ s[i + 1].base = s[i].base + s[i].len
  <2>1. i \in 1..(Len(s) - 1)
    BY <1>2, <1>6
  <2>2. QED
    BY <2>1 DEF Levels
<1>7. ASSUME i < Len(enc), Offered
      PROVE  enc[i + 1].size = enc[i].size - enc[i].len
  <2>1. i + 1 \in 1..Len(s)
    BY <1>2, <1>7
  <2>2. /\ enc[i].size = Len(buf) - s[i].base
        /\ enc[i + 1].size = Len(buf) - s[i + 1].base
    BY <1>2, <1>7, <2>1 DEF Shares
  <2>3. PICK L, a, b : L = Len(buf) /\ a = s[i].base /\ b = s[i].len
    OBVIOUS
  <2>4. L \in Nat /\ a \in Nat /\ b \in Nat
    BY <1>4, <2>3, Zenon DEF BufTypeOK
  <2>5. /\ enc[i].size = L - a /\ enc[i].len = b
        /\ enc[i + 1].size = L - (a + b)
    BY <1>3, <1>6, <1>7, <2>2, <2>3, Zenon
  <2>6. L - (a + b) = (L - a) - b
    BY ONLY <2>4
  <2> QED BY ONLY <2>5, <2>6, Zenon
<1>8. QED
  BY <1>3, <1>4, <1>5, <1>6, <1>7

-----------------------------------------------------------------------------
(* The calls of the caller.                                                *)

LEMMA NoTagIsTag == NoTag \in Tag
<1>1. \A P, Q, R : \A a \in P, b \in Q, c \in R :
        [cla |-> a, pc |-> b, num |-> c] \in [cla : P, pc : Q, num : R]
  OBVIOUS
<1>2. 0 \in 0..4 /\ FALSE \in BOOLEAN /\ 0 \in 0..TagNumMax
  BY DEF TagNumMax
<1>3. QED
  BY <1>1, <1>2, Zenon DEF NoTag, Tag

LEMMA CallOf ==
  ASSUME NEW op \in {"data", "hdr", "start", "end"}, NEW n \in Nat,
         NEW tag \in Tag
  PROVE  [op |-> op, n |-> n, tag |-> tag] \in Call
  BY DEF Call

LEMMA CallsAre ==
  ASSUME Top.len_val \in Nat, NEW c \in Calls
  PROVE  c \in Call
<1>1. 0 \in Nat /\ Tags \subseteq Tag /\ DataLens \subseteq Nat
  BY EncoderAssumption
<1>2. CASE \E n \in DataLens : c = DataCall(n)
  <2>1. PICK n \in DataLens : c = DataCall(n)
    BY <1>2
  <2>2. n \in Nat
    BY <1>1
  <2>3. QED
    BY <2>1, <2>2, NoTagIsTag, CallOf DEF DataCall
<1>3. CASE c \in {StartCall, EndCall}
  BY <1>3, NoTagIsTag, CallOf DEF StartCall, EndCall
<1>4. CASE \E tag \in Tags : c = HdrCall(tag, Top.len_val)
  <2>1. PICK tag \in Tags : c = HdrCall(tag, Top.len_val)
    BY <1>4
  <2>2. tag \in Tag
    BY <1>1
  <2>3. QED
    BY <2>1, <2>2, CallOf DEF HdrCall
<1>5. QED
  BY <1>2, <1>3, <1>4, Zenon DEF Calls

LEMMA AllowedEnd ==
  ASSUME NEW c \in Call, Allowed(c), c.op = "end"
  PROVE  Len(enc) > 1
  BY DEF Allowed

-----------------------------------------------------------------------------
(* The steps.                                                              *)

LEMMA InitHolds == EncoderStart => EncoderInv
<1> SUFFICES ASSUME EncoderStart PROVE EncoderInv
  OBVIOUS
<1> DEFINE l == [len |-> 0, val |-> 0, base |-> 0]
           h == [k \in {0} |-> <<l>>]
<1>1. /\ pass = "dry" /\ enc = <<EncInit(NoLimit)>> /\ buf = << >>
      /\ calls = << >> /\ next = 1 /\ need = 0
  BY DEF EncoderStart
<1>2. /\ EncInit(NoLimit) \in Encoder /\ EncInit(NoLimit).len = 0
      /\ EncInit(NoLimit).len_val = 0
      /\ EncInit(NoLimit).offset =
           EncInit(NoLimit).size - EncInit(NoLimit).len
  BY EncoderAssumption DEF EncInit, Encoder
<1>3. l \in Level /\ l.len = 0 /\ l.val = 0 /\ l.base = 0
  BY DEF Level
<1>4. h[0] = <<l>>
  OBVIOUS
<1>5. Levels(<<l>>)
  BY <1>3 DEF Levels
<1>6. Agrees(<<l>>)
  BY <1>1, <1>2, <1>3 DEF Agrees
<1>7. calls \in Seq(Call) /\ Len(calls) = 0 /\ BufTypeOK
  BY <1>1 DEF BufTypeOK
<1>8. History(h)
  <2>1. \A k \in 0..Len(calls) : k = 0
    BY <1>7
  <2>2. \A k \in 1..Len(calls) : FALSE
    BY <1>7
  <2>3. Used(<<l>>) <= Used(<<l>>)
    BY <1>5, LastLevel
  <2> HIDE DEF h
  <2>4. QED
    BY <1>4, <1>5, <1>7, <2>1, <2>2, <2>3 DEF History
<1>9. DryInv
  BY <1>4, <1>6, <1>7, <1>8 DEF DryInv
<1>10. QED
  BY <1>1, <1>7, <1>9 DEF EncoderInv, Offered

\* A call of the first pass adds a moment to the history.
LEMMA HistoryGrows ==
  ASSUME calls \in Seq(Call), NEW h, History(h), NEW c \in Call,
         Legit(c, h[Len(calls)]), calls' = Append(calls, c),
         Follows(c, OpAt(calls, Len(calls)), h[Len(calls)])
  PROVE  \E g : /\ History(g)'
                /\ g[Len(calls')] = Moved(c, h[Len(calls)])
<1>0. PICK n \in Nat : n = Len(calls)
  OBVIOUS
<1> DEFINE t == Moved(c, h[n])
           g == [k \in 0..(n + 1) |-> IF k <= n THEN h[k] ELSE t]
<1>1. n = Len(calls) /\ n \in 0..n
  BY <1>0
<1>2. /\ Len(calls') = n + 1 /\ calls'[n + 1] = c
      /\ \A k \in 1..n : calls'[k] = calls[k]
  BY <1>1
<1>3. Levels(h[n]) /\ Legit(c, h[n])
  BY <1>1 DEF History
<1>4. Levels(t) /\ Used(t) = Used(h[n]) + Takes(c, h[n])
  BY <1>3, MovedLevels
<1>5. Takes(c, h[n]) \in Nat /\ Used(h[n]) \in Nat
  BY <1>3, TakesNat, LastLevel
<1>6. g[n + 1] = t /\ \A k \in 0..n : g[k] = h[k]
  BY <1>1
<1> HIDE DEF g, t
<1>7. g[0] = <<[len |-> 0, val |-> 0, base |-> 0]>>
  BY <1>1, <1>6 DEF History
<1>8. ASSUME NEW k \in 0..(n + 1)
      PROVE  Levels(g[k]) /\ Used(g[k]) \in Nat /\ Used(g[k]) <= Used(g[n + 1])
  <2>1. CASE k = n + 1
    BY <1>4, <1>5, <1>6, <2>1
  <2>2. CASE k # n + 1
    <3>1. k \in 0..n
      BY <1>1, <2>2
    <3>2. Levels(h[k]) /\ Used(h[k]) <= Used(h[n])
      BY <1>1, <3>1 DEF History
    <3>3. Used(h[k]) \in Nat
      BY <3>2, LastLevel
    <3>4. QED
      BY <1>4, <1>5, <1>6, <3>1, <3>2, <3>3
  <2>3. QED
    BY <2>1, <2>2
<1>9. ASSUME NEW k \in 1..(n + 1)
      PROVE  /\ Legit(calls'[k], g[k - 1])
             /\ g[k] = Moved(calls'[k], g[k - 1])
             /\ Follows(calls'[k], OpAt(calls', k - 1), g[k - 1])
  <2>0. OpAt(calls', k - 1) = OpAt(calls, k - 1)
    BY <1>1, <1>2 DEF OpAt
  <2>1. CASE k = n + 1
    <3>1. /\ calls'[k] = c /\ g[k - 1] = h[n] /\ g[k] = t
          /\ k - 1 = n
      BY <1>1, <1>2, <1>6, <2>1
    <3>2. QED
      BY <1>1, <1>3, <2>0, <3>1 DEF t
  <2>2. CASE k # n + 1
    <3>1. k \in 1..n /\ k \in 0..n /\ k - 1 \in 0..n
      BY <1>1, <2>2
    <3>2. calls'[k] = calls[k] /\ g[k - 1] = h[k - 1] /\ g[k] = h[k]
      BY <1>2, <1>6, <3>1
    <3>3. /\ Legit(calls[k], h[k - 1]) /\ h[k] = Moved(calls[k], h[k - 1])
          /\ Follows(calls[k], OpAt(calls, k - 1), h[k - 1])
      BY <1>1, <3>1 DEF History
    <3>4. QED
      BY <2>0, <3>2, <3>3
  <2>3. QED
    BY <2>1, <2>2
<1>10. ASSUME NEW k \in 0..(n + 1), NEW m \in 0..(n + 1), k <= m
       PROVE  Used(g[k]) <= Used(g[m])
  <2>1. CASE m = n + 1
    BY <1>8, <2>1
  <2>2. CASE m # n + 1
    <3>1. k \in 0..n /\ m \in 0..n
      BY <1>1, <1>10, <2>2
    <3>2. Used(h[k]) <= Used(h[m])
      BY <1>1, <1>10, <3>1 DEF History
    <3>3. QED
      BY <1>6, <3>1, <3>2
  <2>3. QED
    BY <2>1, <2>2
<1>11. History(g)'
  BY <1>2, <1>7, <1>8, <1>9, <1>10 DEF History
<1>12. QED
  BY <1>1, <1>2, <1>6, <1>11 DEF t

\* What the guard of a call says of the one before.
LEMMA AllowedFollows ==
  ASSUME calls \in Seq(Call), NEW c \in Call, c \in Calls, Allowed(c),
         NEW s, Levels(s), Agrees(s)
  PROVE  Follows(c, OpAt(calls, Len(calls)), s)
<1>1. LastOp = OpAt(calls, Len(calls))
  BY DEF LastOp, OpAt
<1>2. ASSUME c.op = "hdr" PROVE c.n = Last(s).val
  <2>1. PICK tag \in Tags : c = HdrCall(tag, Top.len_val)
    <3>1. c \notin {StartCall, EndCall}
      BY <1>2 DEF StartCall, EndCall
    <3>2. ~\E n \in DataLens : c = DataCall(n)
      BY <1>2 DEF DataCall
    <3> QED BY <3>1, <3>2 DEF Calls
  <2>2. c.n = Top.len_val
    BY <2>1 DEF HdrCall
  <2>3. QED
    BY <2>2, TopIs DEF Last
<1>3. c.op \in {"data", "hdr", "start", "end"}
  BY DEF Call
<1>4. QED
  BY <1>1, <1>2, <1>3 DEF Allowed, Follows

LEMMA CallDryKeeps ==
  ASSUME EncoderInv, NEW c \in Calls, CallDry(c)
  PROVE  EncoderInv'
<1> DEFINE n == Len(calls)
<1>1. /\ pass = "dry" /\ Allowed(c) /\ Do(c, n + 1)
      /\ calls' = Append(calls, c) /\ pass' = "dry"
  BY DEF CallDry, Dry
<1>2. calls \in Seq(Call) /\ BufTypeOK /\ DryInv
  BY <1>1 DEF EncoderInv, Offered
<1>3. PICK h : History(h) /\ Agrees(h[n])
  BY <1>2 DEF DryInv
<1>4. PICK s : s = h[n] /\ Levels(s) /\ Agrees(s)
  BY <1>2, <1>3 DEF History
<1>5. c \in Call
  BY <1>4, TopIs, CallsAre
<1>6. c.op = "end" => Len(enc) > 1
  BY <1>1, <1>5, AllowedEnd
<1>7. /\ Legit(c, s) /\ Agrees(Moved(c, s))' /\ BufTypeOK'
  BY <1>1, <1>2, <1>4, <1>5, <1>6, CallMoves
<1>8. PICK g : History(g)' /\ g[Len(calls')] = Moved(c, s)
  <2>1. Follows(c, OpAt(calls, n), s)
    BY <1>1, <1>2, <1>4, <1>5, AllowedFollows
  <2>2. QED
    BY <1>1, <1>2, <1>3, <1>4, <1>5, <1>7, <2>1, HistoryGrows
<1>9. DryInv'
  BY <1>7, <1>8 DEF DryInv
<1>10. calls' \in Seq(Call)
  BY <1>1, <1>2, <1>5
<1>11. QED
  BY <1>1, <1>7, <1>9, <1>10 DEF EncoderInv, Offered

LEMMA CallRefusedKeeps ==
  ASSUME EncoderInv, NEW c \in Calls, CallRefused(c)
  PROVE  EncoderInv'
<1>1. /\ pass = "dry" /\ pass' = "refused"
      /\ UNCHANGED <<enc, buf, calls, next, need>>
  BY DEF CallRefused, Dry
<1>2. DryInv /\ calls \in Seq(Call) /\ BufTypeOK
  BY <1>1 DEF EncoderInv, Offered
<1>3. DryInv' /\ BufTypeOK'
  BY <1>1, <1>2 DEF DryInv, History, Agrees, BufTypeOK
<1>4. QED
  BY <1>1, <1>2, <1>3 DEF EncoderInv, Offered

\* The second pass starts where the first did, with a buffer.
LEMMA StartRealKeeps ==
  ASSUME EncoderInv, NEW size \in Nat, StartReal(size)
  PROVE  EncoderInv'
<1> DEFINE n == Len(calls)
           e == EncInit(size)
<1>1. /\ pass = "dry" /\ pass' = "real" /\ Len(enc) = 1
      /\ need' = Top.len /\ next' = 1 /\ enc' = <<e>>
      /\ buf' = [i \in 1..size |-> 0] /\ calls' = calls
  BY DEF StartReal, Dry
<1>2. calls \in Seq(Call) /\ DryInv /\ n \in Nat
  BY <1>1 DEF EncoderInv, Offered
<1>3. PICK h : History(h) /\ Agrees(h[n])
  BY <1>2 DEF DryInv
<1>4. Levels(h[n]) /\ Levels(h[0])
  BY <1>2, <1>3 DEF History
<1>5. Len(h[n]) = 1 /\ Used(h[n]) = need'
  <2>1. Len(h[n]) = 1 /\ Top.len = h[n][1].len
    BY <1>1, <1>3, <1>4, TopIs
  <2>2. h[n][1].base = 0 /\ h[n][1].len \in Nat
    <3>1. PICK s : s = h[n] /\ Levels(s) /\ Len(s) = 1
      BY <1>4, <2>1
    <3>2. 1 \in 1..Len(s) /\ s[1].base = 0
      BY <3>1 DEF Levels
    <3>3. s[1].len \in Nat
      BY <3>1, <3>2, LastLevel
    <3> QED BY ONLY <3>1, <3>2, <3>3, Zenon
  <2>3. PICK s, a : s = h[n] /\ a = s[1].len
    OBVIOUS
  <2>4. Levels(s) /\ Len(s) = 1 /\ s[1].base = 0 /\ a \in Nat
    BY ONLY <1>4, <2>1, <2>2, <2>3, Zenon
  <2>5. Used(s) = 0 + a
    BY ONLY <2>3, <2>4, LastLevel
  <2>6. Used(s) = a
    BY ONLY <2>4, <2>5
  <2> QED BY <1>1, <2>1, <2>3, <2>6, Zenon
<1>6. BufTypeOK' /\ Len(buf') = size
  <2> DEFINE f == [i \in 1..size |-> 0]
  <2>1. f = [i \in 1..size |-> f[i]]
    OBVIOUS
  <2> HIDE DEF f
  <2>2. Len(f) = size /\ DOMAIN f = 1..size
    BY <2>1, SequenceOf
  <2>3. QED
    BY <1>1, <2>2 DEF BufTypeOK, f
<1>7. /\ e \in Encoder /\ e.len = 0 /\ e.len_val = 0
      /\ e.size = size /\ e.offset = e.size - e.len
  BY DEF EncInit, Encoder
<1>8. h[0] = <<[len |-> 0, val |-> 0, base |-> 0]>>
  BY <1>3 DEF History
<1>9. /\ Len(h[0]) = 1 /\ h[0][1].len = 0 /\ h[0][1].val = 0
      /\ h[0][1].base = 0
  BY <1>8
<1> HIDE DEF e
<1>10. Agrees(h[0])'
  BY <1>1, <1>7, <1>9 DEF Agrees
<1>11. Shares(h[0])'
  BY <1>1, <1>6, <1>7, <1>9 DEF Shares
<1>12. History(h)'
  BY <1>1, <1>3 DEF History
<1>13. next' \in 1..(Len(calls') + 1) /\ next' - 1 = 0
  BY <1>1, <1>2
<1>14. RealInv'
  <2>1. Written(h, 0)'
    BY DEF Written
  <2>2. QED
    BY <1>1, <1>5, <1>10, <1>11, <1>12, <1>13, <2>1 DEF RealInv
<1>15. QED
  BY <1>1, <1>2, <1>6, <1>14 DEF EncoderInv, Offered

\* Where the second pass is in the history of the first.
LEMMA RealAt ==
  ASSUME EncoderInv, pass = "real", next <= Len(calls)
  PROVE  \E h, s :
           /\ History(h) /\ Len(h[Len(calls)]) = 1
           /\ Used(h[Len(calls)]) = need
           /\ next \in 1..Len(calls) /\ calls[next] \in Call
           /\ Levels(s) /\ Agrees(s) /\ Shares(s)
           /\ Legit(calls[next], s) /\ h[next] = Moved(calls[next], s)
           /\ s = h[next - 1] /\ Written(h, next - 1)
           /\ Follows(calls[next], OpAt(calls, next - 1), s)
<1>1. calls \in Seq(Call) /\ RealInv
  BY DEF EncoderInv, Offered
<1>2. PICK h :
        /\ History(h) /\ Len(h[Len(calls)]) = 1 /\ Used(h[Len(calls)]) = need
        /\ next \in 1..(Len(calls) + 1)
        /\ Agrees(h[next - 1]) /\ Shares(h[next - 1])
        /\ Written(h, next - 1)
  BY <1>1 DEF RealInv
<1>3. /\ next \in 1..Len(calls) /\ calls[next] \in Call
      /\ next - 1 \in 0..Len(calls)
  BY <1>1, <1>2
<1>4. /\ Levels(h[next - 1]) /\ Legit(calls[next], h[next - 1])
      /\ h[next] = Moved(calls[next], h[next - 1])
      /\ Follows(calls[next], OpAt(calls, next - 1), h[next - 1])
  BY <1>2, <1>3 DEF History
<1>5. QED
  BY <1>2, <1>3, <1>4

\* What a call of the second pass leaves in the buffer.
LEMMA CallWrites ==
  ASSUME NEW s, Levels(s), Agrees(s), Shares(s), ~Dry, NEW c \in Call,
         NEW i, Do(c, i), BufTypeOK, c.op = "hdr" => c.n = Last(s).val
  PROVE  LET from == Len(buf) - Used(s) - Takes(c, s) IN
         \A q \in 1..Len(buf) :
           buf'[q] = IF q \in (from + 1)..(from + Takes(c, s))
                     THEN ByteOf(c, i, q - from) ELSE buf[q]
<1> DEFINE k == Takes(c, s)
           L == Len(buf)
           from == L - Used(s) - k
<1>1. L \in Nat /\ DOMAIN buf = 1..L
  BY DEF BufTypeOK
<1>2. k \in Nat /\ Used(s) \in Nat /\ c.n \in Nat /\ c.tag \in Tag
  BY TakesNat, LastLevel DEF Call
<1>3. /\ Top.size = L - Last(s).base /\ Top.len = Last(s).len
      /\ Top.offset = Top.size - Top.len /\ Free = Top.size - Top.len
      /\ Top.len_val = Last(s).val
      /\ Top.size \in Int /\ Last(s).base \in Nat /\ Last(s).len \in Nat
  BY TopIs, LastLevel DEF Shares, Top, Last
<1>4. L - Used(s) = Free /\ Free = Top.offset
  BY <1>1, <1>3 DEF Used
<1>5. ASSUME NEW bytes, Len(bytes) = k, buf' = Write(from, bytes),
             NEW q \in 1..L
      PROVE  buf'[q] = IF q \in (from + 1)..(from + k)
                       THEN bytes[q - from] ELSE buf[q]
  <2> HIDE DEF from, k
  <2>1. q \in DOMAIN buf
    BY <1>1
  <2> QED BY <1>5, <2>1 DEF Write
<1>6. CASE c.op = "data"
  <2> DEFINE bytes == [p \in 1..c.n |-> i]
  <2>1. k = c.n /\ buf' = Write(Top.offset - c.n, bytes)
    BY <1>6 DEF Takes, Do, EncData
  <2>2. from = Top.offset - c.n
    BY <1>4, <2>1
  <2>3. bytes = [p \in 1..c.n |-> bytes[p]]
    OBVIOUS
  <2>4. \A p \in 1..c.n : bytes[p] = ByteOf(c, i, p)
    BY <1>6 DEF ByteOf
  <2> HIDE DEF bytes
  <2>5. Len(bytes) = k
    BY <1>2, <2>1, <2>3, SequenceOf
  <2>6. ASSUME NEW q \in 1..L
        PROVE  buf'[q] = IF q \in (from + 1)..(from + k)
                         THEN ByteOf(c, i, q - from) ELSE buf[q]
    <3>1. buf'[q] = IF q \in (from + 1)..(from + k)
                    THEN bytes[q - from] ELSE buf[q]
      BY <1>5, <2>1, <2>2, <2>5
    <3>2. from \in Int
      BY <1>1, <1>2
    <3> HIDE DEF from
    <3>3. q \in (from + 1)..(from + k) => q - from \in 1..k
      BY <1>2, <3>2
    <3> HIDE DEF k
    <3> QED BY <2>1, <2>4, <3>1, <3>3
  <2> QED BY <2>6
<1>7. CASE c.op = "hdr"
  <2> DEFINE bytes == TagField(c.tag) \o LenField(c.n)
  <2>1. k = HdrLen(c.tag) /\ buf' = Write(Free - HdrLen(c.tag), bytes)
    BY <1>3, <1>7 DEF Takes, HdrLen, Do, EncHdr
  <2>2. from = Free - HdrLen(c.tag)
    BY <1>4, <2>1
  <2>3. Len(bytes) = k
    BY <1>2, <1>3, <1>7, <2>1, HeaderLen DEF HdrLen
  <2>4. \A p : bytes[p] = ByteOf(c, i, p)
    BY <1>7 DEF ByteOf
  <2> HIDE DEF bytes, from, k
  <2>5. ASSUME NEW q \in 1..L
        PROVE  buf'[q] = IF q \in (from + 1)..(from + k)
                         THEN ByteOf(c, i, q - from) ELSE buf[q]
    BY <1>5, <2>1, <2>2, <2>3, <2>4
  <2> QED BY <2>5 DEF from, k
<1>8. CASE c.op \in {"start", "end"}
  <2>1. buf' = buf
    BY <1>8 DEF Do, EncNstdStart, EncNstdEnd
  <2>2. k = 0
    BY <1>8 DEF Takes
  <2>3. from \in Int
    BY <1>1, <1>2
  <2> HIDE DEF from, k
  <2>4. \A q \in 1..L : q \notin (from + 1)..(from + k)
    BY <2>2, <2>3
  <2> QED BY <2>1, <2>4 DEF from, k
<1>9. QED
  BY <1>6, <1>7, <1>8 DEF Call

\* The second pass does its n-th call.
Calling(h, n) ==
  /\ calls \in Seq(Call) /\ n \in 1..Len(calls) /\ BufTypeOK /\ ~Dry
  /\ History(h) /\ Agrees(h[n - 1]) /\ Shares(h[n - 1])
  /\ Do(calls[n], n) /\ Written(h, n - 1) /\ Used(h[n]) <= Len(buf)

\* What is in the history for a call.
LEMMA CallAt ==
  ASSUME calls \in Seq(Call), NEW h, History(h), NEW n \in 1..Len(calls)
  PROVE  /\ calls[n] \in Call /\ Levels(h[n - 1]) /\ Levels(h[n])
         /\ Legit(calls[n], h[n - 1]) /\ h[n] = Moved(calls[n], h[n - 1])
         /\ Follows(calls[n], OpAt(calls, n - 1), h[n - 1])
         /\ Takes(calls[n], h[n - 1]) \in Nat
         /\ Used(h[n]) \in Nat /\ Used(h[n - 1]) \in Nat
         /\ Used(h[n]) = Used(h[n - 1]) + Takes(calls[n], h[n - 1])
<1>1. n \in 0..Len(calls) /\ n - 1 \in 0..Len(calls) /\ calls[n] \in Call
  OBVIOUS
<1>2. /\ Levels(h[n - 1]) /\ Levels(h[n])
      /\ Legit(calls[n], h[n - 1]) /\ h[n] = Moved(calls[n], h[n - 1])
      /\ Follows(calls[n], OpAt(calls, n - 1), h[n - 1])
  BY <1>1 DEF History
<1>3. /\ Takes(calls[n], h[n - 1]) \in Nat
      /\ Used(h[n]) \in Nat /\ Used(h[n - 1]) \in Nat
  BY <1>1, <1>2, TakesNat, LastLevel
<1>4. Used(h[n]) = Used(h[n - 1]) + Takes(calls[n], h[n - 1])
  BY <1>1, <1>2, MovedLevels
<1> QED BY <1>1, <1>2, <1>3, <1>4

LEMMA Apart ==
  ASSUME NEW L \in Nat, NEW u \in Nat, NEW k \in Nat, u + k <= L,
         NEW v \in Nat, NEW t \in Nat, t <= v, v <= u, NEW p \in 1..t
  PROVE  /\ L - v + p \in 1..L
         /\ L - v + p \notin (L - u - k + 1)..(L - u - k + k)
  OBVIOUS

LEMMA Within ==
  ASSUME NEW L \in Nat, NEW u \in Nat, NEW k \in Nat, u + k <= L,
         NEW v, v = u + k, NEW p \in 1..k
  PROVE  /\ L - v + p \in 1..L
         /\ L - v + p \in (L - u - k + 1)..(L - u - k + k)
         /\ (L - v + p) - (L - u - k) = p
  OBVIOUS

LEMMA WrittenGrows ==
  ASSUME NEW h, NEW n, Calling(h, n), calls' = calls, Len(buf') = Len(buf)
  PROVE  Written(h, n)'
<1>1. PICK L \in Nat, k \in Nat, u \in Nat :
        L = Len(buf) /\ k = Takes(calls[n], h[n - 1]) /\ u = Used(h[n - 1])
  BY CallAt DEF Calling, BufTypeOK
<1>2. n \in 1..Len(calls) /\ Used(h[n]) = u + k /\ u + k <= L
  BY <1>1, CallAt DEF Calling
<1>3. \A q \in 1..L :
        buf'[q] = IF q \in (L - u - k + 1)..(L - u - k + k)
                  THEN ByteOf(calls[n], n, q - (L - u - k)) ELSE buf[q]
  <2>1. /\ calls[n].op = "hdr" => calls[n].n = Last(h[n - 1]).val
        /\ calls[n] \in Call /\ Levels(h[n - 1])
    BY CallAt DEF Calling, Follows
  <2> QED BY <1>1, <2>1, CallWrites DEF Calling
<1>4. ASSUME NEW j \in 1..n, NEW p \in 1..Takes(calls[j], h[j - 1])
      PROVE  buf'[L - Used(h[j]) + p] = ByteOf(calls[j], j, p)
  <2>1. CASE j = n
    <3>1. p \in 1..k /\ Used(h[j]) = u + k
      BY <1>1, <1>2, <2>1
    <3>2. PICK q : q = L - Used(h[j]) + p
      OBVIOUS
    <3>3. q \in 1..L /\ q \in (L - u - k + 1)..(L - u - k + k)
          /\ q - (L - u - k) = p
      BY <1>2, <3>1, <3>2, Within
    <3> QED BY <1>3, <2>1, <3>1, <3>2, <3>3
  <2>2. CASE j # n
    <3>1. /\ j \in 1..(n - 1) /\ j \in 1..Len(calls) /\ j <= n - 1
          /\ j \in 0..Len(calls) /\ n - 1 \in 0..Len(calls)
      BY <1>2, <2>2 DEF Calling
    <3>2. buf[L - Used(h[j]) + p] = ByteOf(calls[j], j, p)
      BY <1>1, <3>1 DEF Written, Calling
    <3>3. PICK v \in Nat, t \in Nat :
            v = Used(h[j]) /\ t = Takes(calls[j], h[j - 1]) /\ t <= v
      <4>1. calls \in Seq(Call) /\ History(h) /\ j \in 1..Len(calls)
        BY <3>1 DEF Calling
      <4>2. PICK v, t, z : /\ v = Used(h[j]) /\ z = Used(h[j - 1])
                           /\ t = Takes(calls[j], h[j - 1])
        OBVIOUS
      <4>3. v \in Nat /\ t \in Nat /\ z \in Nat /\ v = z + t
        BY ONLY <4>1, <4>2, CallAt
      <4>4. t <= v
        BY ONLY <4>3
      <4> QED BY <4>2, <4>3, <4>4, Zenon
    <3>4. v <= u
      BY <1>1, <3>1, <3>3 DEF Calling, History
    <3>5. PICK q : q = L - v + p
      OBVIOUS
    <3>6. q \in 1..L /\ q \notin (L - u - k + 1)..(L - u - k + k)
      BY <1>1, <1>2, <3>3, <3>4, <3>5, Apart
    <3> QED BY <1>3, <3>2, <3>3, <3>5, <3>6
  <2> QED BY <2>1, <2>2
<1> QED BY <1>1, <1>4 DEF Written

LEMMA RealKept ==
  ASSUME RealInv, UNCHANGED <<enc, buf, calls, next, need>>
  PROVE  RealInv'
<1>1. PICK h :
        /\ History(h) /\ Len(h[Len(calls)]) = 1 /\ Used(h[Len(calls)]) = need
        /\ next \in 1..(Len(calls) + 1)
        /\ Agrees(h[next - 1]) /\ Shares(h[next - 1])
        /\ Written(h, next - 1)
  BY DEF RealInv
<1>2. History(h)'
  BY <1>1 DEF History
<1>3. PICK m : m = next - 1
  OBVIOUS
<1>4. Agrees(h[m])' /\ Shares(h[m])'
  BY <1>1, <1>3 DEF Agrees, Shares
<1>5. Written(h, m)'
  BY <1>1, <1>3 DEF Written
<1>6. m = next' - 1
  BY <1>3
<1> QED BY <1>1, <1>2, <1>4, <1>5, <1>6 DEF RealInv

LEMMA CallRealKeeps ==
  ASSUME EncoderInv, CallReal
  PROVE  EncoderInv'
<1>1. /\ pass = "real" /\ next <= Len(calls) /\ Do(calls[next], next)
      /\ next' = next + 1 /\ UNCHANGED <<pass, calls, need>>
  BY DEF CallReal
<1>2. PICK h, s :
        /\ History(h) /\ Len(h[Len(calls)]) = 1 /\ Used(h[Len(calls)]) = need
        /\ next \in 1..Len(calls) /\ calls[next] \in Call
        /\ Levels(s) /\ Agrees(s) /\ Shares(s)
        /\ Legit(calls[next], s) /\ h[next] = Moved(calls[next], s)
        /\ s = h[next - 1] /\ Written(h, next - 1)
        /\ Follows(calls[next], OpAt(calls, next - 1), s)
  BY <1>1, RealAt
<1>3. PICK c \in Call : c = calls[next]
  BY <1>2
<1>4. c.op = "end" => Len(enc) > 1
  BY <1>2, <1>3 DEF Legit, Agrees
<1>5. BufTypeOK /\ calls \in Seq(Call)
  BY DEF EncoderInv
<1>6. /\ Agrees(Moved(c, s))' /\ BufTypeOK'
      /\ Shares(s) /\ ~Dry => Shares(Moved(c, s))'
  BY <1>1, <1>2, <1>3, <1>4, <1>5, CallMoves
<1>7. Shares(Moved(c, s))'
  BY <1>1, <1>2, <1>6 DEF Dry
<1>8. History(h)'
  BY <1>1, <1>2 DEF History
<1>9. h[next' - 1] = Moved(c, s) /\ next' \in 1..(Len(calls') + 1)
  BY <1>1, <1>2, <1>3
<1>10. RealInv'
  <2>0. Len(buf') = Len(buf) /\ ~Dry
    BY <1>1, <1>2, <1>3, <1>4, <1>5, CallMoves DEF Dry
  <2>1. Used(Moved(c, s)) <= Len(buf)
    <3>1. PICK t : t = Moved(c, s)
      OBVIOUS
    <3>2. /\ Len(t) \in 1..Len(t) /\ Used(t) = t[Len(t)].base + t[Len(t)].len
          /\ t[Len(t)].base \in Nat /\ t[Len(t)].len \in Nat
      BY <1>2, <1>3, <3>1, MovedLevels, LastLevel
    <3>3. Agrees(t)' /\ Shares(t)'
      BY <1>6, <1>7, <3>1
    <3>4. Len(buf) \in Nat
      BY <1>5 DEF BufTypeOK
    <3> QED BY <2>0, <3>1, <3>2, <3>3, <3>4 DEF Agrees, Shares
  <2>2. PICK m : m = next
    OBVIOUS
  <2>3. Written(h, m)'
    <3>1. Calling(h, m)
      BY <1>1, <1>2, <1>3, <1>5, <2>0, <2>1, <2>2 DEF Calling
    <3> QED BY <1>1, <2>0, <3>1, WrittenGrows
  <2>4. m = next' - 1
    BY <1>1, <1>2, <2>2
  <2> QED
    BY <1>1, <1>2, <1>6, <1>7, <1>8, <1>9, <2>3, <2>4 DEF RealInv
<1>11. QED
  BY <1>1, <1>5, <1>6, <1>10 DEF EncoderInv, Offered

\* Only a call that does not fit is refused, and the rest of the calls
\* would have needed as much.
LEMMA CallTooShortKeeps ==
  ASSUME EncoderInv, CallTooShort
  PROVE  EncoderInv'
<1>1. /\ pass = "real" /\ next <= Len(calls) /\ Fails(calls[next])
      /\ pass' = "short" /\ UNCHANGED <<enc, buf, calls, next, need>>
  BY DEF CallTooShort
<1>2. PICK h, s :
        /\ History(h) /\ Len(h[Len(calls)]) = 1 /\ Used(h[Len(calls)]) = need
        /\ next \in 1..Len(calls) /\ calls[next] \in Call
        /\ Levels(s) /\ Agrees(s) /\ Shares(s)
        /\ Legit(calls[next], s) /\ h[next] = Moved(calls[next], s)
  BY <1>1, RealAt
<1>3. PICK c \in Call : c = calls[next]
  BY <1>2
<1> DEFINE k == Takes(c, s)
           n == Len(s)
<1>4. /\ n \in 1..n /\ Len(enc) = n
      /\ Top.len = s[n].len /\ Top.len_val = s[n].val
      /\ Top.offset = Top.size - Top.len /\ Free = Top.size - Top.len
      /\ Top.len \in Nat /\ Top.size \in Int
  BY <1>2, TopIs
<1>5. k \in Nat /\ c.n \in Nat
  BY <1>2, <1>3, TakesNat DEF Call
<1>6. Free < k
  <2>1. CASE c.op = "data"
    <3>1. ~DataFits(c.n) /\ k = c.n
      BY <1>1, <1>3, <2>1 DEF Fails, Takes
    <3>2. QED
      BY <1>4, <1>5, <3>1 DEF DataFits
  <2>2. CASE c.op = "hdr"
    <3>1. /\ c.tag.cla = ClassInvalid \/ ~HdrFits(c.tag)
          /\ c.tag.cla # ClassInvalid
      BY <1>1, <1>2, <1>3, <2>2 DEF Fails, Legit
    <3>2. ~(HdrLen(c.tag) <= Free)
      BY <3>1 DEF HdrFits
    <3>3. k = HdrLen(c.tag)
      BY <1>4, <2>2 DEF Takes, HdrLen, Last
    <3>4. QED
      BY <1>4, <1>5, <3>2, <3>3
  <2>3. CASE c.op = "start"
    BY <1>1, <1>2, <1>3, <1>4, <2>3 DEF Fails, Legit, CanNest, Last
  <2>4. CASE c.op = "end"
    BY <1>1, <1>3, <2>4 DEF Fails
  <2>5. QED
    BY <1>3, <2>1, <2>2, <2>3, <2>4 DEF Call
<1>7. BufTypeOK /\ calls \in Seq(Call) /\ RealInv
  BY <1>1 DEF EncoderInv, Offered
<1>8. Used(s) + k > Len(buf)
  <2>1. Top.size = Len(buf) - s[n].base
    BY <1>2, <1>4 DEF Shares, Top
  <2>2. Used(s) = s[n].base + s[n].len /\ s[n].base \in Nat
    BY <1>2, <1>4, LastLevel
  <2>3. QED
    BY <1>4, <1>5, <1>6, <1>7, <2>1, <2>2 DEF BufTypeOK
<1>9. Used(h[next]) <= need /\ Used(h[next]) = Used(s) + k
  <2>1. Used(h[next]) = Used(s) + k
    BY <1>2, <1>3, MovedLevels
  <2>2. next \in 0..Len(calls)
    BY <1>2
  <2>3. QED
    BY <1>2, <2>1, <2>2 DEF History
<1>10. Len(buf) < need
  <2>1. Used(h[next]) \in Nat /\ need \in Nat
    <3>1. next \in 0..Len(calls) /\ Len(calls) \in 0..Len(calls)
      BY <1>2, <1>7
    <3>2. Levels(h[next]) /\ Levels(h[Len(calls)])
      BY <1>2, <3>1 DEF History
    <3>3. QED
      BY <1>2, <3>2, LastLevel
  <2>2. QED
    BY <1>7, <1>8, <1>9, <2>1 DEF BufTypeOK
<1>11. RealInv' /\ BufTypeOK'
  BY <1>1, <1>7, RealKept DEF BufTypeOK
<1>12. QED
  BY <1>1, <1>7, <1>10, <1>11 DEF EncoderInv, Offered

LEMMA EndRealKeeps ==
  ASSUME EncoderInv, EndReal
  PROVE  EncoderInv'
<1>1. /\ pass = "real" /\ next > Len(calls) /\ pass' = "encoded"
      /\ UNCHANGED <<enc, buf, calls, next, need>>
  BY DEF EndReal
<1>2. BufTypeOK /\ calls \in Seq(Call) /\ RealInv
  BY <1>1 DEF EncoderInv, Offered
<1>3. RealInv' /\ BufTypeOK'
  BY <1>1, <1>2, RealKept DEF BufTypeOK
<1>4. QED
  BY <1>1, <1>2, <1>3 DEF EncoderInv, Offered

LEMMA StepKeeps == EncoderInv /\ [EncoderNext]_encVars => EncoderInv'
<1> SUFFICES ASSUME EncoderInv, [EncoderNext]_encVars PROVE EncoderInv'
  OBVIOUS
<1>1. ASSUME NEW c \in Calls, CallDry(c) PROVE EncoderInv'
  BY <1>1, CallDryKeeps
<1>2. ASSUME NEW c \in Calls, CallRefused(c) PROVE EncoderInv'
  BY <1>2, CallRefusedKeeps
<1>3. ASSUME NEW d \in Slack, Top.len + d >= 0, StartReal(Top.len + d)
      PROVE  EncoderInv'
  <2>1. DryInv /\ calls \in Seq(Call)
    BY <1>3 DEF EncoderInv, StartReal, Dry, Offered
  <2>2. PICK h, s : s = h[Len(calls)] /\ History(h) /\ Agrees(s)
    BY <2>1 DEF DryInv
  <2>3. Levels(s)
    BY <2>1, <2>2 DEF History
  <2>4. Top.len \in Nat
    BY <2>2, <2>3, TopIs
  <2>5. Top.len + d \in Nat
    BY <1>3, <2>4, EncoderAssumption
  <2>6. QED
    BY <1>3, <2>5, StartRealKeeps
<1>4. CASE CallReal
  BY <1>4, CallRealKeeps
<1>5. CASE CallTooShort
  BY <1>5, CallTooShortKeeps
<1>6. CASE EndReal
  BY <1>6, EndRealKeeps
<1>7. CASE UNCHANGED encVars
  <2>1. UNCHANGED <<pass, enc, buf, calls, next, need>>
    BY <1>7 DEF encVars
  <2>2. /\ (DryInv => DryInv') /\ (BufTypeOK => BufTypeOK')
        /\ Offered' <=> Offered
    BY <2>1 DEF DryInv, History, Agrees, BufTypeOK, Offered
  <2>3. RealInv => RealInv'
    BY <2>1, RealKept
  <2> QED BY <2>1, <2>2, <2>3 DEF EncoderInv
<1>8. QED
  BY <1>1, <1>2, <1>3, <1>4, <1>5, <1>6, <1>7, Zenon DEF EncoderNext

\* What the invariant says of both passes at their ends.
LEMMA InvGives == EncoderInv => Bookkeeping /\ ExactFits
<1> SUFFICES ASSUME EncoderInv PROVE Bookkeeping /\ ExactFits
  OBVIOUS
<1>1. BufTypeOK /\ calls \in Seq(Call) /\ Len(calls) \in 0..Len(calls)
  BY DEF EncoderInv
<1>2. CASE ~Offered
  <2>1. PICK h, s : s = h[Len(calls)] /\ History(h) /\ Agrees(s)
    BY <1>2 DEF EncoderInv, DryInv
  <2>2. Levels(s)
    BY <1>1, <2>1 DEF History
  <2>3. QED
    BY <1>1, <1>2, <2>1, <2>2, KeepsBooks DEF ExactFits, Offered
<1>3. CASE Offered
  <2>1. PICK h :
          /\ History(h) /\ Len(h[Len(calls)]) = 1
          /\ Used(h[Len(calls)]) = need /\ next \in 1..(Len(calls) + 1)
          /\ Agrees(h[next - 1]) /\ Shares(h[next - 1])
    BY <1>3 DEF EncoderInv, RealInv
  <2>2. PICK s : /\ s = h[next - 1] /\ Levels(s) /\ Agrees(s) /\ Shares(s)
    <3>1. next - 1 \in 0..Len(calls)
      BY <1>1, <2>1
    <3>2. QED
      BY <2>1, <3>1 DEF History
  <2>3. Bookkeeping
    BY <1>1, <2>2, KeepsBooks
  <2>4. ASSUME pass = "encoded" PROVE Top.len = need /\ need <= Len(buf)
    <3>1. next - 1 = Len(calls)
      BY <1>1, <2>1, <2>4 DEF EncoderInv
    <3>2. Len(s) = 1 /\ Used(s) = need
      BY <2>1, <2>2, <3>1
    <3>3. 1 \in 1..Len(s) /\ s[1].base = 0
      BY <2>2, <3>2 DEF Levels
    <3>4. Used(s) = s[1].base + s[1].len /\ s[1].len \in Nat
      BY <2>2, <3>2, <3>3, LastLevel
    <3>5. Top.len = s[1].len /\ Top = enc[1] /\ Top.size \in Int
      BY <2>2, <3>2, TopIs DEF Top
    <3>6. enc[1].size = Len(buf) - s[1].base /\ enc[1].len <= enc[1].size
      BY <2>2, <3>3 DEF Shares
    <3>7. Len(buf) \in Nat
      BY <1>1 DEF BufTypeOK
    <3>8. QED
      BY <3>2, <3>3, <3>4, <3>5, <3>6, <3>7
  <2>5. QED
    BY <2>3, <2>4 DEF ExactFits, EncoderInv
<1>4. QED
  BY <1>2, <1>3

-----------------------------------------------------------------------------
LEMMA Inductive == EncoderSpec => []EncoderInv
  BY InitHolds, StepKeeps, PTL DEF EncoderSpec

(***************************************************************************)
(* The numbers of the encoders, which enc_data, enc_hdr and the nesting    *)
(* calls of dato.c update apart, always agree, and what is nested has the  *)
(* room that is left: no call writes before the start of the buffer.       *)
(***************************************************************************)
THEOREM BooksAlwaysAgree == EncoderSpec => []Bookkeeping
<1>1. EncoderInv => Bookkeeping
  BY InvGives
<1> QED BY <1>1, Inductive, PTL

(***************************************************************************)
(* The dry run of dato.c finds the length that the same calls then write:  *)
(* whatever the document, a buffer of that length is enough, and only in a *)
(* smaller one do the calls end with SWICC_RET_BUFFER_TOO_SHORT.           *)
(***************************************************************************)
THEOREM DryRunAlwaysExact == EncoderSpec => []ExactFits
<1>1. EncoderInv => ExactFits
  BY InvGives
<1> QED BY <1>1, Inductive, PTL

-----------------------------------------------------------------------------
(* Induction, and what the library does.                                    *)

LEMMA LeastOf ==
  ASSUME NEW T \in SUBSET Nat, T # {}
  PROVE  \E x \in T : \A y \in T : x <= y
<1>1. \E x \in T : \A y \in T : ~ (<<y, x>> \in OpToRel(<, Nat))
  BY NatLessThanWellFounded, WFMin, Zenon
<1>2. \A x, y \in Nat : y < x => <<y, x>> \in OpToRel(<, Nat)
  BY DEF OpToRel
<1>3. \A x, y \in Nat : x <= y \/ y < x
  OBVIOUS
<1> QED BY <1>1, <1>2, <1>3

LEMMA InductionOver ==
  ASSUME NEW S, 0 \in S, \A n \in Nat : n \in S => n + 1 \in S
  PROVE  \A n \in Nat : n \in S
<1> SUFFICES ASSUME {n \in Nat : n \notin S} # {} PROVE FALSE
  OBVIOUS
<1>1. PICK x \in {n \in Nat : n \notin S} :
        \A y \in {n \in Nat : n \notin S} : x <= y
  BY LeastOf
<1>2. x - 1 \in Nat /\ x - 1 \in S /\ x = (x - 1) + 1
  BY <1>1
<1> QED BY <1>1, <1>2

FlattenStep(seqs, f, i) == IF i = 1 THEN seqs[i] ELSE f[i - 1] \o seqs[i]
IsFlatten(seqs, f, m)   == f = [i \in 1..m |-> FlattenStep(seqs, f, i)]

\* FlattenSeq goes from the front.
LEMMA FlattenIs ==
  ASSUME NEW D, NEW seqs \in Seq(Seq(D))
  PROVE  \E g : /\ g[0] = << >> /\ g[Len(seqs)] = FlattenSeq(seqs)
                /\ \A k \in 1..Len(seqs) : g[k] = g[k - 1] \o seqs[k]
                /\ \A k \in 0..Len(seqs) : g[k] \in Seq(D)
<1> DEFINE N == Len(seqs)
           W == CHOOSE f : f = [i \in 1..N |->
                  IF i = 1 THEN seqs[i] ELSE f[i - 1] \o seqs[i]]
           S == {m \in Nat : \E f : IsFlatten(seqs, f, m)}
           g == [k \in 0..N |-> IF k = 0 THEN << >> ELSE W[k]]
<1>0. N \in Nat /\ \A i \in 1..N : seqs[i] \in Seq(D)
  OBVIOUS
<1>1. 0 \in S
  <2> DEFINE f == [i \in 1..0 |-> 0]
  <2>1. IsFlatten(seqs, f, 0)
    BY DEF IsFlatten
  <2> QED BY <2>1
<1>2. ASSUME NEW m \in Nat, m \in S PROVE m + 1 \in S
  <2>1. PICK f : IsFlatten(seqs, f, m)
    BY <1>2
  <2> DEFINE h == [i \in 1..(m + 1) |-> FlattenStep(seqs, f, i)]
  <2>2. \A i \in 1..m : h[i] = f[i]
    <3>1. \A i \in 1..m : f[i] = FlattenStep(seqs, f, i)
      BY <2>1 DEF IsFlatten
    <3> QED BY <3>1
  <2>3. \A i \in 1..(m + 1) :
          FlattenStep(seqs, f, i) = FlattenStep(seqs, h, i)
    <3> HIDE DEF h
    <3> TAKE i \in 1..(m + 1)
    <3>1. i # 1 => i - 1 \in 1..m
      OBVIOUS
    <3>2. i # 1 => h[i - 1] = f[i - 1]
      BY <2>2, <3>1
    <3> QED BY <3>2 DEF FlattenStep
  <2> HIDE DEF h
  <2>4. IsFlatten(seqs, h, m + 1)
    BY <2>3 DEF h, IsFlatten
  <2> QED BY <2>4
<1>3. N \in S
  <2> HIDE DEF S
  <2>1. \A m \in Nat : m \in S
    BY <1>1, <1>2, InductionOver
  <2> QED BY <1>0, <2>1
<1>4. W = [i \in 1..N |-> IF i = 1 THEN seqs[i] ELSE W[i - 1] \o seqs[i]]
  BY <1>3 DEF IsFlatten, FlattenStep
<1>5. FlattenSeq(seqs) = IF N = 0 THEN seqs ELSE W[N]
  BY DEF FlattenSeq
<1> HIDE DEF W, S
<1>6. \A k \in 0..N : g[k] = IF k = 0 THEN << >> ELSE W[k]
  OBVIOUS
<1>7. g[0] = << >> /\ g[N] = FlattenSeq(seqs)
  <2>1. N = 0 => seqs = << >>
    OBVIOUS
  <2> QED BY <1>0, <1>5, <1>6, <2>1
<1> DEFINE T == {k \in Nat : k <= N => g[k] \in Seq(D)}
<1>8. 0 \in T
  BY <1>0, <1>7
<1>9. ASSUME NEW k \in 1..N, g[k - 1] \in Seq(D)
      PROVE  g[k] = g[k - 1] \o seqs[k] /\ g[k] \in Seq(D)
  <2>0. W[k] = IF k = 1 THEN seqs[k] ELSE W[k - 1] \o seqs[k]
    BY <1>4
  <2>1. g[k] = W[k] /\ seqs[k] \in Seq(D)
    BY <1>0, <1>6
  <2>2. CASE k = 1
    <3>1. g[k] = seqs[k] /\ g[k - 1] = << >>
      BY <1>7, <2>0, <2>1, <2>2
    <3>2. << >> \o seqs[k] = seqs[k]
      BY <2>1
    <3> QED BY <2>1, <3>1, <3>2
  <2>3. CASE k # 1
    <3>1. g[k - 1] = W[k - 1]
      BY <1>6, <2>3
    <3>2. g[k] = g[k - 1] \o seqs[k]
      BY <2>0, <2>1, <2>3, <3>1
    <3> HIDE DEF g
    <3> QED BY <1>9, <2>1, <3>2
  <2> QED BY <2>2, <2>3
<1> HIDE DEF g
<1>10. ASSUME NEW k \in Nat, k \in T PROVE k + 1 \in T
  <2> SUFFICES ASSUME k + 1 <= N PROVE g[k + 1] \in Seq(D)
    OBVIOUS
  <2>1. k + 1 \in 1..N /\ g[(k + 1) - 1] \in Seq(D)
    BY <1>0, <1>10
  <2> QED BY <1>9, <2>1
<1> HIDE DEF T
<1>11. \A k \in Nat : k \in T
  BY <1>8, <1>10, InductionOver
<1>12. \A k \in 0..N : g[k] \in Seq(D)
  BY <1>0, <1>11 DEF T
<1>13. \A k \in 1..N : g[k] = g[k - 1] \o seqs[k]
  <2> TAKE k \in 1..N
  <2>1. k - 1 \in 0..N
    BY <1>0
  <2> QED BY <1>9, <1>12, <2>1
<1> QED BY <1>7, <1>12, <1>13

-----------------------------------------------------------------------------
(* A short header, as the decoder reads it.                                *)

\* The first bytes of a tag and a length in their short forms, k bytes of
\* tag among them.
Begins(w, k, tag, n) ==
  \/ /\ tag.num <= 30 /\ k = 1
     /\ w[1] = TagStart(tag) + tag.num /\ w[2] = n
  \/ /\ tag.num > 30 /\ k = 2
     /\ w[1] = TagStart(tag) + 31 /\ w[2] = tag.num /\ w[3] = n

LEMMA FirstBytes ==
  ASSUME NEW tag \in Tag, tag.num < 128, NEW n \in 0..127
  PROVE  Begins(TagField(tag) \o LenField(n), Len(TagField(tag)), tag, n)
<1>1. PICK f, l : f = TagField(tag) /\ l = LenField(n)
  OBVIOUS
<1>2. tag.num \in Nat /\ Shape(f, TagStart(tag), tag.num)
  BY <1>1, TagFieldIs
<1>3. l = <<n>>
  BY <1>1 DEF LenField
<1>4. l \in Seq(Int) /\ Len(l) = 1 /\ l[1] = n /\ 1 \in 1..Len(l)
  BY <1>3, ShortSeqs
<1>5. PICK w : w = f \o l
  OBVIOUS
<1>6. /\ \A i \in 1..Len(f) : w[i] = f[i]
      /\ w[Len(f) + 1] = n
  <2>1. f \in Seq(Int) /\ l \in Seq(Int)
    BY <1>2, <1>4 DEF Shape
  <2>2. /\ \A i \in 1..Len(f) : (f \o l)[i] = f[i]
        /\ \A i \in 1..Len(l) : (f \o l)[Len(f) + i] = l[i]
    BY ONLY <2>1, Joined
  <2> QED BY <1>4, <1>5, <2>2
<1>7. CASE tag.num <= 30
  <2>1. Len(f) = 1 /\ f[1] = TagStart(tag) + tag.num
    BY <1>2, <1>7 DEF Shape
  <2>2. w[1] = TagStart(tag) + tag.num /\ w[2] = n
    BY <1>6, <2>1
  <2>3. Begins(w, Len(f), tag, n)
    BY ONLY <1>7, <2>1, <2>2 DEF Begins
  <2> QED BY ONLY <1>1, <1>5, <2>3, Zenon
<1>8. CASE tag.num > 30
  <2>0. tag.num \in 31..127
    BY <1>2, <1>8
  <2>1. Len(f) = 2 /\ f[1] = TagStart(tag) + 31 /\ f[2] = tag.num
    BY <1>2, <2>0 DEF Shape
  <2>2. w[1] = TagStart(tag) + 31 /\ w[2] = tag.num /\ w[3] = n
    BY <1>6, <2>1
  <2>3. Begins(w, Len(f), tag, n)
    BY ONLY <1>8, <2>1, <2>2 DEF Begins
  <2> QED BY ONLY <1>1, <1>5, <2>3, Zenon
<1>9. tag.num <= 30 \/ tag.num > 30
  BY <1>2
<1> QED BY <1>7, <1>8, <1>9

LEMMA TagRecord ==
  ASSUME NEW tag \in Tag
  PROVE  tag = [cla |-> tag.cla, pc |-> tag.pc, num |-> tag.num]
<1>1. \A P, Q, R : \A t \in [cla : P, pc : Q, num : R] :
        t = [cla |-> t.cla, pc |-> t.pc, num |-> t.num]
  OBVIOUS
<1> QED BY <1>1, Zenon DEF Tag

\* A class, a bit and five bits more in a byte.
LEMMA FirstByte ==
  ASSUME NEW cla \in 0..3, NEW pc \in BOOLEAN, NEW low \in 0..31,
         NEW b, b = cla * 64 + (IF pc THEN 32 ELSE 0) + low
  PROVE  /\ b % 32 = low /\ b \div 64 = cla
         /\ ((b \div 32) % 2 = 1) = pc
<1>1. PICK k \in 0..1 : k = IF pc THEN 1 ELSE 0
  OBVIOUS
<1>0. b = cla * 64 + k * 32 + low
  <2>1. CASE pc
    BY <1>1, <2>1
  <2>2. CASE ~pc
    BY <1>1, <2>2
  <2> QED BY <2>1, <2>2
<1>2. b % 32 = low /\ b \div 64 = cla /\ b \div 32 = cla * 2 + k
  BY <1>0
<1>3. (cla * 2 + k) % 2 = k
  OBVIOUS
<1>4. (k = 1) = pc
  <2>1. CASE pc = TRUE
    BY <1>1, <2>1
  <2>2. CASE pc = FALSE
    BY <1>1, <2>2
  <2> QED BY <2>1, <2>2
<1> QED BY <1>2, <1>3, <1>4

\* The first len bytes are those of the tag.
StartsWith(b, tag, len) ==
  \/ /\ tag.num <= 30 /\ len = 1
     /\ b[0] = TagStart(tag) + tag.num
  \/ /\ tag.num > 30 /\ len = 2
     /\ b[0] = TagStart(tag) + 31 /\ b[1] = tag.num

LEMMA TagRead ==
  ASSUME NEW tag \in Tag, tag.num < 128, tag.cla # ClassInvalid, NEW b,
         NEW len, NEW room \in Int, room > len, StartsWith(b, tag, len)
  PROVE  /\ TagRet(b, room) = [ret |-> "SUCCESS", n |-> len]
         /\ TagParsed(b, len) = tag
<1>1. /\ tag.num \in Nat /\ tag.cla \in 0..3 /\ tag.pc \in BOOLEAN
  BY TagNumbers, TagClass DEF ClassInvalid
<1>2. PICK low \in 0..31 :
        /\ b[0] = tag.cla * 64 + (IF tag.pc THEN 32 ELSE 0) + low
        /\ low = IF tag.num <= 30 THEN tag.num ELSE 31
  <2>1. PICK low \in 0..31 : low = IF tag.num <= 30 THEN tag.num ELSE 31
    BY <1>1
  <2>2. b[0] = TagStart(tag) + low
    BY <1>1, <2>1 DEF StartsWith
  <2> QED BY <2>1, <2>2 DEF TagStart
<1>3. /\ b[0] % 32 = low /\ b[0] \div 64 = tag.cla
      /\ ((b[0] \div 32) % 2 = 1) = tag.pc
  <2>1. PICK cla \in 0..3 : cla = tag.cla
    BY <1>1
  <2>2. PICK pc \in BOOLEAN : pc = tag.pc
    BY <1>1
  <2>3. PICK x : x = b[0]
    OBVIOUS
  <2>4. x = cla * 64 + (IF pc THEN 32 ELSE 0) + low
    BY <1>2, <2>1, <2>2, <2>3, Zenon
  <2>5. /\ x % 32 = low /\ x \div 64 = cla
        /\ ((x \div 32) % 2 = 1) = pc
    BY ONLY <2>4, FirstByte
  <2> QED BY <2>1, <2>2, <2>3, <2>5, Zenon
<1>4. CASE tag.num <= 30
  <2>1. len = 1 /\ b[0] % 32 # 31 /\ b[0] % 32 = tag.num
    BY <1>1, <1>2, <1>3, <1>4 DEF StartsWith
  <2>2. TagRet(b, room) = [ret |-> "SUCCESS", n |-> 1]
    BY <2>1 DEF TagRet
  <2>3. TagParsed(b, 1)
          = [cla |-> tag.cla, pc |-> tag.pc, num |-> tag.num]
    BY <1>3, <2>1 DEF TagParsed
  <2> QED BY <2>1, <2>2, <2>3, TagRecord
<1>5. CASE tag.num > 30
  <2>1. len = 2 /\ b[0] % 32 = 31 /\ b[1] = tag.num /\ b[1] % 128 = tag.num
    BY <1>1, <1>2, <1>3, <1>5 DEF StartsWith
  <2>2. TagRet(b, room) = [ret |-> "SUCCESS", n |-> 2]
    <3> DEFINE last == {i \in 1..(TagLenMax - 1) : b[i] < 128}
               n    == CHOOSE i \in last : \A j \in last : i <= j
    <3>1. last \subseteq 1..2 /\ 1 \in last /\ TagLenMax - 1 = 2
      BY <1>1, <2>1, EncoderAssumption
    <3> HIDE DEF last
    <3>2. n = 1
      <4>1. \A j \in last : 1 <= j
        BY <3>1
      <4>2. \A i \in last : (\A j \in last : i <= j) => i = 1
        BY <3>1
      <4> QED BY <3>1, <4>1, <4>2
    <3>3. ~\E i \in 1..(TagLenMax - 1) :
             /\ i >= room
             /\ \A j \in 1..(i - 1) : j \notin last
      <4> SUFFICES ASSUME NEW i \in 1..2, i >= room,
                          \A j \in 1..(i - 1) : j \notin last
                   PROVE  FALSE
        BY <3>1
      <4> QED BY <2>1, <3>1
    <3>4. last # {}
      BY <3>1
    <3> HIDE DEF n
    <3>5. TagRet(b, room) = [ret |-> "SUCCESS", n |-> n + 1]
      BY <2>1, <3>3, <3>4 DEF TagRet, last, n
    <3> QED BY <3>2, <3>5
  <2>3. TagParsed(b, 2)
          = [cla |-> tag.cla, pc |-> tag.pc, num |-> tag.num]
    BY <1>3, <2>1 DEF TagParsed
  <2> QED BY <2>1, <2>2, <2>3, TagRecord
<1> QED BY <1>1, <1>4, <1>5

\* What the decoder finds at the beginning of an object.
HdrAt(b, tag, n) ==
  \A p \in 1..(Len(TagField(tag)) + 1) :
    b[p - 1] = (TagField(tag) \o LenField(n))[p]

LEMMA HdrStart ==
  ASSUME NEW tag \in Tag, tag.num < 128, NEW n \in 0..127, NEW b,
         HdrAt(b, tag, n)
  PROVE  /\ StartsWith(b, tag, Len(TagField(tag)))
         /\ b[Len(TagField(tag))] = n
<1>1. PICK w, len :
        w = TagField(tag) \o LenField(n) /\ len = Len(TagField(tag))
  OBVIOUS
<1>2. \/ /\ tag.num <= 30 /\ len = 1
         /\ w[1] = TagStart(tag) + tag.num /\ w[2] = n
      \/ /\ tag.num > 30 /\ len = 2
         /\ w[1] = TagStart(tag) + 31 /\ w[2] = tag.num /\ w[3] = n
  <2>1. Begins(TagField(tag) \o LenField(n), Len(TagField(tag)), tag, n)
    BY FirstBytes, Zenon
  <2>2. Begins(w, len, tag, n)
    BY ONLY <1>1, <2>1, Zenon
  <2> QED BY ONLY <2>2 DEF Begins
<1>3. \A p \in 1..(len + 1) : b[p - 1] = w[p]
  BY <1>1 DEF HdrAt
<1>4. len = 1 => b[0] = w[1] /\ b[1] = w[2]
  <2> SUFFICES ASSUME len = 1 PROVE b[0] = w[1] /\ b[1] = w[2]
    OBVIOUS
  <2>2. 1 \in 1..(len + 1) /\ 2 \in 1..(len + 1) /\ 1 - 1 = 0 /\ 2 - 1 = 1
    OBVIOUS
  <2> QED BY ONLY <1>3, <2>2
<1>5. len = 2 => b[0] = w[1] /\ b[1] = w[2] /\ b[2] = w[3]
  <2> SUFFICES ASSUME len = 2
               PROVE  b[0] = w[1] /\ b[1] = w[2] /\ b[2] = w[3]
    OBVIOUS
  <2>2. /\ 1 \in 1..(len + 1) /\ 2 \in 1..(len + 1) /\ 3 \in 1..(len + 1)
        /\ 1 - 1 = 0 /\ 2 - 1 = 1 /\ 3 - 1 = 2
    OBVIOUS
  <2> QED BY ONLY <1>3, <2>2
<1>6. StartsWith(b, tag, len) /\ b[len] = n
  BY ONLY <1>2, <1>4, <1>5 DEF StartsWith
<1> QED BY <1>1, <1>6, Zenon

LEMMA HdrRead ==
  ASSUME NEW tag \in Tag, tag.num < 128, tag.cla # ClassInvalid,
         NEW n \in 0..127, NEW b, HdrAt(b, tag, n),
         NEW room \in Int, room > Len(TagField(tag))
  PROVE  HdrPrs(b, room) = [ret |-> "SUCCESS", tag |-> tag, val |-> n,
                            hdr |-> Len(TagField(tag)) + 1]
<1>1. PICK len : len = Len(TagField(tag))
  OBVIOUS
<1>2. StartsWith(b, tag, len) /\ b[len] = n
  BY <1>1, HdrStart
<1>3. len \in Nat /\ len >= 1
  <2>1. len \in Nat
    BY <1>1, TagFieldLen
  <2> QED BY <1>2, <2>1 DEF StartsWith
<1>4. /\ TagRet(b, room) = [ret |-> "SUCCESS", n |-> len]
      /\ TagParsed(b, len) = tag
  BY <1>1, <1>2, TagRead
<1>5. /\ TagRet(b, room).ret = "SUCCESS" /\ TagRet(b, room).n = len
  BY <1>4
<1>6. n < 128 /\ ~(room < 1)
  BY <1>1, <1>3
<1> QED BY ONLY <1>1, <1>2, <1>4, <1>5, <1>6 DEF HdrPrs

-----------------------------------------------------------------------------
(* The data before a header.                                               *)

Past(h) == calls \in Seq(Call) /\ History(h)

\* Two moments between which there was only data.
OnlyData(r, s) ==
  /\ Len(r) = Len(s) /\ \A k \in 1..(Len(s) - 1) : r[k] = s[k]
  /\ Last(r).base = Last(s).base /\ Last(r).len \in Nat
  /\ Last(r).len + Last(s).val = Last(s).len

\* Between f and m there is nothing but data for the encoder in use.
Run(h, f, m) ==
  /\ f \in 0..m /\ OpAt(calls, f) \in {"start", "hdr"}
  /\ \A j \in (f + 1)..m : calls[j].op = "data"
  /\ OnlyData(h[f], h[m])

LEMMA RunStarts ==
  ASSUME NEW h, NEW m \in Nat, Levels(h[m]), Last(h[m]).val = 0,
         OpAt(calls, m) \in {"start", "hdr"}
  PROVE  Run(h, m, m)
<1>1. Last(h[m]).len \in Nat
  <2>1. PICK s : s = h[m]
    OBVIOUS
  <2>2. Len(s) \in 1..Len(s) /\ s[Len(s)].len \in Nat
    BY <2>1, LastLevel
  <2> QED BY <2>1, <2>2 DEF Last
<1>2. \A j \in (m + 1)..m : FALSE
  OBVIOUS
<1> QED BY <1>1, <1>2 DEF Run, OnlyData

LEMMA RunGrows ==
  ASSUME NEW h, NEW m \in Nat, NEW f, Run(h, f, m), NEW c \in Call,
         Levels(h[m]), h[m + 1] = Moved(c, h[m]), c.op = "data",
         calls[m + 1] = c
  PROVE  Run(h, f, m + 1)
<1>1. PICK s, t : s = h[m] /\ t = h[m + 1]
  OBVIOUS
<1>2. /\ Len(t) = Len(s)
      /\ \A i \in 1..(Len(s) - 1) : t[i] = s[i]
      /\ t[Len(s)].len = s[Len(s)].len + Takes(c, s)
      /\ t[Len(s)].base = s[Len(s)].base
      /\ t[Len(s)].val = s[Len(s)].val + c.n
  BY <1>1, MovedTop
<1>3. Takes(c, s) = c.n /\ c.n \in Nat
  BY DEF Takes, Call
<1>4. /\ Len(s) \in 1..Len(s) /\ s[Len(s)].len \in Nat
      /\ s[Len(s)].val \in Nat
  BY <1>1, LastLevel
<1>5. PICK r : r = h[f]
  OBVIOUS
<1>6. /\ f \in 0..m /\ OpAt(calls, f) \in {"start", "hdr"}
      /\ \A j \in (f + 1)..m : calls[j].op = "data"
      /\ Len(r) = Len(s)
      /\ \A k \in 1..(Len(s) - 1) : r[k] = s[k]
      /\ r[Len(r)].base = s[Len(s)].base /\ r[Len(r)].len \in Nat
      /\ r[Len(r)].len + s[Len(s)].val = s[Len(s)].len
  BY <1>1, <1>5 DEF Run, OnlyData, Last
<1>7. f \in 0..(m + 1) /\ \A j \in (f + 1)..(m + 1) : calls[j].op = "data"
  <2>1. f \in 0..(m + 1)
    BY <1>6
  <2>2. ASSUME NEW j \in (f + 1)..(m + 1) PROVE calls[j].op = "data"
    <3>1. CASE j = m + 1
      BY <3>1
    <3>2. CASE j # m + 1
      <4>1. j \in (f + 1)..m
        BY <1>6, <3>2
      <4> QED BY <1>6, <4>1
    <3> QED BY <3>1, <3>2
  <2> QED BY <2>1, <2>2
<1>8. Len(r) = Len(t) /\ \A k \in 1..(Len(t) - 1) : r[k] = t[k]
  BY <1>2, <1>6
<1>9. r[Len(r)].base = t[Len(t)].base /\ r[Len(r)].len \in Nat
  BY <1>2, <1>6
<1>10. r[Len(r)].len + t[Len(t)].val = t[Len(t)].len
  <2>1. PICK x, y, z, n : /\ x = r[Len(r)].len /\ y = s[Len(s)].val
                          /\ z = s[Len(s)].len /\ n = c.n
    OBVIOUS
  <2>2. x + y = z /\ x \in Nat /\ y \in Nat /\ z \in Nat /\ n \in Nat
    BY <1>3, <1>4, <1>6, <2>1
  <2>3. t[Len(t)].val = y + n /\ t[Len(t)].len = z + n
    BY <1>2, <1>3, <2>1
  <2>4. x + (y + n) = z + n
    BY ONLY <2>2
  <2> QED BY <2>1, <2>3, <2>4
<1> QED BY <1>1, <1>5, <1>6, <1>7, <1>8, <1>9, <1>10 DEF Run, OnlyData, Last

\* What a header, a start or nothing at all leaves to be counted.
LEMMA NothingBrought ==
  ASSUME NEW h, Past(h), NEW m \in 0..Len(calls),
         OpAt(calls, m) \in {"start", "hdr"}
  PROVE  Last(h[m]).val = 0 /\ Levels(h[m])
<1>0. Levels(h[m])
  BY DEF Past, History
<1>1. CASE m = 0
  <2>1. PICK l : l = [len |-> 0, val |-> 0, base |-> 0]
    OBVIOUS
  <2>2. h[m] = <<l>> /\ l.val = 0
    BY <1>1, <2>1 DEF Past, History
  <2>3. Last(<<l>>) = l
    BY DEF Last
  <2> QED BY <1>0, <2>2, <2>3
<1>2. CASE m # 0
  <2>1. m \in 1..Len(calls) /\ calls[m].op \in {"start", "hdr"}
    BY <1>2 DEF OpAt
  <2>2. PICK s, c : s = h[m - 1] /\ c = calls[m]
    OBVIOUS
  <2>3. c \in Call /\ Levels(s) /\ h[m] = Moved(c, s)
    BY <2>1, <2>2, CallAt DEF Past
  <2>4. CASE c.op = "hdr"
    <3>1. Len(Moved(c, s)) = Len(s) /\ Moved(c, s)[Len(s)].val = 0
      BY <2>3, <2>4, MovedTop
    <3> QED BY <1>0, <2>3, <3>1 DEF Last
  <2>5. CASE c.op = "start"
    <3>1. PICK t : t = Moved(c, s)
      OBVIOUS
    <3>2. Len(t) = Len(s) + 1 /\ t[Len(s) + 1].val = 0
      BY <2>3, <2>5, <3>1, MovedStart
    <3> QED BY <1>0, <2>3, <3>1, <3>2 DEF Last
  <2> QED BY <2>1, <2>2, <2>4, <2>5
<1> QED BY <1>1, <1>2

LEMMA RunBack ==
  ASSUME NEW h, Past(h), NEW m \in 0..Len(calls), OpAt(calls, m) # "end"
  PROVE  \E f : Run(h, f, m)
<1> DEFINE S == {k \in Nat : k <= Len(calls) /\ OpAt(calls, k) # "end"
                               => \E f : Run(h, f, k)}
<1>1. 0 \in S
  <2>1. Len(calls) \in Nat /\ 0 \in 0..Len(calls) /\ OpAt(calls, 0) = "start"
    BY DEF Past, OpAt
  <2>2. Run(h, 0, 0)
    BY <2>1, NothingBrought, RunStarts
  <2> QED BY <2>2
<1>2. ASSUME NEW k \in Nat, k \in S PROVE k + 1 \in S
  <2> SUFFICES ASSUME k + 1 <= Len(calls), OpAt(calls, k + 1) # "end"
               PROVE  \E f : Run(h, f, k + 1)
    OBVIOUS
  <2>1. /\ k + 1 \in 1..Len(calls) /\ k + 1 \in 0..Len(calls)
        /\ OpAt(calls, k + 1) = calls[k + 1].op /\ (k + 1) - 1 = k
        /\ k <= Len(calls) /\ k + 1 \in Nat
    BY DEF Past, OpAt
  <2>2. PICK j : j = k + 1
    OBVIOUS
  <2>3. PICK c \in Call :
          /\ c = calls[j] /\ Levels(h[k]) /\ h[j] = Moved(c, h[k])
          /\ Follows(c, OpAt(calls, k), h[k])
    BY <2>1, <2>2, CallAt DEF Past
  <2>4. CASE c.op \in {"start", "hdr"}
    <3>1. OpAt(calls, j) \in {"start", "hdr"}
      BY <2>1, <2>2, <2>3, <2>4
    <3>2. Run(h, j, j)
      BY <2>1, <2>2, <3>1, NothingBrought, RunStarts
    <3> QED BY <2>2, <3>2
  <2>5. CASE c.op = "data"
    <3>1. OpAt(calls, k) # "end"
      BY <2>3, <2>5 DEF Follows
    <3>2. PICK f : Run(h, f, k)
      BY <1>2, <2>1, <3>1
    <3>3. Run(h, f, k + 1)
      BY <2>2, <2>3, <2>5, <3>2, RunGrows
    <3> QED BY <3>3
  <2> QED BY <2>1, <2>2, <2>3, <2>4, <2>5 DEF Call
<1> HIDE DEF S
<1>3. \A k \in Nat : k \in S
  BY <1>1, <1>2, InductionOver
<1>4. m \in S /\ m <= Len(calls)
  BY <1>3 DEF Past
<1> QED BY <1>4 DEF S

-----------------------------------------------------------------------------
(* What the reader should be told, header by header.                       *)

Doc(g, D) ==
  /\ g[0] = << >> /\ g[Len(calls)] = Document
  /\ \A k \in 1..Len(calls) : g[k] = g[k - 1] \o Told(Len(calls) + 1 - k)
  /\ \A k \in 0..Len(calls) : g[k] \in Seq(D)

LEMMA OneOf ==
  ASSUME NEW D, NEW x \in D
  PROVE  <<x>> \in Seq(D) /\ <<x>>[1] = x
  OBVIOUS

LEMMA ToldSeq ==
  ASSUME calls \in Seq(Call), NEW i \in 1..Len(calls), NEW D, Told(i)[1] \in D
  PROVE  Told(i) \in Seq(D)
<1>1. CASE Told(i) = << >>
  BY <1>1
<1>2. ASSUME NEW x, Told(i) = <<x>> PROVE Told(i) \in Seq(D)
  <2>1. Told(i)[1] = x
    BY <1>2, OneOf
  <2> QED BY <1>2, <2>1, OneOf
<1>3. Told(i) = << >> \/ \E x : Told(i) = <<x>>
  <2>1. CASE calls[i].op = "start"
    BY <2>1 DEF Told
  <2>2. CASE calls[i].op = "hdr"
    BY <2>2 DEF Told
  <2>3. CASE calls[i].op \notin {"start", "hdr"}
    BY <2>3 DEF Told
  <2> QED BY <2>1, <2>2, <2>3
<1> QED BY <1>1, <1>2, <1>3

LEMMA DocExists ==
  ASSUME calls \in Seq(Call)
  PROVE  \E g, D : Doc(g, D)
<1>1. PICK N \in Nat : N = Len(calls)
  OBVIOUS
<1> DEFINE D == {Told(i)[1] : i \in 1..N}
           seqs == [i \in 1..N |-> Told(N + 1 - i)]
<1>2. \A i \in 1..N : Told(i) \in Seq(D)
  <2> TAKE i \in 1..N
  <2>1. Told(i)[1] \in D
    OBVIOUS
  <2> HIDE DEF D
  <2> QED BY <1>1, <2>1, ToldSeq
<1> HIDE DEF D
<1>3. seqs \in Seq(Seq(D)) /\ Len(seqs) = N
  <2>1. \A i \in 1..N : N + 1 - i \in 1..N
    BY <1>1
  <2>2. \A i \in 1..N : Told(N + 1 - i) \in Seq(D)
    BY <1>2, <2>1
  <2> QED BY <1>1, <2>2
<1>4. \A k \in 1..N : seqs[k] = Told(N + 1 - k)
  OBVIOUS
<1>5. FlattenSeq(seqs) = Document
  BY <1>1 DEF Document
<1> HIDE DEF seqs
<1>6. PICK g : /\ g[0] = << >> /\ g[Len(seqs)] = FlattenSeq(seqs)
               /\ \A k \in 1..Len(seqs) : g[k] = g[k - 1] \o seqs[k]
               /\ \A k \in 0..Len(seqs) : g[k] \in Seq(D)
  BY <1>3, FlattenIs
<1>7. Doc(g, D)
  BY <1>1, <1>3, <1>4, <1>5, <1>6 DEF Doc
<1> QED BY <1>7

LEMMA DocNext ==
  ASSUME calls \in Seq(Call), NEW g, NEW D, Doc(g, D), NEW i \in 1..Len(calls)
  PROVE  g[Len(calls) - (i - 1)] = g[Len(calls) - i] \o Told(i)
<1>1. PICK N, k : N = Len(calls) /\ N \in Nat /\ k = N - (i - 1)
  OBVIOUS
<1>2. k \in 1..N /\ k - 1 = N - i /\ N + 1 - k = i
  BY <1>1
<1> QED BY <1>1, <1>2 DEF Doc

\* One object after another.
LEMMA DocStep ==
  ASSUME calls \in Seq(Call), NEW g, NEW D, Doc(g, D), NEW i \in 1..Len(calls)
  PROVE  /\ \A x : Told(i) = <<x>> =>
              g[Len(calls) - (i - 1)] = Append(g[Len(calls) - i], x)
         /\ Told(i) = << >> =>
              g[Len(calls) - (i - 1)] = g[Len(calls) - i]
<1>1. PICK s, t : s = g[Len(calls) - i] /\ t = g[Len(calls) - (i - 1)]
  OBVIOUS
<1>2. s \in Seq(D)
  <2>1. Len(calls) - i \in 0..Len(calls)
    OBVIOUS
  <2> QED BY <1>1, <2>1 DEF Doc
<1>3. t = s \o Told(i)
  BY <1>1, DocNext
<1>4. s \o << >> = s
  BY ONLY <1>2
<1>5. ASSUME NEW x PROVE s \o <<x>> = Append(s, x)
  <2>1. PICK E : E = D \cup {x}
    OBVIOUS
  <2>2. s \in Seq(E) /\ x \in E
    BY <1>2, <2>1
  <2> QED BY ONLY <2>2
<1> QED BY <1>1, <1>3, <1>4, <1>5

\* Data is not told of by itself.
LEMMA DocRun ==
  ASSUME NEW h, Past(h), NEW g, NEW D, Doc(g, D), NEW m \in 0..Len(calls),
         NEW f, Run(h, f, m)
  PROVE  g[Len(calls) - f] = g[Len(calls) - m]
<1> DEFINE S == {k \in Nat : k <= m - f =>
                   g[Len(calls) - (m - k)] = g[Len(calls) - m]}
<1>0. /\ Len(calls) \in Nat /\ calls \in Seq(Call) /\ f \in 0..m
      /\ \A j \in (f + 1)..m : calls[j].op = "data"
  BY DEF Past, Run
<1>1. 0 \in S
  BY <1>0
<1>2. ASSUME NEW k \in Nat, k \in S PROVE k + 1 \in S
  <2> SUFFICES ASSUME k + 1 <= m - f
               PROVE  g[Len(calls) - (m - (k + 1))] = g[Len(calls) - m]
    OBVIOUS
  <2>1. g[Len(calls) - (m - k)] = g[Len(calls) - m]
    BY <1>0, <1>2
  <2>2. PICK i : i = m - k
    OBVIOUS
  <2>3. i \in 1..Len(calls) /\ i \in (f + 1)..m /\ i - 1 = m - (k + 1)
    BY <1>0, <2>2
  <2>4. Told(i) = << >>
    BY <1>0, <2>3 DEF Told
  <2>5. g[Len(calls) - (i - 1)] = g[Len(calls) - i]
    BY <1>0, <2>3, <2>4, DocStep
  <2> QED BY <2>1, <2>2, <2>3, <2>5
<1> HIDE DEF S
<1>3. \A k \in Nat : k \in S
  BY <1>1, <1>2, InductionOver
<1>4. m - f \in S /\ m - f <= m - f /\ m - (m - f) = f
  BY <1>0, <1>3
<1> QED BY <1>4 DEF S

LEMMA PrefixGrows ==
  ASSUME NEW D, NEW r \in Seq(D), NEW s \in Seq(D), IsPrefix(r, s),
         NEW t \in Seq(D)
  PROVE  IsPrefix(r, s \o t)
<1>1. PICK u : u = s \o t
  OBVIOUS
<1>2. /\ u \in Seq(D) /\ Len(u) = Len(s) + Len(t) /\ Len(r) <= Len(s)
      /\ \A i \in 1..Len(s) : u[i] = s[i]
      /\ SubSeq(r, 1, Len(r)) = SubSeq(s, 1, Len(r))
  BY <1>1 DEF IsPrefix
<1>3. Len(r) <= Len(u)
  BY <1>2
<1>4. SubSeq(s, 1, Len(r)) = SubSeq(u, 1, Len(r))
  BY <1>2, <1>3
<1> QED BY <1>1, <1>2, <1>3, <1>4 DEF IsPrefix

LEMMA DocPrefix ==
  ASSUME calls \in Seq(Call), NEW g, NEW D, Doc(g, D), NEW m \in 0..Len(calls)
  PROVE  IsPrefix(g[m], Document)
<1>0. PICK N \in Nat : N = Len(calls)
  OBVIOUS
<1>1. /\ g[N] = Document /\ \A k \in 0..N : g[k] \in Seq(D)
      /\ \A k \in 1..N : g[k] = g[k - 1] \o Told(N + 1 - k)
  BY <1>0 DEF Doc
<1> DEFINE S == {k \in Nat : m + k <= N => IsPrefix(g[m], g[m + k])}
<1>2. 0 \in S
  BY <1>0, <1>1 DEF IsPrefix
<1>3. ASSUME NEW k \in Nat, k \in S PROVE k + 1 \in S
  <2> SUFFICES ASSUME m + (k + 1) <= N PROVE IsPrefix(g[m], g[m + (k + 1)])
    OBVIOUS
  <2>1. PICK j : j = m + (k + 1)
    OBVIOUS
  <2>2. j \in 1..N /\ j - 1 = m + k /\ j - 1 \in 0..N /\ N + 1 - j \in 1..N
        /\ m + k <= N /\ m \in 0..N /\ j \in 0..N
    BY <1>0, <2>1
  <2>3. IsPrefix(g[m], g[j - 1])
    BY <1>3, <2>2
  <2>4. g[j] = g[j - 1] \o Told(N + 1 - j)
    BY <1>1, <2>2
  <2>5. PICK E : E = D \cup {Told(N + 1 - j)[1]}
    OBVIOUS
  <2>6. Told(N + 1 - j) \in Seq(E)
    BY <1>0, <2>2, <2>5, ToldSeq
  <2>7. g[m] \in Seq(E) /\ g[j - 1] \in Seq(E)
    <3>1. g[m] \in Seq(D) /\ g[j - 1] \in Seq(D)
      BY <1>1, <2>2
    <3> QED BY <2>5, <3>1
  <2>8. IsPrefix(g[m], g[j - 1] \o Told(N + 1 - j))
    BY <2>3, <2>6, <2>7, PrefixGrows
  <2> QED BY <2>1, <2>4, <2>8
<1> HIDE DEF S
<1>4. \A k \in Nat : k \in S
  BY <1>2, <1>3, InductionOver
<1>5. N - m \in S /\ m + (N - m) = N /\ N <= N
  BY <1>0, <1>4
<1>6. IsPrefix(g[m], g[N])
  BY <1>5 DEF S
<1> QED BY <1>1, <1>6

-----------------------------------------------------------------------------
(* The value of an object.                                                 *)

LEMMA PartOf ==
  ASSUME NEW s, NEW a \in Nat, NEW n \in Nat
  PROVE  SubSeq(s, a + 1, a + n) = [i \in 1..n |-> s[a + i]]
  OBVIOUS

LEMMA SameSeq ==
  ASSUME NEW S, NEW f \in Seq(S), NEW n \in Nat, Len(f) = n, NEW g,
         g = [i \in 1..n |-> g[i]], \A i \in 1..n : f[i] = g[i]
  PROVE  f = g
<1>1. f = [i \in 1..n |-> f[i]]
  OBVIOUS
<1> QED BY <1>1

\* A buffer in which all of the calls have left their bytes.
Whole(h) ==
  /\ Past(h) /\ BufTypeOK /\ Written(h, Len(calls))
  /\ Len(h[Len(calls)]) = 1 /\ Used(h[Len(calls)]) = need
  /\ need <= Len(buf)

LEMMA UsedAt ==
  ASSUME NEW h, Whole(h), NEW k \in 0..Len(calls)
  PROVE  Used(h[k]) \in Nat /\ Used(h[k]) <= Len(buf) /\ Len(buf) \in Nat
<1>1. Len(calls) \in 0..Len(calls) /\ k <= Len(calls)
  BY DEF Whole, Past
<1>2. /\ Levels(h[k]) /\ Levels(h[Len(calls)])
      /\ Used(h[k]) <= Used(h[Len(calls)])
  BY <1>1 DEF Whole, Past, History
<1>3. Used(h[k]) \in Nat /\ Used(h[Len(calls)]) \in Nat
  BY <1>2, LastLevel
<1> QED BY <1>2, <1>3 DEF Whole, BufTypeOK

\* The first byte of the data of call j is at Used(h[j]) from the end.
LEMMA DataAt ==
  ASSUME NEW h, Whole(h), NEW j \in 1..Len(calls), calls[j].op = "data"
  PROVE  /\ calls[j].n \in Nat
         /\ Used(h[j]) = Used(h[j - 1]) + calls[j].n
         /\ \A p \in 1..calls[j].n : buf[Len(buf) - Used(h[j]) + p] = j
<1>1. calls[j] \in Call /\ Takes(calls[j], h[j - 1]) = calls[j].n
      /\ Used(h[j]) = Used(h[j - 1]) + Takes(calls[j], h[j - 1])
  BY CallAt DEF Whole, Past, Takes
<1>2. \A p \in 1..Takes(calls[j], h[j - 1]) :
        buf[Len(buf) - Used(h[j]) + p] = ByteOf(calls[j], j, p)
  BY DEF Whole, Written
<1>3. \A p : ByteOf(calls[j], j, p) = j
  BY DEF ByteOf
<1> QED BY <1>1, <1>2, <1>3 DEF Call

\* The calls that Value looks for.
LEMMA FirstData ==
  ASSUME calls \in Seq(Call), NEW i \in 1..Len(calls), NEW h, NEW f,
         Run(h, f, i - 1)
  PROVE  Value(i) = FlattenSeq([k \in 1..(i - 1 - f) |->
                                  [b \in 1..calls[i - k].n |-> i - k]])
<1> DEFINE First(j) == /\ \A k \in j..(i - 1) : calls[k].op = "data"
                       /\ j = 1 \/ calls[j - 1].op # "data"
<1>1. /\ f \in 0..(i - 1) /\ \A j \in (f + 1)..(i - 1) : calls[j].op = "data"
      /\ OpAt(calls, f) # "data"
  BY DEF Run
<1>2. First(f + 1) /\ f + 1 \in 1..i
  <2>1. f + 1 \in 1..i
    BY <1>1
  <2>2. f + 1 = 1 \/ calls[(f + 1) - 1].op # "data"
    BY <1>1 DEF OpAt
  <2> QED BY <1>1, <2>1, <2>2
<1>3. ASSUME NEW j \in 1..i, First(j) PROVE j = f + 1
  <2>1. ~(j < f + 1)
    <3> SUFFICES ASSUME j < f + 1 PROVE FALSE
      OBVIOUS
    <3>1. f \in j..(i - 1) /\ f # 0
      BY <1>1
    <3> QED BY <1>1, <1>3, <3>1 DEF OpAt
  <2>2. ~(j > f + 1)
    <3> SUFFICES ASSUME j > f + 1 PROVE FALSE
      OBVIOUS
    <3>1. j - 1 \in (f + 1)..(i - 1) /\ j # 1
      BY <1>1
    <3> QED BY <1>1, <1>3, <3>1
  <2> QED BY <1>1, <2>1, <2>2
<1> HIDE DEF First
<1>4. (CHOOSE j \in 1..i : First(j)) = f + 1
  BY <1>2, <1>3
<1>5. i - (f + 1) = i - 1 - f
  BY <1>1
<1> QED BY <1>4, <1>5 DEF Value, First

LEMMA ValueIs ==
  ASSUME NEW h, Whole(h), NEW i \in 1..Len(calls), NEW f, Run(h, f, i - 1)
  PROVE  Value(i) = SubSeq(buf, Len(buf) - Used(h[i - 1]) + 1,
                                Len(buf) - Used(h[f]))
<1>1. PICK L, u, m : L = Len(buf) /\ u = Used(h[i - 1]) /\ m = i - 1 - f
  OBVIOUS
<1>2. /\ f \in 0..(i - 1) /\ \A j \in (f + 1)..(i - 1) : calls[j].op = "data"
      /\ i - 1 \in 0..Len(calls) /\ f \in 0..Len(calls) /\ m \in Nat
      /\ calls \in Seq(Call) /\ Len(calls) \in Nat
  BY <1>1 DEF Run, Whole, Past
<1>3. L \in Nat /\ u \in Nat /\ u <= L /\ L - u \in Nat
  BY <1>1, <1>2, UsedAt
<1> DEFINE piece(k) == [b \in 1..calls[i - k].n |-> i - k]
           seqs     == [k \in 1..m |-> piece(k)]
<1>4. Value(i) = FlattenSeq(seqs)
  BY <1>1, <1>2, FirstData
<1>5. ASSUME NEW k \in 1..m
      PROVE  /\ i - k \in 1..Len(calls) /\ calls[i - k].op = "data"
             /\ calls[i - k].n \in Nat
             /\ piece(k) \in Seq(Int) /\ Len(piece(k)) = calls[i - k].n
             /\ \A p \in 1..calls[i - k].n : piece(k)[p] = i - k
  <2>1. i - k \in 1..Len(calls) /\ i - k \in (f + 1)..(i - 1) /\ i - k \in Int
    BY <1>1, <1>2
  <2>2. calls[i - k].n \in Nat
    BY <1>2, <2>1, DataAt
  <2> QED BY <1>2, <2>1, <2>2
<1>6. \A k \in 1..m : seqs[k] = piece(k)
  OBVIOUS
<1>7. seqs \in Seq(Seq(Int)) /\ Len(seqs) = m
  <2> HIDE DEF piece
  <2> QED BY <1>2, <1>5
<1> HIDE DEF seqs, piece
<1>8. PICK g : /\ g[0] = << >> /\ g[m] = FlattenSeq(seqs)
               /\ \A k \in 1..m : g[k] = g[k - 1] \o piece(k)
               /\ \A k \in 0..m : g[k] \in Seq(Int)
  <2>1. \E g : /\ g[0] = << >> /\ g[Len(seqs)] = FlattenSeq(seqs)
               /\ \A k \in 1..Len(seqs) : g[k] = g[k - 1] \o seqs[k]
               /\ \A k \in 0..Len(seqs) : g[k] \in Seq(Int)
    BY <1>7, FlattenIs
  <2> QED BY <1>6, <1>7, <2>1
<1> DEFINE Good(k) == /\ Len(g[k]) = u - Used(h[i - 1 - k])
                      /\ \A q \in 1..Len(g[k]) : g[k][q] = buf[L - u + q]
           S == {k \in Nat : k <= m => Good(k)}
<1>9. 0 \in S
  <2>1. i - 1 - 0 = i - 1 /\ u - u = 0
    BY <1>3
  <2>2. Len(g[0]) = 0
    BY <1>8
  <2> QED BY <1>1, <2>1, <2>2
<1>10. ASSUME NEW k \in Nat, k \in S PROVE k + 1 \in S
  <2> SUFFICES ASSUME k + 1 <= m PROVE Good(k + 1)
    OBVIOUS
  <2>1. PICK j, x, y, v, w, n :
          /\ j = i - (k + 1) /\ x = g[k] /\ y = piece(k + 1)
          /\ v = Used(h[j]) /\ w = Used(h[j - 1]) /\ n = calls[j].n
    OBVIOUS
  <2>2. /\ k + 1 \in 1..m /\ (k + 1) - 1 = k /\ k \in 0..m /\ k <= m
        /\ j = i - 1 - k /\ j - 1 = i - 1 - (k + 1)
    BY <1>2, <2>1
  <2>3. /\ j \in 1..Len(calls) /\ calls[j].op = "data" /\ n \in Nat
        /\ y \in Seq(Int) /\ Len(y) = n /\ \A p \in 1..n : y[p] = j
    BY <1>5, <2>1, <2>2
  <2>4. x \in Seq(Int) /\ g[k + 1] = x \o y
    BY <1>8, <2>1, <2>2
  <2>5. Len(x) = u - v /\ \A q \in 1..Len(x) : x[q] = buf[L - u + q]
    BY <1>10, <2>1, <2>2
  <2>6. v = w + n /\ \A p \in 1..n : buf[L - v + p] = j
    BY <1>1, <2>1, <2>3, DataAt
  <2>7. v \in Nat /\ w \in Nat
    <3>1. j \in 0..Len(calls) /\ j - 1 \in 0..Len(calls)
      BY <1>2, <2>3
    <3> QED BY <2>1, <3>1, UsedAt
  <2>8. /\ Len(x \o y) = Len(x) + n
        /\ \A q \in 1..Len(x) : (x \o y)[q] = x[q]
        /\ \A q \in 1..n : (x \o y)[Len(x) + q] = y[q]
    <3>1. /\ Len(x \o y) = Len(x) + Len(y)
          /\ \A q \in 1..Len(x) : (x \o y)[q] = x[q]
          /\ \A q \in 1..Len(y) : (x \o y)[Len(x) + q] = y[q]
      <4>1. x \in Seq(Int) /\ y \in Seq(Int)
        BY <2>3, <2>4
      <4> QED BY ONLY <4>1, Joined
    <3> QED BY <2>3, <3>1
  <2>9. Len(x \o y) = u - w /\ Len(x \o y) = Len(x) + n
        /\ Len(x) \in Nat
    <3>1. PICK lx, lz : lx = Len(x) /\ lz = Len(x \o y)
      OBVIOUS
    <3>2. lx \in Nat
      BY <2>4, <3>1
    <3>3. lx = u - v /\ v = w + n /\ lz = lx + n
      BY <2>5, <2>6, <2>8, <3>1
    <3>4. lz = u - w
      BY ONLY <1>3, <2>3, <2>7, <3>2, <3>3
    <3> QED BY <2>8, <3>1, <3>2, <3>4
  <2>10. ASSUME NEW q \in 1..Len(x \o y) PROVE (x \o y)[q] = buf[L - u + q]
    <3>1. CASE q \in 1..Len(x)
      BY <2>5, <2>8, <3>1
    <3>2. CASE q \notin 1..Len(x)
      <4>1. PICK p : p = q - Len(x)
        OBVIOUS
      <4>2. p \in 1..n /\ q = Len(x) + p /\ L - v + p = L - u + q
        <5>1. PICK lx : lx = Len(x)
          OBVIOUS
        <5>2. /\ lx \in Nat /\ lx = u - v /\ q \in 1..(lx + n)
              /\ q \notin 1..lx /\ p = q - lx
          BY <2>5, <2>9, <3>2, <4>1, <5>1
        <5>3. p \in 1..n /\ q = lx + p /\ L - v + p = L - u + q
          BY ONLY <1>3, <2>3, <2>7, <5>2
        <5> QED BY <5>1, <5>3
      <4>3. (x \o y)[q] = j /\ buf[L - v + p] = j
        BY <2>3, <2>6, <2>8, <4>2
      <4> QED BY <4>2, <4>3
    <3> QED BY <3>1, <3>2
  <2> QED BY <2>1, <2>2, <2>4, <2>9, <2>10
<1> HIDE DEF S
<1>11. \A k \in Nat : k \in S
  BY <1>9, <1>10, InductionOver
<1>12. Good(m)
  <2>1. m \in S /\ m <= m
    BY <1>2, <1>11
  <2> QED BY <2>1 DEF S
<1>13. PICK a, n, s : a = L - u /\ n = u - Used(h[f]) /\ s = g[m]
  OBVIOUS
<1>14. /\ s \in Seq(Int) /\ Len(s) = n /\ n \in Nat /\ a \in Nat
       /\ \A q \in 1..n : s[q] = buf[a + q]
  <2>1. i - 1 - m = f /\ m \in 0..m
    BY <1>1, <1>2
  <2>2. s \in Seq(Int)
    BY <1>8, <1>13, <2>1
  <2>3. Len(s) = n /\ \A q \in 1..Len(s) : s[q] = buf[L - u + q]
    BY <1>12, <1>13, <2>1
  <2> QED BY <1>3, <1>13, <2>2, <2>3
<1>15. s = SubSeq(buf, a + 1, a + n)
  <2>1. PICK t : t = [q \in 1..n |-> buf[a + q]]
    OBVIOUS
  <2>2. t = [q \in 1..n |-> t[q]] /\ \A q \in 1..n : s[q] = t[q]
    BY <1>14, <2>1
  <2>3. s = t
    BY <1>14, <2>2, SameSeq
  <2> QED BY <1>14, <2>1, <2>3, PartOf
<1>16. a + n = L - Used(h[f])
  <2>1. PICK v : v = Used(h[f])
    OBVIOUS
  <2>2. v \in Nat
    BY <1>2, <2>1, UsedAt
  <2>3. a = L - u /\ n = u - v
    BY <1>13, <2>1, Zenon
  <2>4. a + n = L - v
    BY ONLY <1>3, <2>2, <2>3
  <2> QED BY ONLY <2>1, <2>4, Zenon
<1> QED BY <1>1, <1>4, <1>8, <1>13, <1>15, <1>16

-----------------------------------------------------------------------------
(* The reader.                                                             *)

Decoder == [base : Int, len : Int, offset : Int, tag : Tag, val : Int]

\* A decoder is where the encoder was, seen from the other end of the L
\* bytes of the buffer.
Stands(d, l, L) ==
  /\ d.base + d.len = L - l.base
  /\ d.base + d.offset = L - l.base - l.len

AtNext(ds, s, L) ==
  Len(ds) = Len(s) /\ \A k \in 1..Len(s) : Stands(ds[k], s[k], L)

\* Behind the object of header c, whose header was written at s.
AtItem(ds, s, c, L) ==
  /\ Len(ds) = Len(s) /\ \A k \in 1..(Len(s) - 1) : Stands(ds[k], s[k], L)
  /\ Last(ds).base + Last(ds).len = L - Last(s).base
  /\ Last(ds).base + Last(ds).offset = L - Used(s) + c.n
  /\ Last(ds).tag = c.tag /\ Last(ds).val = c.n

\* The calls after i have been read.
At(h, g, i) ==
  /\ i \in 0..Len(calls) /\ read = g[Len(calls) - i] /\ dec \in Seq(Decoder)
  /\ \/ /\ reader = "next" /\ OpAt(calls, i) \in {"start", "hdr"}
        /\ AtNext(dec, h[i], Len(buf))
     \/ /\ reader = "item" /\ i \in 1..Len(calls) /\ calls[i].op = "hdr"
        /\ AtItem(dec, h[i - 1], calls[i], Len(buf))
     \/ reader = "done" /\ i = 0

ReaderInv ==
  /\ EncoderInv
  /\ Offered => LastOp = "hdr"
  /\ reader = "off" => read = << >>
  /\ reader # "off" => pass = "encoded"
  /\ reader # "off" /\ ShortForms =>
       \E h, g, D : Whole(h) /\ Doc(g, D) /\ \E i : At(h, g, i)

LEMMA TopSet ==
  ASSUME NEW D, NEW d \in Seq(D), Len(d) >= 1, NEW e \in D
  PROVE  LET f == [d EXCEPT ![Len(d)] = e] IN
         /\ f \in Seq(D) /\ Len(f) = Len(d) /\ f[Len(d)] = e
         /\ \A k \in 1..(Len(d) - 1) : f[k] = d[k]
  OBVIOUS

LEMMA DecoderOf ==
  ASSUME NEW d \in Decoder
  PROVE  /\ d.base \in Int /\ d.len \in Int /\ d.offset \in Int
         /\ d.val \in Int /\ d.tag \in Tag
  BY DEF Decoder

LEMMA WholeExists ==
  ASSUME EncoderInv, pass = "encoded"
  PROVE  \E h : Whole(h)
<1>1. /\ calls \in Seq(Call) /\ BufTypeOK /\ RealInv /\ next > Len(calls)
  BY DEF EncoderInv, Offered
<1>2. PICK h :
        /\ History(h) /\ Len(h[Len(calls)]) = 1 /\ Used(h[Len(calls)]) = need
        /\ next \in 1..(Len(calls) + 1) /\ Written(h, next - 1)
  BY <1>1 DEF RealInv
<1>3. PICK m : m = next - 1
  OBVIOUS
<1>4. m = Len(calls) /\ Written(h, m)
  BY <1>1, <1>2, <1>3
<1>5. need <= Len(buf)
  BY InvGives DEF ExactFits
<1>6. Whole(h)
  BY <1>1, <1>2, <1>4, <1>5 DEF Whole, Past
<1> QED BY <1>6

\* The header of call i, in the short form.
LEMMA HdrTakes ==
  ASSUME NEW h, Whole(h), ShortForms, NEW i \in 1..Len(calls),
         calls[i].op = "hdr"
  PROVE  /\ calls[i].tag \in Tag /\ calls[i].tag.num < 128
         /\ calls[i].tag.cla # ClassInvalid /\ calls[i].n \in 0..127
         /\ calls[i].n = Last(h[i - 1]).val
         /\ Takes(calls[i], h[i - 1]) = Len(TagField(calls[i].tag)) + 1
         /\ Len(TagField(calls[i].tag)) \in 1..3
<1>1. /\ calls[i] \in Call /\ Levels(h[i - 1]) /\ Legit(calls[i], h[i - 1])
      /\ Follows(calls[i], OpAt(calls, i - 1), h[i - 1])
  BY CallAt DEF Whole, Past
<1>2. PICK c : c = calls[i] /\ c.op = "hdr"
  OBVIOUS
<1>3. c.tag \in Tag /\ c.n \in Nat
  BY <1>1, <1>2 DEF Call
<1>4. c.n <= 127 /\ c.tag.num < 128
  BY <1>2 DEF ShortForms
<1>5. c.tag.cla # ClassInvalid /\ c.n = Last(h[i - 1]).val
  BY <1>1, <1>2 DEF Legit, Follows
<1>6. LenField(c.n) = <<c.n>> /\ Len(<<c.n>>) = 1
  BY <1>4 DEF LenField
<1>7. Takes(c, h[i - 1]) = Len(TagField(c.tag)) + 1
  BY <1>2, <1>5, <1>6 DEF Takes
<1>8. Len(TagField(c.tag)) \in 1..3
  BY <1>3, TagFieldIs DEF Shape
<1>9. c.n \in 0..127
  <2>1. PICK n : n = c.n
    OBVIOUS
  <2>2. n \in Nat /\ n <= 127
    BY <1>3, <1>4, <2>1, Zenon
  <2>3. n \in 0..127
    BY ONLY <2>2
  <2> QED BY <2>1, <2>3, Zenon
<1> QED BY <1>2, <1>3, <1>4, <1>5, <1>7, <1>8, <1>9, Zenon

\* b is the buffer from the end of what was used after call i.
LooksAt(b, h, i) ==
  \A p \in 1..Takes(calls[i], h[i - 1]) :
    b[p - 1] = buf[Len(buf) - Used(h[i]) + p]

LEMMA HdrFound ==
  ASSUME NEW h, Whole(h), ShortForms, NEW i \in 1..Len(calls),
         calls[i].op = "hdr", NEW b, LooksAt(b, h, i), NEW room \in Int,
         room >= Takes(calls[i], h[i - 1])
  PROVE  HdrPrs(b, room) = [ret |-> "SUCCESS", tag |-> calls[i].tag,
                            val |-> calls[i].n,
                            hdr |-> Takes(calls[i], h[i - 1])]
<1>1. PICK c, k : c = calls[i] /\ k = Takes(c, h[i - 1]) /\ c.op = "hdr"
  OBVIOUS
<1>2. /\ c.tag \in Tag /\ c.tag.num < 128 /\ c.tag.cla # ClassInvalid
      /\ c.n \in 0..127 /\ k = Len(TagField(c.tag)) + 1
      /\ Len(TagField(c.tag)) \in 1..3
  BY <1>1, HdrTakes
<1>3. \A p \in 1..k : buf[Len(buf) - Used(h[i]) + p] = ByteOf(c, i, p)
  BY <1>1 DEF Whole, Written
<1>4. \A p \in 1..k : b[p - 1] = (TagField(c.tag) \o LenField(c.n))[p]
  <2>1. \A p \in 1..k : b[p - 1] = ByteOf(c, i, p)
    BY <1>1, <1>3 DEF LooksAt
  <2> QED BY <1>1, <2>1 DEF ByteOf
<1>5. HdrAt(b, c.tag, c.n)
  BY <1>2, <1>4 DEF HdrAt
<1>6. room > Len(TagField(c.tag))
  BY <1>1, <1>2
<1>7. HdrPrs(b, room) = [ret |-> "SUCCESS", tag |-> c.tag, val |-> c.n,
                         hdr |-> Len(TagField(c.tag)) + 1]
  BY <1>2, <1>5, <1>6, HdrRead
<1> QED BY <1>1, <1>2, <1>7

\* Nothing has been written for an encoder that was just begun.
LEMMA JustBegun ==
  ASSUME NEW h, Past(h), NEW i \in 0..Len(calls), OpAt(calls, i) = "start"
  PROVE  Last(h[i]).len = 0 /\ (Len(h[i]) = 1 => i = 0)
<1>1. CASE i = 0
  <2>1. PICK l : l = [len |-> 0, val |-> 0, base |-> 0]
    OBVIOUS
  <2>2. h[i] = <<l>> /\ l.len = 0
    BY <1>1, <2>1 DEF Past, History
  <2>3. Last(<<l>>) = l
    BY DEF Last
  <2> QED BY <1>1, <2>2, <2>3
<1>2. CASE i # 0
  <2>1. PICK s, c, t : s = h[i - 1] /\ c = calls[i] /\ t = h[i]
    OBVIOUS
  <2>2. i \in 1..Len(calls)
    BY <1>2
  <2>3. c \in Call /\ Levels(s) /\ t = Moved(c, s) /\ c.op = "start"
    BY <1>2, <2>1, <2>2, CallAt DEF Past, OpAt
  <2>4. Len(t) = Len(s) + 1 /\ t[Len(s) + 1].len = 0
    BY <2>3, MovedStart
  <2>5. Len(s) \in Nat /\ Len(s) >= 1
    BY <2>3, LastLevel
  <2> QED BY <2>1, <2>4, <2>5 DEF Last
<1> QED BY <1>1, <1>2

-----------------------------------------------------------------------------
(* What the steps of the reader do to its decoders.                        *)

LEMMA LastDecoder ==
  ASSUME NEW ds \in Seq(Decoder), Len(ds) >= 1
  PROVE  /\ Len(ds) \in 1..Len(ds) /\ Last(ds) = ds[Len(ds)]
         /\ Last(ds) \in Decoder
         /\ Last(ds).base \in Int /\ Last(ds).len \in Int
         /\ Last(ds).offset \in Int /\ Last(ds).val \in Int
<1>1. /\ Len(ds) \in 1..Len(ds) /\ Last(ds) = ds[Len(ds)]
      /\ ds[Len(ds)] \in Decoder
  BY DEF Last
<1> QED BY <1>1, DecoderOf

LEMMA LastOfLevels ==
  ASSUME NEW s, Levels(s)
  PROVE  /\ Len(s) \in 1..Len(s) /\ Last(s) = s[Len(s)]
         /\ Last(s).len \in Nat /\ Last(s).val \in Nat /\ Last(s).base \in Nat
         /\ Used(s) = Last(s).base + Last(s).len
         /\ Last(s).val <= Last(s).len
<1>1. Len(s) \in 1..Len(s) /\ Last(s) = s[Len(s)]
  BY LastLevel DEF Last
<1> QED BY <1>1, LastLevel DEF Levels, Used

LEMMA TopStands ==
  ASSUME NEW ds \in Seq(Decoder), NEW s, Levels(s), NEW L \in Int,
         AtNext(ds, s, L)
  PROVE  /\ Len(ds) >= 1
         /\ Last(ds).base + Last(ds).len = L - Last(s).base
         /\ Last(ds).base + Last(ds).offset = L - Used(s)
         /\ Last(ds).len - Last(ds).offset = Last(s).len
<1>1. Len(ds) = Len(s) /\ Len(s) \in 1..Len(s) /\ Len(ds) >= 1
  BY LastOfLevels DEF AtNext
<1>2. Stands(Last(ds), Last(s), L)
  BY <1>1 DEF AtNext, Last
<1>3. PICK a, b, c, x, y :
        /\ a = Last(ds).base /\ b = Last(ds).len /\ c = Last(ds).offset
        /\ x = Last(s).base /\ y = Last(s).len
  OBVIOUS
<1>4. /\ a \in Int /\ b \in Int /\ c \in Int /\ x \in Nat /\ y \in Nat
      /\ Used(s) = x + y
  BY <1>1, <1>3, LastDecoder, LastOfLevels
<1>5. a + b = L - x /\ a + c = L - x - y
  BY <1>2, <1>3 DEF Stands
<1>6. a + c = L - (x + y) /\ b - c = y
  BY ONLY <1>4, <1>5, L \in Int
<1> QED BY <1>1, <1>3, <1>4, <1>5, <1>6

\* The head goes over a header and its value.
LEMMA ItemFound ==
  ASSUME NEW ds \in Seq(Decoder), NEW s, Levels(s), NEW L \in Int,
         NEW c \in Call, c.op = "hdr", Levels(Moved(c, s)),
         AtNext(ds, Moved(c, s), L),
         NEW e, e = [Last(ds) EXCEPT !.offset = @ + Takes(c, s) + c.n,
                                     !.tag = c.tag, !.val = c.n]
  PROVE  LET f == [ds EXCEPT ![Len(ds)] = e] IN
         f \in Seq(Decoder) /\ AtItem(f, s, c, L)
<1>1. PICK t, k, n : t = Moved(c, s) /\ k = Takes(c, s) /\ n = c.n
  OBVIOUS
<1>2. /\ Len(ds) >= 1
      /\ Last(ds).base + Last(ds).len = L - Last(t).base
      /\ Last(ds).base + Last(ds).offset = L - Used(t)
  BY <1>1, TopStands
<1>3. k \in Nat /\ n \in Nat /\ c.tag \in Tag
  BY <1>1, TakesNat DEF Call
<1>4. /\ Len(t) = Len(s) /\ \A i \in 1..(Len(s) - 1) : t[i] = s[i]
      /\ t[Len(s)].base = s[Len(s)].base
  BY <1>1, MovedTop
<1>5. Used(t) = Used(s) + k /\ Used(s) \in Nat
  <2>2. /\ Len(t) = Len(s) /\ t[Len(s)].len = s[Len(s)].len + k
        /\ t[Len(s)].base = s[Len(s)].base
    BY <1>1, MovedTop
  <2>3. /\ Used(t) = t[Len(t)].base + t[Len(t)].len
        /\ Used(s) = s[Len(s)].base + s[Len(s)].len
        /\ s[Len(s)].base \in Nat /\ s[Len(s)].len \in Nat
    BY <1>1, LastLevel, LastOfLevels
  <2>4. PICK x, y : x = s[Len(s)].base /\ y = s[Len(s)].len
    OBVIOUS
  <2>5. Used(t) = x + (y + k) /\ Used(s) = x + y /\ x \in Nat /\ y \in Nat
    BY <2>2, <2>3, <2>4
  <2>6. x + (y + k) = (x + y) + k /\ x + y \in Nat
    BY ONLY <1>3, <2>5
  <2> QED BY <2>5, <2>6, Zenon
<1>6. PICK d : d = Last(ds)
  OBVIOUS
<1>7. /\ d \in Decoder /\ d.base \in Int /\ d.len \in Int /\ d.offset \in Int
  BY <1>2, <1>6, LastDecoder
<1>8. /\ e \in Decoder /\ e.base = d.base /\ e.len = d.len
      /\ e.offset = d.offset + k + n /\ e.tag = c.tag /\ e.val = n
  <2>1. e = [d EXCEPT !.offset = @ + k + n, !.tag = c.tag, !.val = n]
    BY <1>1, <1>6
  <2>2. PICK o, tag : o = d.offset + k + n /\ tag = c.tag
    OBVIOUS
  <2>3. o \in Int /\ tag \in Tag /\ n \in Int
    BY <1>3, <1>7, <2>2
  <2>4. e = [d EXCEPT !.offset = o, !.tag = tag, !.val = n]
    BY <1>7, <2>1, <2>2 DEF Decoder
  <2>5. /\ e \in Decoder /\ e.base = d.base /\ e.len = d.len
        /\ e.offset = o /\ e.tag = tag /\ e.val = n
    BY <1>7, <2>3, <2>4 DEF Decoder
  <2> QED BY <2>2, <2>5
<1>9. PICK f : f = [ds EXCEPT ![Len(ds)] = e]
  OBVIOUS
<1>10. /\ f \in Seq(Decoder) /\ Len(f) = Len(ds) /\ f[Len(ds)] = e
       /\ \A j \in 1..(Len(ds) - 1) : f[j] = ds[j]
  BY <1>2, <1>8, <1>9, TopSet
<1>11. Len(ds) = Len(t) /\ \A j \in 1..Len(t) : Stands(ds[j], t[j], L)
  BY <1>1 DEF AtNext
<1>12. Len(s) \in 1..Len(s) /\ Last(s) = s[Len(s)] /\ Last(t) = t[Len(t)]
  BY <1>1, LastOfLevels
<1>13. \A j \in 1..(Len(s) - 1) : Stands(f[j], s[j], L)
  BY <1>4, <1>10, <1>11, <1>12
<1>14. Last(f) = e /\ Len(f) = Len(s)
  BY <1>4, <1>10, <1>11 DEF Last
<1>15. e.base + e.len = L - Last(s).base
  BY <1>2, <1>4, <1>6, <1>8, <1>12
<1>16. e.base + e.offset = L - Used(s) + n
  <2>1. PICK a, o, u : a = d.base /\ o = d.offset /\ u = Used(s)
    OBVIOUS
  <2>2. a + o = L - (u + k) /\ a \in Int /\ o \in Int /\ u \in Nat
    BY <1>2, <1>5, <1>6, <1>7, <2>1
  <2>3. a + (o + k + n) = L - u + n
    BY ONLY <1>3, <2>2, L \in Int
  <2> QED BY <1>8, <2>1, <2>3
<1> QED BY <1>1, <1>8, <1>9, <1>10, <1>13, <1>14, <1>15, <1>16 DEF AtItem

\* The head goes into an object: where its value was nested, the encoder
\* that is in use at its end.
LEMMA Entered ==
  ASSUME NEW ds \in Seq(Decoder), NEW r, Levels(r), NEW L \in Int,
         NEW e \in Call, e.op = "end", Len(r) > 1, NEW s, s = Moved(e, r),
         Levels(s), NEW c, c.n = Last(s).val, AtItem(ds, s, c, L),
         NEW d, d = DecInit(Last(ds).base + Last(ds).offset - Last(ds).val,
                            Last(ds).val)
  PROVE  Append(ds, d) \in Seq(Decoder) /\ AtNext(Append(ds, d), r, L)
<1> DEFINE m == Len(r) - 1
<1>1. /\ Len(s) = m
      /\ \A i \in 1..(m - 1) : s[i] = r[i]
      /\ s[m].len = r[m].len + r[Len(r)].len
      /\ s[m].val = r[Len(r)].len /\ s[m].base = r[m].base
  BY MovedEnd
<1>2. /\ Len(r) = m + 1 /\ m \in 1..m /\ m \in 1..(Len(r) - 1)
      /\ m \in 1..Len(r) /\ m + 1 \in 1..Len(r)
  BY LastOfLevels
<1> HIDE DEF m
<1>3. PICK x, y, z : x = r[m].base /\ y = r[m].len /\ z = r[m + 1].len
  OBVIOUS
<1>4. x \in Nat /\ y \in Nat /\ z \in Nat /\ r[m + 1].base = x + y
  BY <1>2, <1>3, LastLevel DEF Levels
<1>5. /\ Len(s) = m /\ Last(s) = s[m] /\ Last(s).base = x /\ Last(s).val = z
      /\ Last(s).len = y + z /\ Used(s) = x + (y + z)
  <2>1. Len(s) = m /\ Last(s) = s[Len(s)]
        /\ Used(s) = Last(s).base + Last(s).len
    BY <1>1, LastOfLevels
  <2>2. s[m].base = x /\ s[m].len = y + z /\ s[m].val = z
    BY <1>1, <1>2, <1>3
  <2>3. Last(s) = s[m]
    BY <2>1
  <2> QED BY <2>1, <2>2, <2>3
<1>6. PICK a, b, o, v : /\ a = Last(ds).base /\ b = Last(ds).len
                        /\ o = Last(ds).offset /\ v = Last(ds).val
  OBVIOUS
<1>7. /\ Len(ds) = m /\ a + b = L - x /\ a + o = L - (x + (y + z)) + z
      /\ v = z
  BY <1>5, <1>6 DEF AtItem
<1>8. /\ Last(ds) = ds[m] /\ a \in Int /\ b \in Int /\ o \in Int
  BY <1>2, <1>6, <1>7, LastDecoder
<1>9. /\ a + o = L - x - y /\ a + o - v \in Int /\ v \in Int
      /\ (a + o - v) + v = L - (x + y) /\ (a + o - v) + 0 = L - (x + y) - z
  BY ONLY <1>4, <1>7, <1>8, L \in Int
<1>10. d = [base |-> a + o - v, len |-> v, offset |-> 0, tag |-> NoTag,
            val |-> 0]
  BY <1>6 DEF DecInit
<1>11. d \in Decoder /\ Stands(d, r[m + 1], L)
  <2>1. PICK w : w = a + o - v /\ w \in Int
    BY <1>9
  <2>2. d = [base |-> w, len |-> v, offset |-> 0, tag |-> NoTag, val |-> 0]
    BY <1>10, <2>1
  <2>3. d \in Decoder /\ d.base = w /\ d.len = v /\ d.offset = 0
    BY <1>9, <2>1, <2>2, NoTagIsTag DEF Decoder
  <2>4. w + v = L - (x + y) /\ w + 0 = L - (x + y) - z
    BY <1>9, <2>1
  <2> QED BY <1>3, <1>4, <2>3, <2>4 DEF Stands
<1>12. Stands(ds[m], r[m], L)
  BY <1>3, <1>6, <1>7, <1>8, <1>9 DEF Stands
<1>13. ASSUME NEW k \in 1..(m - 1) PROVE Stands(ds[k], r[k], L)
  <2>1. Stands(ds[k], s[k], L)
    BY <1>5 DEF AtItem
  <2> QED BY <1>1, <2>1
<1>14. PICK f : f = Append(ds, d)
  OBVIOUS
<1>15. /\ f \in Seq(Decoder) /\ Len(f) = m + 1 /\ f[m + 1] = d
       /\ \A k \in 1..m : f[k] = ds[k]
  BY <1>7, <1>11, <1>14
<1>16. ASSUME NEW k \in 1..(m + 1) PROVE Stands(f[k], r[k], L)
  <2>1. CASE k = m + 1
    BY <1>11, <1>15, <2>1
  <2>2. CASE k = m
    BY <1>2, <1>12, <1>15, <2>2
  <2>3. CASE k # m /\ k # m + 1
    <3>1. k \in 1..(m - 1) /\ k \in 1..m
      BY <1>2, <2>3
    <3> QED BY <1>13, <1>15, <3>1
  <2> QED BY <2>1, <2>2, <2>3
<1> QED BY <1>2, <1>14, <1>15, <1>16 DEF AtNext

\* The head stays behind an object.
LEMMA Passed ==
  ASSUME NEW ds \in Seq(Decoder), NEW s, Levels(s), NEW L \in Int,
         NEW c, c.n = Last(s).val, AtItem(ds, s, c, L), NEW r, OnlyData(r, s)
  PROVE  AtNext(ds, r, L)
<1>1. /\ Len(s) \in 1..Len(s) /\ Last(s) = s[Len(s)]
      /\ Last(s).base \in Nat /\ Last(s).len \in Nat /\ Last(s).val \in Nat
      /\ Used(s) = Last(s).base + Last(s).len
  BY LastOfLevels
<1>2. /\ Len(ds) = Len(s) /\ \A k \in 1..(Len(s) - 1) : Stands(ds[k], s[k], L)
      /\ Last(ds).base + Last(ds).len = L - Last(s).base
      /\ Last(ds).base + Last(ds).offset = L - Used(s) + c.n
  BY DEF AtItem
<1>3. /\ Len(r) = Len(s) /\ \A k \in 1..(Len(s) - 1) : r[k] = s[k]
      /\ Last(r).base = Last(s).base /\ Last(r).len \in Nat
      /\ Last(r).len + Last(s).val = Last(s).len
  BY DEF OnlyData
<1>4. PICK a, o, x, y, z, w :
        /\ a = Last(ds).base /\ o = Last(ds).offset /\ x = Last(s).base
        /\ y = Last(s).len /\ z = Last(s).val /\ w = Last(r).len
  OBVIOUS
<1>5. /\ x \in Nat /\ y \in Nat /\ z \in Nat /\ w \in Nat
      /\ a + o = L - (x + y) + z /\ w + z = y
  BY <1>1, <1>2, <1>3, <1>4
<1>6. a + o = L - x - w
  BY ONLY <1>5, L \in Int
<1>7. Stands(Last(ds), Last(r), L)
  BY <1>2, <1>3, <1>4, <1>6 DEF Stands
<1>8. ASSUME NEW k \in 1..Len(r) PROVE Stands(ds[k], r[k], L)
  <2>1. CASE k = Len(s)
    BY <1>2, <1>3, <1>7, <2>1 DEF Last
  <2>2. CASE k # Len(s)
    <3>1. k \in 1..(Len(s) - 1)
      BY <1>1, <1>3, <2>2
    <3> QED BY <1>2, <1>3, <3>1
  <2> QED BY <2>1, <2>2
<1> QED BY <1>2, <1>3, <1>8 DEF AtNext

\* The head leaves an object.
LEMMA Left ==
  ASSUME NEW ds \in Seq(Decoder), NEW s, Levels(s), NEW L \in Int,
         NEW c \in Call, c.op = "start", Last(s).val = 0,
         AtNext(ds, Moved(c, s), L), NEW r, OnlyData(r, s)
  PROVE  LET f == SubSeq(ds, 1, Len(ds) - 1) IN
         f \in Seq(Decoder) /\ AtNext(f, r, L)
<1>1. PICK t : t = Moved(c, s)
  OBVIOUS
<1>2. Len(t) = Len(s) + 1 /\ \A k \in 1..Len(s) : t[k] = s[k]
  BY <1>1, MovedStart
<1>3. Len(ds) = Len(t) /\ \A k \in 1..Len(t) : Stands(ds[k], t[k], L)
  BY <1>1 DEF AtNext
<1>4. Len(s) \in 1..Len(s) /\ Last(s) = s[Len(s)] /\ Len(s) \in Nat
  BY LastOfLevels
<1>5. PICK f : f = SubSeq(ds, 1, Len(ds) - 1)
  OBVIOUS
<1>6. /\ f \in Seq(Decoder) /\ Len(f) = Len(s)
      /\ \A k \in 1..Len(s) : f[k] = ds[k]
  BY <1>2, <1>3, <1>4, <1>5
<1>7. \A k \in 1..Len(s) : Stands(f[k], s[k], L)
  BY <1>2, <1>3, <1>4, <1>6
<1>8. /\ Len(r) = Len(s) /\ \A k \in 1..(Len(s) - 1) : r[k] = s[k]
      /\ Last(r).base = Last(s).base /\ Last(r).len \in Nat
      /\ Last(r).len + Last(s).val = Last(s).len
  BY DEF OnlyData
<1>9. Last(r).len = Last(s).len
  BY <1>8
<1>10. ASSUME NEW k \in 1..Len(r) PROVE Stands(f[k], r[k], L)
  <2>1. CASE k = Len(s)
    BY <1>4, <1>7, <1>8, <1>9, <2>1 DEF Last, Stands
  <2>2. CASE k # Len(s)
    <3>1. k \in 1..(Len(s) - 1) /\ k \in 1..Len(s)
      BY <1>4, <1>8, <2>2
    <3> QED BY <1>7, <1>8, <3>1
  <2> QED BY <2>1, <2>2
<1> QED BY <1>5, <1>6, <1>8, <1>10 DEF AtNext

-----------------------------------------------------------------------------
(* The reader changes nothing of the document.                             *)

LEMMA SameValue ==
  ASSUME calls' = calls, NEW i
  PROVE  Value(i)' = Value(i)
<1> DEFINE first == CHOOSE j \in 1..i :
                      /\ \A k \in j..(i - 1) : calls[k].op = "data"
                      /\ j = 1 \/ calls[j - 1].op # "data"
<1>1. first' = first
  OBVIOUS
<1> QED BY <1>1 DEF Value

LEMMA SameTold ==
  ASSUME calls' = calls, NEW i
  PROVE  Told(i)' = Told(i)
  BY SameValue DEF Told

LEMMA SameDocument ==
  ASSUME calls' = calls
  PROVE  Document' = Document
<1>1. \A i : Told(i)' = Told(i)
  BY SameTold
<1> QED BY <1>1 DEF Document

LEMMA SameDoc ==
  ASSUME calls' = calls, NEW g, NEW D, Doc(g, D)
  PROVE  Doc(g, D)'
<1>1. \A i : Told(i)' = Told(i)
  BY SameTold
<1>2. Document' = Document
  BY SameDocument
<1> QED BY <1>1, <1>2 DEF Doc

LEMMA SameWhole ==
  ASSUME UNCHANGED encVars, NEW h, Whole(h)
  PROVE  Whole(h)'
<1>1. calls' = calls /\ buf' = buf /\ need' = need
  BY DEF encVars
<1>2. Past(h)'
  BY <1>1 DEF Whole, Past, History
<1>3. BufTypeOK'
  BY <1>1 DEF Whole, BufTypeOK
<1>4. PICK m : m = Len(calls)
  OBVIOUS
<1>5. Written(h, m)'
  BY <1>1, <1>4 DEF Whole, Written
<1>6. /\ m = Len(calls') /\ Len(h[m]) = 1 /\ Used(h[m]) = need'
      /\ need' <= Len(buf')
  BY <1>1, <1>4 DEF Whole
<1> QED BY <1>2, <1>3, <1>5, <1>6 DEF Whole

-----------------------------------------------------------------------------
(* The steps of the reader.                                                *)

\* A moment of the history, and the positions in the buffer.
LEMMA Moment ==
  ASSUME NEW h, Whole(h), NEW k \in 0..Len(calls)
  PROVE  /\ Levels(h[k]) /\ Len(buf) \in Nat /\ Len(buf) \in Int
         /\ Used(h[k]) \in Nat /\ Used(h[k]) <= Len(buf)
<1>1. Levels(h[k])
  BY DEF Whole, Past, History
<1>2. Used(h[k]) \in Nat /\ Used(h[k]) <= Len(buf) /\ Len(buf) \in Nat
  BY UsedAt
<1>3. PICK L : L = Len(buf)
  OBVIOUS
<1>4. L \in Nat => L \in Int
  OBVIOUS
<1> QED BY <1>1, <1>2, <1>3, <1>4, Zenon

LEMMA RunIs ==
  ASSUME NEW h, NEW f, NEW m, Run(h, f, m)
  PROVE  OnlyData(h[f], h[m]) /\ OpAt(calls, f) \in {"start", "hdr"}
         /\ f \in 0..m
  BY DEF Run

LEMMA ReadStarts ==
  ASSUME EncoderInv, LastOp = "hdr", read = << >>, ReadStart,
         NEW h, Whole(h), NEW g, NEW D, Doc(g, D)
  PROVE  At(h, g, Len(calls))'
<1>1. PICK N, L, s : N = Len(calls) /\ L = Len(buf) /\ s = h[N]
  OBVIOUS
<1>2. /\ dec' = <<DecInit(L - need, need)>> /\ reader' = "next"
      /\ read' = read /\ calls' = calls /\ buf' = buf
  BY <1>1 DEF ReadStart, encVars
<1>3. N \in Nat /\ N \in 0..N
  BY <1>1 DEF Whole, Past
<1>4. /\ Levels(s) /\ L \in Nat /\ Len(s) = 1 /\ Used(s) = need
      /\ need \in Nat
  BY <1>1, <1>3, Moment DEF Whole
<1>5. s[1].base = 0 /\ s[1].len = need
  <2>1. s[1].base = 0
    BY <1>4 DEF Levels
  <2>2. Used(s) = s[1].base + s[1].len /\ s[1].len \in Nat
    BY <1>4, LastLevel
  <2> QED BY <1>4, <2>1, <2>2
<1>6. PICK d : d = DecInit(L - need, need)
  OBVIOUS
<1>7. d \in Decoder /\ d.base = L - need /\ d.len = need /\ d.offset = 0
  <2>1. PICK w \in Int : w = L - need
    BY <1>4
  <2>2. d = [base |-> w, len |-> need, offset |-> 0, tag |-> NoTag, val |-> 0]
    BY <1>6, <2>1 DEF DecInit
  <2> QED BY <1>4, <2>1, <2>2, NoTagIsTag DEF Decoder
<1>8. Stands(d, s[1], L)
  BY <1>4, <1>5, <1>7 DEF Stands
<1>9. dec' \in Seq(Decoder) /\ AtNext(dec', s, L)
  <2>1. dec' = <<d>>
    BY <1>2, <1>6
  <2>2. dec' \in Seq(Decoder) /\ Len(dec') = 1 /\ dec'[1] = d
    BY <1>7, <2>1
  <2> QED BY <1>4, <1>8, <2>2 DEF AtNext
<1>10. read' = g[N - N]
  <2>1. N - N = 0
    BY <1>3
  <2> QED BY <1>2, <2>1 DEF Doc
<1>11. OpAt(calls, N) \in {"start", "hdr"}
  BY <1>1 DEF OpAt, LastOp
<1> QED BY <1>1, <1>2, <1>3, <1>9, <1>10, <1>11 DEF At

LEMMA NextReads ==
  ASSUME NEW h, Whole(h), NEW g, NEW i, ShortForms, At(h, g, i),
         NEW beyond, ReadNext(beyond)
  PROVE  At(h, g, i)'
<1>0. /\ reader = "next" /\ Cur.offset < Cur.len
      /\ read' = read /\ calls' = calls /\ buf' = buf
  BY DEF ReadNext, encVars
<1>1. PICK L, t : L = Len(buf) /\ t = h[i]
  OBVIOUS
<1>2. /\ i \in 0..Len(calls) /\ read = g[Len(calls) - i]
      /\ dec \in Seq(Decoder) /\ OpAt(calls, i) \in {"start", "hdr"}
      /\ AtNext(dec, t, L)
  BY <1>0, <1>1 DEF At
<1>3. Levels(t) /\ L \in Nat /\ L \in Int /\ Used(t) \in Nat /\ Used(t) <= L
  BY <1>1, <1>2, Moment
<1>4. /\ Len(dec) >= 1 /\ Cur = Last(dec)
      /\ Cur.base + Cur.offset = L - Used(t)
      /\ Cur.len - Cur.offset = Last(t).len
  BY <1>2, <1>3, TopStands DEF Cur, Last
<1>5. Cur.base \in Int /\ Cur.offset \in Int /\ Cur.len \in Int
  BY <1>2, <1>4, LastDecoder
<1>6. Last(t).len # 0
  BY <1>0, <1>4, <1>5
<1>7. i \in 1..Len(calls) /\ calls[i].op = "hdr"
  <2>1. OpAt(calls, i) # "start"
    BY <1>1, <1>2, <1>6, JustBegun DEF Whole
  <2>2. OpAt(calls, i) = "hdr" /\ i # 0
    BY <1>2, <2>1 DEF OpAt
  <2> QED BY <1>2, <2>2 DEF OpAt
<1>8. PICK s, c, k : s = h[i - 1] /\ c = calls[i] /\ k = Takes(c, s)
  OBVIOUS
<1>9. /\ c \in Call /\ Levels(s) /\ t = Moved(c, s) /\ k \in Nat
      /\ Used(t) = Used(s) + k /\ c.op = "hdr"
  BY <1>1, <1>7, <1>8, CallAt DEF Whole, Past
<1>10. k \in 2..4
  <2>1. /\ Takes(calls[i], h[i - 1]) = Len(TagField(calls[i].tag)) + 1
        /\ Len(TagField(calls[i].tag)) \in 1..3
    BY <1>7, HdrTakes
  <2>2. PICK m : m = Len(TagField(calls[i].tag))
    OBVIOUS
  <2>3. m \in 1..3 /\ k = m + 1
    BY <1>8, <2>1, <2>2
  <2> QED BY ONLY <2>3
<1>11. Last(t).len >= k
  <2>1. /\ Len(t) = Len(s) /\ t[Len(s)].len = s[Len(s)].len + k
    BY <1>8, <1>9, MovedTop
  <2>2. s[Len(s)].len \in Nat
    BY <1>9, LastOfLevels, LastLevel
  <2> QED BY <1>9, <2>1, <2>2 DEF Last
<1> DEFINE b   == [j \in 0..(TagLenMax + LenLenMax) |-> ByteAt(j, beyond)]
           hdr == HdrPrs(b, Cur.len - Cur.offset)
<1>12. LooksAt(b, h, i)
  <2>1. ASSUME NEW p \in 1..k PROVE b[p - 1] = buf[L - Used(t) + p]
    <3>1. p - 1 \in 0..(TagLenMax + LenLenMax)
      BY <1>10, EncoderAssumption
    <3>2. b[p - 1] = ByteAt(p - 1, beyond)
      BY <3>1
    <3>3. PICK q : q = L - Used(t) + p
      OBVIOUS
    <3>4. Cur.base + Cur.offset + (p - 1) + 1 = q
      BY <1>3, <1>4, <1>5, <3>3
    <3>5. q \in 1..L
      <4>1. Used(s) \in Nat
        BY <1>9, LastLevel
      <4> QED BY <1>3, <1>9, <3>3, <4>1
    <3>6. q \in DOMAIN buf
      BY <1>1, <3>5 DEF Whole, BufTypeOK
    <3> QED BY <3>2, <3>3, <3>4, <3>6 DEF ByteAt
  <2> HIDE DEF b
  <2> QED BY <1>1, <1>8, <2>1 DEF LooksAt
<1>13. hdr = [ret |-> "SUCCESS", tag |-> c.tag, val |-> c.n, hdr |-> k]
  <2>1. PICK room \in Int : room = Cur.len - Cur.offset
    BY <1>5
  <2>2. room >= k
    BY <1>4, <1>11, <2>1
  <2> HIDE DEF b
  <2>3. HdrPrs(b, room) = [ret |-> "SUCCESS", tag |-> c.tag, val |-> c.n,
                           hdr |-> k]
    BY <1>7, <1>8, <1>12, <2>2, HdrFound
  <2> QED BY <2>1, <2>3
<1>14. dec' = DecNext(hdr) /\ reader' = "item"
  <2>1. hdr.ret = "SUCCESS"
    BY <1>13
  <2> QED BY <2>1, Zenon DEF ReadNext
<1> HIDE DEF hdr
<1>15. PICK e : e = [Last(dec) EXCEPT !.offset = @ + Takes(c, s) + c.n,
                                      !.tag = c.tag, !.val = c.n]
  OBVIOUS
<1>16. dec' = [dec EXCEPT ![Len(dec)] = e]
  <2>1. hdr.hdr = k /\ hdr.val = c.n /\ hdr.tag = c.tag
    BY <1>13
  <2> QED BY <1>4, <1>8, <1>14, <1>15, <2>1 DEF DecNext, SetCur
<1>17. dec' \in Seq(Decoder) /\ AtItem(dec', s, c, L)
  BY <1>2, <1>3, <1>9, <1>15, <1>16, ItemFound
<1> QED BY <1>0, <1>1, <1>2, <1>7, <1>8, <1>14, <1>17 DEF At

LEMMA ItemReads ==
  ASSUME NEW h, Whole(h), NEW g, NEW D, Doc(g, D), NEW i, ShortForms,
         At(h, g, i), ReadItem
  PROVE  \E j : At(h, g, j)'
<1>0. reader = "item" /\ calls' = calls /\ buf' = buf
  BY DEF ReadItem, encVars
<1>1. PICK N, L, s, c : /\ N = Len(calls) /\ L = Len(buf)
                        /\ s = h[i - 1] /\ c = calls[i]
  OBVIOUS
<1>2. /\ i \in 1..N /\ read = g[N - i] /\ dec \in Seq(Decoder)
      /\ c.op = "hdr" /\ AtItem(dec, s, c, L)
  BY <1>0, <1>1 DEF At
<1>3. /\ c \in Call /\ Levels(s) /\ Follows(c, OpAt(calls, i - 1), s)
      /\ c.n = Last(s).val /\ calls \in Seq(Call) /\ N \in Nat
  BY <1>1, <1>2, CallAt DEF Whole, Past, Follows
<1>4. L \in Nat /\ L \in Int /\ Used(s) \in Nat /\ Used(s) <= L
      /\ i - 1 \in 0..N
  <2>1. i - 1 \in 0..N
    BY <1>2, <1>3
  <2> QED BY <1>1, <2>1, Moment
<1>5. PICK u, n : u = Used(s) /\ n = c.n
  OBVIOUS
<1>6. /\ n \in Nat /\ n <= u /\ n = Last(s).val /\ u \in Nat
      /\ Len(s) >= 1
  BY <1>3, <1>4, <1>5, LastOfLevels
<1>7. /\ Cur = Last(dec) /\ Len(dec) = Len(s) /\ Len(dec) >= 1
      /\ Cur.base + Cur.offset = L - u + n
      /\ Cur.tag = c.tag /\ Cur.val = n
  BY <1>2, <1>5, <1>6 DEF AtItem, Cur, Last
<1>8. PICK d : d = DecCur
  OBVIOUS
<1>9. /\ d.base = L - u /\ d.len = n /\ L - u \in Nat
  <2>1. Cur.base \in Int /\ Cur.offset \in Int
    BY <1>2, <1>7, LastDecoder
  <2>2. d.base = Cur.base + Cur.offset - Cur.val /\ d.len = Cur.val
    BY <1>8 DEF DecCur, DecInit
  <2>3. PICK a, o : a = Cur.base /\ o = Cur.offset
    OBVIOUS
  <2>4. a + o - n = L - u /\ L - u \in Nat
    <3>1. /\ a + o = L - u + n /\ a \in Int /\ o \in Int /\ u <= L
          /\ L \in Nat /\ u \in Nat /\ n \in Nat
      BY <1>4, <1>5, <1>6, <1>7, <2>1, <2>3
    <3> QED BY ONLY <3>1
  <2> QED BY <1>7, <2>2, <2>3, <2>4
<1>10. Inside
  <2>1. (L - u) + n <= L
    BY ONLY <1>4, <1>6
  <2> QED BY <1>1, <1>8, <1>9, <2>1 DEF Inside
<1>11. CASE c.tag.pc
  <2>1. /\ reader' = "next" /\ dec' = Append(dec, d)
        /\ read' = Append(read, Item("open", c.tag, << >>))
    BY <1>7, <1>8, <1>10, <1>11 DEF ReadItem
  <2>2. OpAt(calls, i - 1) = "end"
    BY <1>2, <1>3, <1>11 DEF Follows
  <2>3. PICK k : k = i - 1
    OBVIOUS
  <2>4. k \in 1..N /\ calls[k].op = "end" /\ k - 1 = i - 2 /\ k - 1 \in 0..N
    BY <1>2, <1>3, <2>2, <2>3 DEF OpAt
  <2>5. PICK e, r : e = calls[k] /\ r = h[k - 1]
    OBVIOUS
  <2>6. /\ e \in Call /\ e.op = "end" /\ Levels(r) /\ s = Moved(e, r)
        /\ Len(r) > 1 /\ OpAt(calls, k - 1) \in {"start", "hdr"}
    BY <1>1, <2>3, <2>4, <2>5, CallAt DEF Whole, Past, Legit, Follows
  <2>7. dec' \in Seq(Decoder) /\ AtNext(dec', r, L)
    <3>1. d = DecInit(Last(dec).base + Last(dec).offset - Last(dec).val,
                      Last(dec).val)
      BY <1>7, <1>8 DEF DecCur
    <3> QED BY <1>2, <1>3, <1>4, <2>1, <2>6, <3>1, Entered
  <2>8. read' = g[N - (k - 1)]
    <3>1. Told(i) = <<Item("open", c.tag, << >>)>>
      BY <1>1, <1>2, <1>11 DEF Told
    <3>2. g[N - (i - 1)] = Append(g[N - i], Item("open", c.tag, << >>))
      BY <1>1, <1>2, <1>3, <3>1, DocStep
    <3>3. Told(k) = << >>
      BY <2>4 DEF Told
    <3>4. g[N - (k - 1)] = g[N - k]
      BY <1>1, <1>3, <2>4, <3>3, DocStep
    <3> QED BY <1>2, <2>1, <2>3, <3>2, <3>4
  <2>9. At(h, g, k - 1)'
    BY <1>0, <1>1, <2>1, <2>4, <2>5, <2>6, <2>7, <2>8 DEF At
  <2> QED BY <2>9
<1>12. CASE ~c.tag.pc
  <2>1. /\ reader' = "next" /\ dec' = dec
        /\ read' = Append(read, Item("value", c.tag,
                            SubSeq(buf, d.base + 1, d.base + d.len)))
    BY <1>7, <1>8, <1>10, <1>12 DEF ReadItem
  <2>2. OpAt(calls, i - 1) # "end"
    BY <1>2, <1>3, <1>12 DEF Follows
  <2>3. PICK f : Run(h, f, i - 1)
    BY <1>1, <1>4, <2>2, RunBack DEF Whole
  <2>4. PICK r : r = h[f]
    OBVIOUS
  <2>5. /\ OnlyData(r, s) /\ OpAt(calls, f) \in {"start", "hdr"}
        /\ f \in 0..(i - 1)
    BY <1>1, <2>3, <2>4, RunIs
  <2>6. f \in 0..N
    <3>1. PICK k : k = i - 1
      OBVIOUS
    <3>2. k \in 0..N /\ f \in 0..k /\ N \in Nat
      BY <1>3, <1>4, <2>5, <3>1
    <3> QED BY ONLY <3>2
  <2>7. AtNext(dec, r, L)
    BY <1>2, <1>3, <1>4, <2>5, Passed
  <2>8. d.base + d.len = L - Used(r)
    <3>1. Levels(r)
      BY <1>1, <2>4, <2>6, Moment
    <3>2. PICK x, y, z, w : /\ x = Last(s).base /\ y = Last(s).len
                            /\ z = Last(r).base /\ w = Last(r).len
      OBVIOUS
    <3>3. /\ u = x + y /\ Used(r) = z + w /\ x \in Nat /\ y \in Nat
          /\ w \in Nat
      BY <1>3, <1>5, <3>1, <3>2, LastOfLevels
    <3>4. z = x /\ w + n = y
      BY <1>6, <2>5, <3>2 DEF OnlyData
    <3>5. /\ L \in Nat /\ n \in Nat /\ x \in Nat /\ y \in Nat /\ w \in Nat
          /\ u = x + y /\ z = x /\ w + n = y
      BY ONLY <1>4, <1>6, <3>3, <3>4, Zenon
    <3>6. (L - u) + n = L - (z + w)
      BY ONLY <3>5
    <3> QED BY <1>9, <3>3, <3>6
  <2>9. Value(i) = SubSeq(buf, d.base + 1, d.base + d.len)
    <3>1. Value(i) = SubSeq(buf, L - u + 1, L - Used(r))
      BY <1>1, <1>2, <1>5, <2>3, <2>4, ValueIs
    <3> QED BY <1>9, <2>8, <3>1
  <2>10. read' = g[N - f]
    <3>1. Told(i) = <<Item("value", c.tag, Value(i))>>
      BY <1>1, <1>2, <1>12 DEF Told
    <3>2. g[N - (i - 1)] = Append(g[N - i], Item("value", c.tag, Value(i)))
      BY <1>1, <1>2, <1>3, <3>1, DocStep
    <3>3. g[N - f] = g[N - (i - 1)]
      BY <1>1, <1>4, <2>3, DocRun DEF Whole
    <3> QED BY <1>2, <2>1, <2>9, <3>2, <3>3
  <2>11. At(h, g, f)'
    BY <1>0, <1>1, <1>2, <2>1, <2>4, <2>5, <2>6, <2>7, <2>10 DEF At
  <2> QED BY <2>11
<1> QED BY <1>11, <1>12

LEMMA EndReads ==
  ASSUME NEW h, Whole(h), NEW g, NEW D, Doc(g, D), NEW i, ShortForms,
         At(h, g, i), ReadEnd
  PROVE  \E j : At(h, g, j)'
<1>0. reader = "next" /\ Cur.offset >= Cur.len /\ calls' = calls /\ buf' = buf
  BY DEF ReadEnd, encVars
<1>1. PICK N, L, t : N = Len(calls) /\ L = Len(buf) /\ t = h[i]
  OBVIOUS
<1>2. /\ i \in 0..N /\ read = g[N - i] /\ dec \in Seq(Decoder)
      /\ OpAt(calls, i) \in {"start", "hdr"} /\ AtNext(dec, t, L)
      /\ N \in Nat /\ calls \in Seq(Call)
  BY <1>0, <1>1 DEF At, Whole, Past
<1>3. Levels(t) /\ L \in Nat /\ L \in Int
  BY <1>1, <1>2, Moment
<1>4. /\ Len(dec) >= 1 /\ Cur = Last(dec) /\ Len(dec) = Len(t)
      /\ Cur.len - Cur.offset = Last(t).len
  BY <1>2, <1>3, TopStands DEF Cur, Last, AtNext
<1>5. Last(t).len = 0
  <2>1. Cur.offset \in Int /\ Cur.len \in Int
    BY <1>2, <1>4, LastDecoder
  <2>2. Last(t).len \in Nat
    BY <1>3, LastOfLevels
  <2> QED BY <1>0, <1>4, <2>1, <2>2
<1>6. OpAt(calls, i) = "start"
  <2> SUFFICES ASSUME OpAt(calls, i) = "hdr" PROVE FALSE
    BY <1>2
  <2>1. i \in 1..N /\ calls[i].op = "hdr"
    BY <1>2 DEF OpAt
  <2>2. PICK s, c, k : s = h[i - 1] /\ c = calls[i] /\ k = Takes(c, s)
    OBVIOUS
  <2>3. c \in Call /\ Levels(s) /\ t = Moved(c, s) /\ c.op = "hdr"
    BY <1>1, <2>1, <2>2, CallAt DEF Whole, Past
  <2>4. k >= 1
    <3>1. PICK m : m = Len(TagField(calls[i].tag))
      OBVIOUS
    <3>2. k = m + 1 /\ m \in 1..3
      BY <1>1, <2>1, <2>2, <3>1, HdrTakes
    <3> QED BY ONLY <3>2
  <2>5. Len(t) = Len(s) /\ t[Len(s)].len = s[Len(s)].len + k
    BY <2>2, <2>3, MovedTop
  <2>6. s[Len(s)].len \in Nat /\ k \in Nat
    BY <2>2, <2>3, LastOfLevels, LastLevel, TakesNat
  <2> QED BY <1>5, <2>4, <2>5, <2>6 DEF Last
<1>7. CASE Len(dec) = 1
  <2>1. i = 0
    BY <1>1, <1>2, <1>4, <1>6, <1>7, JustBegun DEF Whole
  <2>2. reader' = "done" /\ dec' = dec /\ read' = read
    BY <1>7 DEF ReadEnd
  <2>3. At(h, g, i)'
    BY <1>0, <1>1, <1>2, <2>1, <2>2 DEF At
  <2> QED BY <2>3
<1>8. CASE Len(dec) > 1
  <2>1. /\ dec' = SubSeq(dec, 1, Len(dec) - 1) /\ read' = Append(read, Close)
        /\ reader' = "next"
    <3>1. Len(dec) # 1
      <4>1. PICK l : l = Len(dec)
        OBVIOUS
      <4>2. l \in Nat
        BY <1>2, <4>1
      <4>3. l > 1
        BY <1>8, <4>1, Zenon
      <4>4. l # 1
        BY ONLY <4>2, <4>3
      <4> QED BY ONLY <4>1, <4>4, Zenon
    <3>2. /\ dec' = SubSeq(dec, 1, Len(dec) - 1)
          /\ read' = Append(read, Close) /\ UNCHANGED reader
      BY <3>1, Zenon DEF ReadEnd
    <3> QED BY <1>0, <3>2, Zenon
  <2>2. i # 0
    <3> SUFFICES ASSUME i = 0 PROVE FALSE
      OBVIOUS
    <3>1. PICK l : l = [len |-> 0, val |-> 0, base |-> 0]
      OBVIOUS
    <3>2. t = <<l>>
      BY <1>1, <3>1 DEF Whole, Past, History
    <3>3. Len(<<l>>) = 1
      OBVIOUS
    <3> QED BY <1>4, <1>8, <3>2, <3>3
  <2>3. i \in 1..N /\ calls[i].op = "start" /\ i - 1 \in 0..N
    BY <1>2, <1>6, <2>2 DEF OpAt
  <2>4. PICK s, c : s = h[i - 1] /\ c = calls[i]
    OBVIOUS
  <2>5. /\ c \in Call /\ Levels(s) /\ t = Moved(c, s) /\ c.op = "start"
        /\ Last(s).val = 0 /\ OpAt(calls, i - 1) # "end"
    BY <1>1, <2>3, <2>4, CallAt DEF Whole, Past, Legit, Follows
  <2>6. PICK f : Run(h, f, i - 1)
    BY <1>1, <2>3, <2>5, RunBack DEF Whole
  <2>7. PICK r : r = h[f]
    OBVIOUS
  <2>8. /\ OnlyData(r, s) /\ OpAt(calls, f) \in {"start", "hdr"}
        /\ f \in 0..(i - 1)
    BY <2>4, <2>6, <2>7, RunIs
  <2>9. f \in 0..N
    <3>1. PICK k : k = i - 1
      OBVIOUS
    <3>2. k \in 0..N /\ f \in 0..k /\ N \in Nat
      BY <1>2, <2>3, <2>8, <3>1
    <3> QED BY ONLY <3>2
  <2>10. dec' \in Seq(Decoder) /\ AtNext(dec', r, L)
    BY <1>2, <1>3, <2>1, <2>5, <2>8, Left
  <2>11. read' = g[N - f]
    <3>1. Told(i) = <<Close>>
      BY <2>3 DEF Told
    <3>2. g[N - (i - 1)] = Append(g[N - i], Close)
      BY <1>1, <1>2, <2>3, <3>1, DocStep
    <3>3. g[N - f] = g[N - (i - 1)]
      BY <1>1, <2>3, <2>6, DocRun DEF Whole
    <3> QED BY <1>2, <2>1, <3>2, <3>3
  <2>12. At(h, g, f)'
    BY <1>0, <1>1, <2>1, <2>7, <2>8, <2>9, <2>10, <2>11 DEF At
  <2> QED BY <2>12
<1>9. Len(dec) \in Nat
  BY <1>2
<1> QED BY <1>4, <1>7, <1>8, <1>9

LEMMA ReaderInit == Init => ReaderInv
<1> SUFFICES ASSUME Init PROVE ReaderInv
  OBVIOUS
<1>1. EncoderStart /\ reader = "off" /\ read = << >>
  BY DEF Init
<1>2. EncoderInv
  BY <1>1, InitHolds
<1>3. ~Offered
  BY <1>1 DEF EncoderStart, Offered
<1> QED BY <1>1, <1>2, <1>3 DEF ReaderInv

\* The encoder goes on as if there were no reader, and is at its end when
\* there is one.
LEMMA EncoderKeepsReader ==
  ASSUME ReaderInv, EncoderNext, UNCHANGED readVars
  PROVE  ReaderInv'
<1>1. /\ EncoderInv /\ (Offered => LastOp = "hdr")
      /\ (reader = "off" => read = << >>)
      /\ (reader # "off" => pass = "encoded")
  BY DEF ReaderInv
<1>2. reader' = reader /\ read' = read
  BY DEF readVars
<1>3. EncoderInv'
  BY <1>1, StepKeeps
<1>4. pass \in {"dry", "real"} /\ (Offered' => LastOp' = "hdr")
  <2>1. ASSUME NEW c \in Calls, CallDry(c) \/ CallRefused(c)
        PROVE  pass = "dry" /\ ~Offered'
    BY <2>1 DEF CallDry, CallRefused, Dry, Offered
  <2>2. ASSUME NEW size, StartReal(size)
        PROVE  pass = "dry" /\ LastOp' = "hdr"
    BY <2>2 DEF StartReal, Dry, LastOp
  <2>3. ASSUME CallReal \/ CallTooShort \/ EndReal
        PROVE  pass = "real" /\ LastOp' = "hdr"
    <3>1. pass = "real" /\ calls' = calls
      BY <2>3 DEF CallReal, CallTooShort, EndReal
    <3>2. LastOp = "hdr"
      BY <1>1, <3>1 DEF Offered
    <3> QED BY <3>1, <3>2 DEF LastOp
  <2> QED BY <2>1, <2>2, <2>3 DEF EncoderNext
<1>5. reader = "off"
  BY <1>1, <1>4
<1> QED BY <1>1, <1>2, <1>3, <1>4, <1>5 DEF ReaderInv

\* What a step of the reader has to show.
LEMMA ReaderGoesOn ==
  ASSUME ReaderInv, UNCHANGED encVars, pass = "encoded", reader' # "off",
         NEW h, NEW g, NEW D,
         ShortForms => (Whole(h) /\ Doc(g, D) /\ \E i : At(h, g, i)')
  PROVE  ReaderInv'
<1>1. /\ pass' = pass /\ enc' = enc /\ buf' = buf /\ calls' = calls
      /\ next' = next /\ need' = need
  BY DEF encVars
<1>2. EncoderInv /\ (Offered => LastOp = "hdr")
  BY DEF ReaderInv
<1>3. EncoderInv'
  BY <1>2, StepKeeps
<1>4. Offered' => LastOp' = "hdr"
  BY <1>1, <1>2 DEF Offered, LastOp
<1>5. ShortForms' => ShortForms
  BY <1>1 DEF ShortForms
<1>6. ASSUME ShortForms'
      PROVE  \E k, f, E : Whole(k)' /\ Doc(f, E)' /\ \E i : At(k, f, i)'
  <2>1. Whole(h) /\ Doc(g, D) /\ \E i : At(h, g, i)'
    BY <1>5, <1>6
  <2>2. Whole(h)' /\ Doc(g, D)'
    BY <1>1, <2>1, SameWhole, SameDoc
  <2> QED BY <2>1, <2>2
<1> QED BY <1>1, <1>3, <1>4, <1>6 DEF ReaderInv

LEMMA ReaderStepKeeps ==
  ASSUME ReaderInv,
         ReadStart \/ ReadEnd \/ ReadItem \/ \E b \in Beyond : ReadNext(b)
  PROVE  ReaderInv'
<1>1. /\ EncoderInv /\ (Offered => LastOp = "hdr")
      /\ (reader = "off" => read = << >>)
      /\ (reader # "off" => pass = "encoded")
  BY DEF ReaderInv
<1>2. UNCHANGED encVars
  BY DEF ReadStart, ReadEnd, ReadItem, ReadNext
<1>3. pass = "encoded" /\ reader' # "off"
  <2>1. ASSUME ReadStart PROVE pass = "encoded" /\ reader' # "off"
    BY <2>1 DEF ReadStart
  <2>2. ASSUME ReadEnd PROVE pass = "encoded" /\ reader' # "off"
    BY <1>1, <2>2 DEF ReadEnd
  <2>3. ASSUME ReadItem PROVE pass = "encoded" /\ reader' # "off"
    BY <1>1, <2>3 DEF ReadItem
  <2>4. ASSUME NEW b, ReadNext(b) PROVE pass = "encoded" /\ reader' # "off"
    BY <1>1, <2>4 DEF ReadNext
  <2> QED BY <2>1, <2>2, <2>3, <2>4
<1>4. CASE ReadStart
  <2>1. LastOp = "hdr" /\ read = << >> /\ calls \in Seq(Call)
    BY <1>1, <1>3, <1>4 DEF Offered, ReadStart, EncoderInv
  <2>2. PICK h : Whole(h)
    BY <1>1, <1>3, WholeExists
  <2>3. PICK g, D : Doc(g, D)
    BY <2>1, DocExists
  <2>4. At(h, g, Len(calls))'
    BY <1>1, <1>4, <2>1, <2>2, <2>3, ReadStarts
  <2>5. PICK n : n = Len(calls)
    OBVIOUS
  <2>6. At(h, g, n)'
    <3>1. calls' = calls
      BY <1>2 DEF encVars
    <3> QED BY <2>4, <2>5, <3>1
  <2> QED BY <1>2, <1>3, <2>2, <2>3, <2>6, ReaderGoesOn
<1>5. CASE ~ReadStart
  <2>1. reader # "off"
    BY <1>5 DEF ReadEnd, ReadItem, ReadNext
  <2>2. PICK h, g, D :
          ShortForms => (Whole(h) /\ Doc(g, D) /\ \E i : At(h, g, i))
    <3>1. CASE ShortForms
      <4>1. \E h, g, D : Whole(h) /\ Doc(g, D) /\ \E i : At(h, g, i)
        BY <2>1, <3>1 DEF ReaderInv
      <4> QED BY <4>1
    <3> QED BY <3>1
  <2>3. ASSUME ShortForms
        PROVE  Whole(h) /\ Doc(g, D) /\ \E j : At(h, g, j)'
    <3>1. PICK i : Whole(h) /\ Doc(g, D) /\ At(h, g, i)
      BY <2>2, <2>3
    <3>2. CASE ReadEnd
      BY <2>3, <3>1, <3>2, EndReads
    <3>3. CASE ReadItem
      BY <2>3, <3>1, <3>3, ItemReads
    <3>4. CASE \E b \in Beyond : ReadNext(b)
      BY <2>3, <3>1, <3>4, NextReads
    <3> QED BY <1>5, <3>2, <3>3, <3>4
  <2> QED BY <1>2, <1>3, <2>3, ReaderGoesOn
<1> QED BY <1>4, <1>5

LEMMA ReaderKeeps == ReaderInv /\ [Next]_vars => ReaderInv'
<1> SUFFICES ASSUME ReaderInv, [Next]_vars PROVE ReaderInv'
  OBVIOUS
<1>1. CASE EncoderNext /\ UNCHANGED readVars
  BY <1>1, EncoderKeepsReader
<1>2. CASE ReadStart \/ ReadEnd \/ ReadItem \/ \E b \in Beyond : ReadNext(b)
  BY <1>2, ReaderStepKeeps
<1>3. CASE UNCHANGED vars
  <2>1. UNCHANGED encVars /\ reader' = reader /\ dec' = dec /\ read' = read
    BY <1>3 DEF vars, readVars
  <2>2. /\ pass' = pass /\ enc' = enc /\ buf' = buf /\ calls' = calls
        /\ next' = next /\ need' = need
    BY <2>1 DEF encVars
  <2>3. CASE reader = "off"
    <3>1. EncoderInv'
      BY <2>1, StepKeeps DEF ReaderInv
    <3>2. Offered' => LastOp' = "hdr"
      BY <2>2 DEF ReaderInv, Offered, LastOp
    <3> QED BY <2>1, <2>3, <3>1, <3>2 DEF ReaderInv
  <2>4. CASE reader # "off"
    <3>1. PICK h, g, D :
            ShortForms => (Whole(h) /\ Doc(g, D) /\ \E i : At(h, g, i))
      <4>1. CASE ShortForms
        <5>1. \E h, g, D : Whole(h) /\ Doc(g, D) /\ \E i : At(h, g, i)
          BY <2>4, <4>1 DEF ReaderInv
        <5> QED BY <5>1
      <4> QED BY <4>1
    <3>2. ASSUME NEW i, At(h, g, i) PROVE At(h, g, i)'
      BY <2>1, <2>2, <3>2 DEF At
    <3>3. ShortForms => (Whole(h) /\ Doc(g, D) /\ \E i : At(h, g, i)')
      BY <3>1, <3>2
    <3>4. pass = "encoded" /\ reader' # "off"
      BY <2>1, <2>4 DEF ReaderInv
    <3> QED BY <2>1, <3>3, <3>4, ReaderGoesOn
  <2> QED BY <2>3, <2>4
<1> QED BY <1>1, <1>2, <1>3 DEF Next

LEMMA ReaderGives == ReaderInv => DecodesBack
<1> SUFFICES ASSUME ReaderInv, reader # "off", ShortForms PROVE AsWritten
  BY DEF DecodesBack
<1>1. PICK h, g, D, i : Whole(h) /\ Doc(g, D) /\ At(h, g, i)
  BY DEF ReaderInv
<1>2. /\ calls \in Seq(Call) /\ Len(calls) \in Nat /\ i \in 0..Len(calls)
      /\ read = g[Len(calls) - i]
  BY <1>1 DEF Whole, Past, At
<1>3. reader \in {"next", "item", "done"} /\ (reader = "done" => i = 0)
  BY <1>1 DEF At
<1>4. IsPrefix(read, Document)
  <2>1. PICK m : m = Len(calls) - i
    OBVIOUS
  <2>2. m \in 0..Len(calls)
    BY <1>2, <2>1
  <2> QED BY <1>1, <1>2, <2>1, <2>2, DocPrefix
<1>5. reader = "done" => read = Document
  <2>1. Len(calls) - 0 = Len(calls)
    BY <1>2
  <2> QED BY <1>1, <1>2, <1>3, <2>1 DEF Doc
<1> QED BY <1>3, <1>4, <1>5 DEF AsWritten

LEMMA ReaderInductive == Spec => []ReaderInv
  BY ReaderInit, ReaderKeeps, PTL DEF Spec

(***************************************************************************)
(* Every document of lengths and tag numbers in their short forms that     *)
(* the encoder of dato.c writes, however deep and however long, its        *)
(* decoder reads as what was written: swicc_dato_bertlv_dec_next and       *)
(* dec_cur find every object, in the order and nesting of the calls, with  *)
(* its tag and the bytes of its value, and neither fail nor stray.         *)
(***************************************************************************)
THEOREM ShortFormsDecodeBack == Spec => []DecodesBack
<1>1. ReaderInv => DecodesBack
  BY ReaderGives
<1> QED BY <1>1, ReaderInductive, PTL
=============================================================================
