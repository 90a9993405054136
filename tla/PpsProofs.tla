----------------------------- MODULE PpsProofs -----------------------------
(***************************************************************************)
(* The parameter exchange, for every request, with every combination of    *)
(* bytes and every parameter, and every disturbance of a byte.             *)
(***************************************************************************)
EXTENDS Pps, WellFoundedInduction, TLAPS

-----------------------------------------------------------------------------
(* Induction over the numbers of a set.                                    *)

LEMMA LeastOf ==
  ASSUME NEW T \in SUBSET Nat, T # {}
  PROVE  \E x \in T : \A y \in T : x <= y
<1>1. \E x \in T : \A y \in T : ~ (<<y, x>> \in OpToRel(<, Nat))
  BY NatLessThanWellFounded, WFMin, Zenon
<1>2. \A x, y \in Nat : y < x => <<y, x>> \in OpToRel(<, Nat)
  BY DEF OpToRel
<1>3. \A x, y \in Nat : x <= y \/ y < x
  OBVIOUS
<1> QED BY <1>1, <1>2, <1>3

LEMMA InductionOver ==
  ASSUME NEW S, 0 \in S, \A n \in Nat : n \in S => n + 1 \in S
  PROVE  \A n \in Nat : n \in S
<1> SUFFICES ASSUME {n \in Nat : n \notin S} # {} PROVE FALSE
  OBVIOUS
<1>1. PICK x \in {n \in Nat : n \notin S} :
        \A y \in {n \in Nat : n \notin S} : x <= y
  BY LeastOf
<1>2. x - 1 \in Nat /\ x - 1 \in S /\ x = (x - 1) + 1
  BY <1>1
<1> QED BY <1>1, <1>2

-----------------------------------------------------------------------------
(* Bits.                                                                   *)

\* The bits of a byte, and the byte of the bits.
SumOf(x1, x2, x3, x4, x5, x6, x7, x8) ==
  x1 * 1 + x2 * 2 + x3 * 4 + x4 * 8 + x5 * 16 + x6 * 32 + x7 * 64 + x8 * 128

LEMMA BitIs ==
  ASSUME NEW a
  PROVE  /\ Bit(a, 1) = (a \div 1) % 2 /\ Bit(a, 2) = (a \div 2) % 2
         /\ Bit(a, 3) = (a \div 4) % 2 /\ Bit(a, 4) = (a \div 8) % 2
         /\ Bit(a, 5) = (a \div 16) % 2 /\ Bit(a, 6) = (a \div 32) % 2
         /\ Bit(a, 7) = (a \div 64) % 2 /\ Bit(a, 8) = (a \div 128) % 2
  BY DEF Bit, Weight

LEMMA BitType ==
  ASSUME NEW a \in Byte, NEW b \in 1..8
  PROVE  Bit(a, b) \in {0, 1}
<1>1. b \in {1, 2, 3, 4, 5, 6, 7, 8}
  OBVIOUS
<1> QED BY <1>1, BitIs DEF Byte

\* Halving a byte over and over.
LEMMA Half ==
  ASSUME NEW n \in Nat
  PROVE  n \div 2 \in Nat /\ n = 2 * (n \div 2) + (n % 2)
  OBVIOUS

LEMMA HalfOfQuotient ==
  ASSUME NEW a \in Nat
  PROVE  /\ (a \div 2) \div 2 = a \div 4 /\ (a \div 4) \div 2 = a \div 8
         /\ (a \div 8) \div 2 = a \div 16 /\ (a \div 16) \div 2 = a \div 32
         /\ (a \div 32) \div 2 = a \div 64 /\ (a \div 64) \div 2 = a \div 128
<1>1. (a \div 2) \div 2 = a \div 4
  OBVIOUS
<1>2. (a \div 4) \div 2 = a \div 8
  OBVIOUS
<1>3. (a \div 8) \div 2 = a \div 16
  OBVIOUS
<1>4. (a \div 16) \div 2 = a \div 32
  OBVIOUS
<1>5. (a \div 32) \div 2 = a \div 64
  OBVIOUS
<1>6. (a \div 64) \div 2 = a \div 128
  OBVIOUS
<1> QED BY <1>1, <1>2, <1>3, <1>4, <1>5, <1>6

LEMMA ByteOfBits ==
  ASSUME NEW a \in Byte
  PROVE  a = SumOf(Bit(a, 1), Bit(a, 2), Bit(a, 3), Bit(a, 4),
                   Bit(a, 5), Bit(a, 6), Bit(a, 7), Bit(a, 8))
<1>1. a \in Nat
  BY DEF Byte
<1>2. /\ a \div 2 \in Nat /\ a \div 4 \in Nat /\ a \div 8 \in Nat
      /\ a \div 16 \in Nat /\ a \div 32 \in Nat /\ a \div 64 \in Nat
      /\ a \div 128 \in Nat
  BY <1>1
<1>3. /\ Bit(a, 1) = a % 2 /\ Bit(a, 2) = (a \div 2) % 2
      /\ Bit(a, 3) = (a \div 4) % 2 /\ Bit(a, 4) = (a \div 8) % 2
      /\ Bit(a, 5) = (a \div 16) % 2 /\ Bit(a, 6) = (a \div 32) % 2
      /\ Bit(a, 7) = (a \div 64) % 2
  <2>1. a \div 1 = a
    BY <1>1
  <2> QED BY <2>1, BitIs
<1>4. a \div 128 = Bit(a, 8)
  <2>1. (a \div 128) % 2 = a \div 128
    BY DEF Byte
  <2> QED BY <2>1, BitIs
<1>5. \A b \in 1..8 : Bit(a, b) \in Int
  BY BitType
<1> DEFINE x1 == Bit(a, 1)  x2 == Bit(a, 2)  x3 == Bit(a, 3)  x4 == Bit(a, 4)
           x5 == Bit(a, 5)  x6 == Bit(a, 6)  x7 == Bit(a, 7)  x8 == Bit(a, 8)
           h1 == a \div 2   h2 == a \div 4   h3 == a \div 8   h4 == a \div 16
           h5 == a \div 32  h6 == a \div 64
<1>6. a = 2 * h1 + x1
  BY <1>1, <1>3, Half
<1>7. h1 = 2 * h2 + x2
  BY <1>1, <1>2, <1>3, Half, HalfOfQuotient
<1>8. h2 = 2 * h3 + x3
  BY <1>1, <1>2, <1>3, Half, HalfOfQuotient
<1>9. h3 = 2 * h4 + x4
  BY <1>1, <1>2, <1>3, Half, HalfOfQuotient
<1>10. h4 = 2 * h5 + x5
  BY <1>1, <1>2, <1>3, Half, HalfOfQuotient
<1>11. h5 = 2 * h6 + x6
  BY <1>1, <1>2, <1>3, Half, HalfOfQuotient
<1>12. h6 = 2 * x8 + x7
  BY <1>1, <1>2, <1>3, <1>4, Half, HalfOfQuotient
<1>13. /\ x1 \in Int /\ x2 \in Int /\ x3 \in Int /\ x4 \in Int
       /\ x5 \in Int /\ x6 \in Int /\ x7 \in Int /\ x8 \in Int
       /\ h1 \in Int /\ h2 \in Int /\ h3 \in Int /\ h4 \in Int
       /\ h5 \in Int /\ h6 \in Int /\ a \in Int
  BY <1>1, <1>2, <1>5
<1> HIDE DEF x1, x2, x3, x4, x5, x6, x7, x8, h1, h2, h3, h4, h5, h6
<1>14. a = SumOf(x1, x2, x3, x4, x5, x6, x7, x8)
  BY <1>6, <1>7, <1>8, <1>9, <1>10, <1>11, <1>12, <1>13 DEF SumOf
<1> QED BY <1>14 DEF x1, x2, x3, x4, x5, x6, x7, x8

\* What is left of a sum of bits after dropping the lower ones.
LEMMA DropBits ==
  ASSUME NEW q \in Nat, NEW x \in {0, 1}
  PROVE  (2 * q + x) % 2 = x
  OBVIOUS

LEMMA BitsOfSum ==
  ASSUME NEW x1 \in {0, 1}, NEW x2 \in {0, 1}, NEW x3 \in {0, 1}, NEW x4 \in {0, 1},
         NEW x5 \in {0, 1}, NEW x6 \in {0, 1}, NEW x7 \in {0, 1}, NEW x8 \in {0, 1},
         NEW a, a = SumOf(x1, x2, x3, x4, x5, x6, x7, x8)
  PROVE  /\ a \in Byte
         /\ Bit(a, 1) = x1 /\ Bit(a, 2) = x2 /\ Bit(a, 3) = x3 /\ Bit(a, 4) = x4
         /\ Bit(a, 5) = x5 /\ Bit(a, 6) = x6 /\ Bit(a, 7) = x7 /\ Bit(a, 8) = x8
<1>1. a = 1 * x1 + 2 * x2 + 4 * x3 + 8 * x4 + 16 * x5 + 32 * x6 + 64 * x7 + 128 * x8
  BY DEF SumOf
<1>2. a \in Byte
  BY <1>1 DEF Byte
<1>3. a \div 2 = x2 + 2 * x3 + 4 * x4 + 8 * x5 + 16 * x6 + 32 * x7 + 64 * x8
  BY <1>1
<1>4. a \div 4 = x3 + 2 * x4 + 4 * x5 + 8 * x6 + 16 * x7 + 32 * x8
  BY <1>1
<1>5. a \div 8 = x4 + 2 * x5 + 4 * x6 + 8 * x7 + 16 * x8
  BY <1>1
<1>6. a \div 16 = x5 + 2 * x6 + 4 * x7 + 8 * x8
  BY <1>1
<1>7. a \div 32 = x6 + 2 * x7 + 4 * x8
  BY <1>1
<1>8. a \div 64 = x7 + 2 * x8
  BY <1>1
<1>9. a \div 128 = x8
  BY <1>1
<1> USE DropBits
<1>11. Bit(a, 1) = x1
  <2>1. a \in Nat /\ a = 2 * (x2 + 2 * x3 + 4 * x4 + 8 * x5 + 16 * x6 + 32 * x7 + 64 * x8) + x1
    BY <1>1
  <2> QED BY <1>1, <2>1, BitIs
<1>12. Bit(a, 2) = x2
  BY <1>3, BitIs
<1>13. Bit(a, 3) = x3
  BY <1>4, BitIs
<1>14. Bit(a, 4) = x4
  BY <1>5, BitIs
<1>15. Bit(a, 5) = x5
  BY <1>6, BitIs
<1>16. Bit(a, 6) = x6
  BY <1>7, BitIs
<1>17. Bit(a, 7) = x7
  BY <1>8, BitIs
<1>18. Bit(a, 8) = x8
  BY <1>9, BitIs
<1> QED BY <1>2, <1>11, <1>12, <1>13, <1>14, <1>15, <1>16, <1>17, <1>18

\* Bytes are equal if their bits are.
LEMMA SameBits ==
  ASSUME NEW a \in Byte, NEW c \in Byte, \A b \in 1..8 : Bit(a, b) = Bit(c, b)
  PROVE  a = c
<1>1. /\ Bit(a, 1) = Bit(c, 1) /\ Bit(a, 2) = Bit(c, 2) /\ Bit(a, 3) = Bit(c, 3)
      /\ Bit(a, 4) = Bit(c, 4) /\ Bit(a, 5) = Bit(c, 5) /\ Bit(a, 6) = Bit(c, 6)
      /\ Bit(a, 7) = Bit(c, 7) /\ Bit(a, 8) = Bit(c, 8)
  OBVIOUS
<1>2. a = SumOf(Bit(a, 1), Bit(a, 2), Bit(a, 3), Bit(a, 4),
                Bit(a, 5), Bit(a, 6), Bit(a, 7), Bit(a, 8))
  BY ByteOfBits
<1>3. c = SumOf(Bit(c, 1), Bit(c, 2), Bit(c, 3), Bit(c, 4),
                Bit(c, 5), Bit(c, 6), Bit(c, 7), Bit(c, 8))
  BY ByteOfBits
<1> QED BY <1>1, <1>2, <1>3

LEMMA ZeroBits == 0 \in Byte /\ \A b \in 1..8 : Bit(0, b) = 0
<1>1. 0 \in Byte
  BY DEF Byte
<1>2. \A b \in 1..8 : b \in {1, 2, 3, 4, 5, 6, 7, 8}
  OBVIOUS
<1> QED BY <1>1, <1>2, BitIs

\* The bits of an XOR.
LEMMA XorBits ==
  ASSUME NEW a \in Byte, NEW c \in Byte
  PROVE  /\ XorByte(a, c) \in Byte
         /\ \A b \in 1..8 : Bit(XorByte(a, c), b) = (Bit(a, b) + Bit(c, b)) % 2
<1> DEFINE x(b) == (Bit(a, b) + Bit(c, b)) % 2
<1>1. \A b \in 1..8 : x(b) \in {0, 1}
  <2> TAKE b \in 1..8
  <2>1. Bit(a, b) \in {0, 1} /\ Bit(c, b) \in {0, 1}
    BY BitType
  <2> QED BY <2>1
<1>2. XorByte(a, c) = SumOf(x(1), x(2), x(3), x(4), x(5), x(6), x(7), x(8))
  BY DEF XorByte, SumOf, Weight
<1> HIDE DEF x
<1>3. /\ x(1) \in {0, 1} /\ x(2) \in {0, 1} /\ x(3) \in {0, 1} /\ x(4) \in {0, 1}
      /\ x(5) \in {0, 1} /\ x(6) \in {0, 1} /\ x(7) \in {0, 1} /\ x(8) \in {0, 1}
  BY <1>1
<1>4. /\ XorByte(a, c) \in Byte
      /\ Bit(XorByte(a, c), 1) = x(1) /\ Bit(XorByte(a, c), 2) = x(2)
      /\ Bit(XorByte(a, c), 3) = x(3) /\ Bit(XorByte(a, c), 4) = x(4)
      /\ Bit(XorByte(a, c), 5) = x(5) /\ Bit(XorByte(a, c), 6) = x(6)
      /\ Bit(XorByte(a, c), 7) = x(7) /\ Bit(XorByte(a, c), 8) = x(8)
  BY <1>2, <1>3, BitsOfSum
<1>5. \A b \in 1..8 : b \in {1, 2, 3, 4, 5, 6, 7, 8}
  OBVIOUS
<1>6. \A b \in 1..8 : Bit(XorByte(a, c), b) = x(b)
  BY <1>4, <1>5
<1> QED BY <1>4, <1>6 DEF x

\* XOR can be undone on either side, and is 0 for equal bytes only.
LEMMA XorCancels ==
  ASSUME NEW a \in Byte, NEW c \in Byte, NEW d \in Byte, XorByte(a, d) = XorByte(c, d)
  PROVE  a = c
<1>1. \A b \in 1..8 : Bit(a, b) = Bit(c, b)
  <2> TAKE b \in 1..8
  <2>1. /\ Bit(a, b) \in {0, 1} /\ Bit(c, b) \in {0, 1} /\ Bit(d, b) \in {0, 1}
    BY BitType
  <2>2. (Bit(a, b) + Bit(d, b)) % 2 = (Bit(c, b) + Bit(d, b)) % 2
    BY XorBits
  <2> QED BY <2>1, <2>2
<1> QED BY <1>1, SameBits

LEMMA XorCommutes ==
  ASSUME NEW a \in Byte, NEW c \in Byte
  PROVE  XorByte(a, c) = XorByte(c, a)
<1>1. \A b \in 1..8 : Bit(XorByte(a, c), b) = Bit(XorByte(c, a), b)
  <2> TAKE b \in 1..8
  <2>1. /\ Bit(a, b) \in {0, 1} /\ Bit(c, b) \in {0, 1}
    BY BitType
  <2>2. /\ Bit(XorByte(a, c), b) = (Bit(a, b) + Bit(c, b)) % 2
        /\ Bit(XorByte(c, a), b) = (Bit(c, b) + Bit(a, b)) % 2
    BY XorBits
  <2> QED BY <2>1, <2>2
<1> QED BY <1>1, XorBits, SameBits

LEMMA XorIsZero ==
  ASSUME NEW a \in Byte, NEW c \in Byte
  PROVE  XorByte(a, c) = 0 <=> a = c
<1>1. ASSUME XorByte(a, c) = 0 PROVE a = c
  <2>1. \A b \in 1..8 : Bit(a, b) = Bit(c, b)
    <3> TAKE b \in 1..8
    <3>1. /\ Bit(a, b) \in {0, 1} /\ Bit(c, b) \in {0, 1}
      BY BitType
    <3>2. (Bit(a, b) + Bit(c, b)) % 2 = 0
      BY <1>1, XorBits, ZeroBits
    <3> QED BY <3>1, <3>2
  <2> QED BY <2>1, SameBits
<1>2. XorByte(a, a) = 0
  <2>1. \A b \in 1..8 : Bit(XorByte(a, a), b) = Bit(0, b)
    <3> TAKE b \in 1..8
    <3>1. Bit(a, b) \in {0, 1}
      BY BitType
    <3>2. Bit(XorByte(a, a), b) = (Bit(a, b) + Bit(a, b)) % 2
      BY XorBits
    <3> QED BY <3>1, <3>2, ZeroBits
  <2> QED BY <2>1, XorBits, ZeroBits, SameBits
<1> QED BY <1>1, <1>2

LEMMA XorChanges ==
  ASSUME NEW a \in Byte, NEW m \in Byte, m # 0
  PROVE  XorByte(a, m) # a
<1> SUFFICES ASSUME XorByte(a, m) = a PROVE m = 0
  OBVIOUS
<1>1. \A b \in 1..8 : Bit(m, b) = Bit(0, b)
  <2> TAKE b \in 1..8
  <2>1. /\ Bit(a, b) \in {0, 1} /\ Bit(m, b) \in {0, 1}
    BY BitType
  <2>2. Bit(a, b) = (Bit(a, b) + Bit(m, b)) % 2
    BY XorBits
  <2> QED BY <2>1, <2>2, ZeroBits
<1> QED BY <1>1, ZeroBits, SameBits

-----------------------------------------------------------------------------
(* The check byte.                                                         *)

TckStep(g, buf, n) == IF n = 0 THEN 0 ELSE XorByte(g[n - 1], buf[n])
IsTck(g, buf, m)   == g = [n \in 0..m |-> TckStep(g, buf, n)]

\* The recursion of swicc_ck has a solution.
LEMMA TckExists ==
  ASSUME NEW buf
  PROVE  \A m \in Nat : \E g : IsTck(g, buf, m)
<1> DEFINE S == {m \in Nat : \E g : IsTck(g, buf, m)}
<1>1. 0 \in S
  <2> DEFINE g == [n \in 0..0 |-> 0]
  <2>1. IsTck(g, buf, 0)
    BY DEF IsTck, TckStep
  <2> QED BY <2>1
<1>2. ASSUME NEW m \in Nat, m \in S PROVE m + 1 \in S
  <2>1. PICK g : IsTck(g, buf, m)
    BY <1>2
  <2> DEFINE h == [n \in 0..(m + 1) |-> TckStep(g, buf, n)]
  <2>2. \A n \in 0..m : h[n] = g[n]
    <3>1. \A n \in 0..m : g[n] = TckStep(g, buf, n)
      BY <2>1 DEF IsTck
    <3> QED BY <3>1
  <2>3. \A n \in 0..(m + 1) : TckStep(g, buf, n) = TckStep(h, buf, n)
    <3> HIDE DEF h
    <3> TAKE n \in 0..(m + 1)
    <3>1. n # 0 => n - 1 \in 0..m
      OBVIOUS
    <3>2. n # 0 => h[n - 1] = g[n - 1]
      BY <2>2, <3>1
    <3> QED BY <3>2 DEF TckStep
  <2> HIDE DEF h
  <2>4. IsTck(h, buf, m + 1)
    BY <2>3 DEF h, IsTck
  <2> QED BY <2>4
<1> HIDE DEF S
<1>3. \A m \in Nat : m \in S
  BY <1>1, <1>2, InductionOver
<1> QED BY <1>3 DEF S

LEMMA TckIs ==
  ASSUME NEW buf \in Seq(Byte), NEW n \in 0..Len(buf)
  PROVE  Tck(buf)[n] = IF n = 0 THEN 0 ELSE XorByte(Tck(buf)[n - 1], buf[n])
<1> DEFINE W == Tck(buf)
<1>1. Len(buf) \in Nat
  OBVIOUS
<1>2. PICK g : IsTck(g, buf, Len(buf))
  BY <1>1, TckExists
<1>3. W = CHOOSE tck : tck = [m \in 0..Len(buf) |-> IF m = 0 THEN 0 ELSE XorByte(tck[m - 1], buf[m])]
  BY DEF Tck
<1>4. W = [m \in 0..Len(buf) |-> IF m = 0 THEN 0 ELSE XorByte(W[m - 1], buf[m])]
  BY <1>2, <1>3 DEF IsTck, TckStep
<1> QED BY <1>4

LEMMA TckByte ==
  ASSUME NEW buf \in Seq(Byte), NEW n \in 0..Len(buf)
  PROVE  Tck(buf)[n] \in Byte
<1> DEFINE S == {k \in Nat : k <= Len(buf) => Tck(buf)[k] \in Byte}
<1>1. 0 \in S
  <2>1. 0 \in 0..Len(buf)
    OBVIOUS
  <2> QED BY <2>1, TckIs, ZeroBits
<1>2. ASSUME NEW k \in Nat, k \in S PROVE k + 1 \in S
  <2> SUFFICES ASSUME k + 1 <= Len(buf) PROVE Tck(buf)[k + 1] \in Byte
    OBVIOUS
  <2>1. Len(buf) \in Nat
    OBVIOUS
  <2>2. Tck(buf)[k] \in Byte
    BY <1>2, <2>1
  <2>3. k + 1 \in 0..Len(buf) /\ k + 1 # 0 /\ (k + 1) - 1 = k
    BY <2>1
  <2>4. buf[k + 1] \in Byte
    BY <2>3
  <2>5. Tck(buf)[k + 1] = XorByte(Tck(buf)[k], buf[k + 1])
    BY <2>3, TckIs
  <2> QED BY <2>2, <2>4, <2>5, XorBits
<1> HIDE DEF S
<1>3. n \in S
  BY <1>1, <1>2, InductionOver
<1> QED BY <1>3 DEF S

\* The check byte up to position n is of the bytes up to there.
LEMMA TckPrefix ==
  ASSUME NEW buf \in Seq(Byte), NEW other \in Seq(Byte), NEW n \in Nat,
         n <= Len(buf), n <= Len(other), \A i \in 1..n : buf[i] = other[i]
  PROVE  Tck(buf)[n] = Tck(other)[n]
<1> DEFINE S == {k \in Nat : k <= n => Tck(buf)[k] = Tck(other)[k]}
<1>1. 0 \in S
  <2>1. 0 \in 0..Len(buf) /\ 0 \in 0..Len(other)
    OBVIOUS
  <2> QED BY <2>1, TckIs
<1>2. ASSUME NEW k \in Nat, k \in S PROVE k + 1 \in S
  <2> SUFFICES ASSUME k + 1 <= n PROVE Tck(buf)[k + 1] = Tck(other)[k + 1]
    OBVIOUS
  <2>1. Tck(buf)[k] = Tck(other)[k]
    BY <1>2
  <2>2. Len(buf) \in Nat /\ Len(other) \in Nat
    OBVIOUS
  <2>3. /\ k + 1 \in 0..Len(buf) /\ k + 1 \in 0..Len(other)
        /\ k + 1 \in 1..n /\ k + 1 # 0 /\ (k + 1) - 1 = k
    BY <2>2
  <2>4. buf[k + 1] = other[k + 1]
    BY <2>3
  <2>5. /\ Tck(buf)[k + 1] = XorByte(Tck(buf)[k], buf[k + 1])
        /\ Tck(other)[k + 1] = XorByte(Tck(other)[k], other[k + 1])
    BY <2>3, TckIs
  <2> QED BY <2>1, <2>4, <2>5
<1> HIDE DEF S
<1>3. n \in S
  BY <1>1, <1>2, InductionOver
<1> QED BY <1>3 DEF S

\* A message and its check byte.
LEMMA CkOfAppend ==
  ASSUME NEW buf \in Seq(Byte), NEW ck \in Byte
  PROVE  Ck(buf) \in Byte /\ Ck(Append(buf, ck)) = XorByte(Ck(buf), ck)
<1> DEFINE all == Append(buf, ck)
           n   == Len(buf)
<1>1. /\ all \in Seq(Byte) /\ Len(all) = n + 1 /\ n \in Nat
      /\ all[n + 1] = ck /\ \A i \in 1..n : all[i] = buf[i]
  OBVIOUS
<1> HIDE DEF all
<1>2. n \in 0..n /\ n + 1 \in 0..(n + 1) /\ n + 1 # 0 /\ (n + 1) - 1 = n
  BY <1>1
<1>3. Tck(all)[n] = Tck(buf)[n]
  BY <1>1, TckPrefix
<1>4. Tck(all)[n + 1] = XorByte(Tck(all)[n], all[n + 1])
  BY <1>1, <1>2, TckIs
<1>5. Tck(buf)[n] \in Byte
  BY <1>2, TckByte
<1> QED BY <1>1, <1>3, <1>4, <1>5 DEF Ck, all

\* One other byte makes another check byte.
LEMMA CkTellsByte ==
  ASSUME NEW buf \in Seq(Byte), NEW other \in Seq(Byte), Len(other) = Len(buf),
         NEW i \in 1..Len(buf), buf[i] # other[i],
         \A j \in 1..Len(buf) : j # i => buf[j] = other[j]
  PROVE  Ck(buf) # Ck(other)
<1> DEFINE S == {k \in Nat : i <= k /\ k <= Len(buf) => Tck(buf)[k] # Tck(other)[k]}
<1>1. Len(buf) \in Nat /\ i \in Nat /\ i >= 1 /\ i <= Len(buf)
  OBVIOUS
<1>2. 0 \in S
  BY <1>1
<1>3. ASSUME NEW k \in Nat, k \in S PROVE k + 1 \in S
  <2> SUFFICES ASSUME i <= k + 1, k + 1 <= Len(buf)
               PROVE  Tck(buf)[k + 1] # Tck(other)[k + 1]
    OBVIOUS
  <2>1. /\ k \in 0..Len(buf) /\ k + 1 \in 0..Len(buf) /\ k + 1 \in 1..Len(buf)
        /\ k + 1 # 0 /\ (k + 1) - 1 = k
    BY <1>1
  <2>2. buf[k + 1] \in Byte /\ other[k + 1] \in Byte
    BY <2>1
  <2>3. Tck(buf)[k] \in Byte /\ Tck(other)[k] \in Byte
    BY <2>1, TckByte
  <2>4. /\ Tck(buf)[k + 1] = XorByte(Tck(buf)[k], buf[k + 1])
        /\ Tck(other)[k + 1] = XorByte(Tck(other)[k], other[k + 1])
    BY <2>1, TckIs
  <2>5. CASE k + 1 = i
    <3>1. Tck(buf)[k] = Tck(other)[k]
      <4>1. \A j \in 1..k : buf[j] = other[j]
        BY <1>1, <2>1, <2>5
      <4>2. k <= Len(buf) /\ k <= Len(other)
        BY <2>1
      <4> QED BY <4>1, <4>2, TckPrefix
    <3>2. /\ Tck(buf)[k + 1] = XorByte(buf[k + 1], Tck(buf)[k])
          /\ Tck(other)[k + 1] = XorByte(other[k + 1], Tck(buf)[k])
      BY <2>2, <2>3, <2>4, <3>1, XorCommutes
    <3>3. buf[k + 1] # other[k + 1]
      BY <2>5
    <3> QED BY <2>2, <2>3, <3>2, <3>3, XorCancels
  <2>6. CASE k + 1 # i
    <3>1. Tck(buf)[k] # Tck(other)[k]
      BY <1>1, <1>3, <2>1, <2>6
    <3>2. buf[k + 1] = other[k + 1]
      BY <2>1, <2>6
    <3> QED BY <2>2, <2>3, <2>4, <3>1, <3>2, XorCancels
  <2> QED BY <2>5, <2>6
<1> HIDE DEF S
<1>4. Len(buf) \in S
  BY <1>1, <1>2, <1>3, InductionOver
<1> QED BY <1>1, <1>4 DEF S, Ck

-----------------------------------------------------------------------------
(* The messages.                                                           *)

\* A complete message: what swicc_pps is called with.
Complete(pps) ==
  /\ pps \in Seq(Byte) /\ Len(pps) \in LenMin + 1..LenMax
  /\ pps[1] = PPSS /\ Len(pps) = PpsLen(pps)

LEMMA CompleteFacts ==
  ASSUME NEW pps, Complete(pps)
  PROVE  /\ pps[2] \in Byte /\ Len(pps) \in 3..6
         /\ \A i \in 1..Len(pps) : pps[i] \in Byte
         /\ \A i \in 1..8 : Bit(pps[2], i) \in {0, 1}
         /\ Len(pps) = 3 + Bit(pps[2], 5) + Bit(pps[2], 6) + Bit(pps[2], 7)
         /\ Position(pps, 1) = 3
         /\ Position(pps, 2) = 3 + Bit(pps[2], 5)
         /\ Position(pps, 3) = 3 + Bit(pps[2], 5) + Bit(pps[2], 6)
<1>1. Len(pps) \in 3..6 /\ pps \in Seq(Byte)
  BY DEF Complete, LenMin, LenMax
<1>2. pps[2] \in Byte /\ \A i \in 1..Len(pps) : pps[i] \in Byte
  BY <1>1
<1>3. \A i \in 1..8 : Bit(pps[2], i) \in {0, 1}
  BY <1>2, BitType
<1>4. Len(pps) = 3 + Bit(pps[2], 5) + Bit(pps[2], 6) + Bit(pps[2], 7)
  BY DEF Complete, PpsLen
<1>5. Bit(pps[2], 5) \in {0, 1} /\ Bit(pps[2], 6) \in {0, 1}
  BY <1>3
<1>6. /\ Position(pps, 1) = 3 /\ Position(pps, 2) = 3 + Bit(pps[2], 5)
      /\ Position(pps, 3) = 3 + Bit(pps[2], 5) + Bit(pps[2], 6)
  BY <1>5 DEF Position
<1> QED BY <1>1, <1>2, <1>3, <1>4, <1>6

\* The nibbles of a PPS1.
LEMMA Nibbles ==
  ASSUME NEW x \in Byte
  PROVE  /\ HighNibble(x) * 16 + LowNibble(x) = x
         /\ (HighNibble(x) = 1 /\ LowNibble(x) = 1) <=> x = 17
  BY DEF Byte, HighNibble, LowNibble

\* Withdrawing PPS1 from PPS0.
LEMMA WithoutPps1 ==
  ASSUME NEW p \in Byte, Bit(p, 5) = 1
  PROVE  /\ p - 16 \in Byte /\ Bit(p - 16, 5) = 0 /\ Bit(p - 16, 6) = Bit(p, 6)
         /\ Bit(p - 16, 7) = Bit(p, 7) /\ Bit(p - 16, 8) = Bit(p, 8)
<1> DEFINE x1 == Bit(p, 1)  x2 == Bit(p, 2)  x3 == Bit(p, 3)  x4 == Bit(p, 4)
           x5 == Bit(p, 5)  x6 == Bit(p, 6)  x7 == Bit(p, 7)  x8 == Bit(p, 8)
<1>1. /\ x1 \in {0, 1} /\ x2 \in {0, 1} /\ x3 \in {0, 1} /\ x4 \in {0, 1}
      /\ x6 \in {0, 1} /\ x7 \in {0, 1} /\ x8 \in {0, 1}
  BY BitType
<1>2. p = SumOf(x1, x2, x3, x4, x5, x6, x7, x8)
  BY ByteOfBits
<1>3. x5 = 1
  OBVIOUS
<1> HIDE DEF x1, x2, x3, x4, x5, x6, x7, x8
<1>4. p - 16 = SumOf(x1, x2, x3, x4, 0, x6, x7, x8)
  BY <1>1, <1>2, <1>3 DEF SumOf
<1>5. /\ p - 16 \in Byte /\ Bit(p - 16, 5) = 0 /\ Bit(p - 16, 6) = x6
      /\ Bit(p - 16, 7) = x7 /\ Bit(p - 16, 8) = x8
  BY <1>1, <1>4, BitsOfSum
<1> QED BY <1>5 DEF x6, x7, x8

\* The parameters proposed are the default ones.
Default(pps) == Announced(pps[2], 1) /\ PpsI(pps, 1) = 17

\* What pps_deparse makes of PPS0 and PPS1.
LEMMA FirstBytes ==
  ASSUME NEW pps, Complete(pps)
  PROVE  /\ Pps0(pps) \in Byte
         /\ Bit(Pps0(pps), 6) = Bit(pps[2], 6) /\ Bit(Pps0(pps), 7) = Bit(pps[2], 7)
         /\ Bit(Pps0(pps), 8) = Bit(pps[2], 8)
         /\ Bit(Pps0(pps), 5) = IF DropsPps1(pps) THEN 0 ELSE 1
         /\ DropsPps1(pps) <=> Default(pps) \/ Bit(pps[2], 5) = 0
         /\ ~Default(pps) => Pps0(pps) = pps[2]
         /\ ~DropsPps1(pps) => DiIdx(pps) * 16 + FiIdx(pps) = pps[3]
<1>1. /\ pps[2] \in Byte /\ Len(pps) \in 3..6 /\ pps[3] \in Byte
      /\ Bit(pps[2], 5) \in {0, 1} /\ Position(pps, 1) = 3
  BY CompleteFacts
<1>2. Announced(pps[2], 1) <=> Bit(pps[2], 5) = 1
  BY DEF Announced
<1>3. PpsI(pps, 1) = pps[3]
  BY <1>1 DEF PpsI
<1>4. Bit(pps[2], 5) = 1 =>
        FiIdx(pps) = LowNibble(pps[3]) /\ DiIdx(pps) = HighNibble(pps[3])
  BY <1>2, <1>3 DEF FiIdx, DiIdx
<1>5. DropsPps1(pps) <=> Default(pps) \/ Bit(pps[2], 5) = 0
  BY <1>1, <1>2, <1>3, <1>4, Nibbles DEF DropsPps1, Default
<1>6. ~DropsPps1(pps) => DiIdx(pps) * 16 + FiIdx(pps) = pps[3]
  BY <1>1, <1>4, <1>5, Nibbles
<1>7. CASE Default(pps)
  <2>1. Pps0(pps) = pps[2] - 16 /\ Bit(pps[2], 5) = 1
    BY <1>2, <1>5, <1>7 DEF Pps0, Default
  <2> QED BY <1>1, <1>5, <1>6, <1>7, <2>1, WithoutPps1
<1>8. CASE ~Default(pps)
  <2>1. Pps0(pps) = pps[2]
    BY <1>1, <1>2, <1>5, <1>8 DEF Pps0
  <2>2. Bit(pps[2], 5) = IF DropsPps1(pps) THEN 0 ELSE 1
    BY <1>1, <1>5, <1>8
  <2> QED BY <1>1, <1>5, <1>6, <2>1, <2>2
<1> QED BY <1>7, <1>8

\* A byte more.
LEMMA OneMore ==
  ASSUME NEW s \in Seq(Byte), NEW x \in Byte
  PROVE  /\ s \o <<x>> \in Seq(Byte) /\ Len(s \o <<x>>) = Len(s) + 1
         /\ \A i \in 1..Len(s) : (s \o <<x>>)[i] = s[i]
         /\ (s \o <<x>>)[Len(s) + 1] = x
  OBVIOUS

\* The bytes in front of the check byte of a response.
LEMMA BodyFacts ==
  ASSUME NEW pps, Complete(pps), Parses(pps),
         NEW n5, n5 = Bit(Pps0(pps), 5), NEW n6, n6 = Bit(pps[2], 6),
         NEW n7, n7 = Bit(pps[2], 7)
  PROVE  /\ Body(pps) \in Seq(Byte) /\ Len(Body(pps)) = 2 + n5 + n6 + n7
         /\ Body(pps)[1] = PPSS /\ Body(pps)[2] = Pps0(pps)
         /\ n5 = 1 => Body(pps)[3] = pps[3]
         /\ n6 = 1 => Body(pps)[3 + n5] = PpsI(pps, 2)
         /\ n7 = 1 => Body(pps)[3 + n5 + n6] = 0
<1> DEFINE a == <<PPSS, Pps0(pps)>>
           b == a \o (IF ~DropsPps1(pps) THEN <<pps[3]>> ELSE << >>)
           c == b \o (IF n6 = 1 THEN <<PpsI(pps, 2)>> ELSE << >>)
           d == c \o (IF n7 = 1 THEN <<0>> ELSE << >>)
<1>1. /\ n6 \in {0, 1} /\ n7 \in {0, 1} /\ Bit(pps[2], 5) \in {0, 1}
      /\ pps[3] \in Byte /\ Len(pps) \in 3..6
      /\ Position(pps, 2) = 3 + Bit(pps[2], 5)
      /\ Len(pps) = 3 + Bit(pps[2], 5) + n6 + n7
      /\ \A i \in 1..Len(pps) : pps[i] \in Byte
  BY CompleteFacts
<1>2. n6 = 1 => PpsI(pps, 2) \in Byte
  BY <1>1 DEF PpsI
<1>3. /\ Pps0(pps) \in Byte /\ n5 = IF ~DropsPps1(pps) THEN 1 ELSE 0
      /\ ~DropsPps1(pps) => DiIdx(pps) * 16 + FiIdx(pps) = pps[3]
  BY FirstBytes
<1>4. Body(pps) = d
  <2>1. Announced(pps[2], 2) <=> n6 = 1
    BY DEF Announced
  <2>2. Announced(pps[2], 3) <=> n7 = 1
    BY DEF Announced
  <2>3. (IF DropsPps1(pps) THEN << >> ELSE <<DiIdx(pps) * 16 + FiIdx(pps)>>)
          = (IF ~DropsPps1(pps) THEN <<pps[3]>> ELSE << >>)
    BY <1>3
  <2> HIDE DEF a
  <2> QED BY <2>1, <2>2, <2>3 DEF Body, a
<1>5. PPSS \in Byte /\ 0 \in Byte
  BY ZeroBits DEF PPSS, Byte
<1>6. a \in Seq(Byte) /\ Len(a) = 2 /\ a[1] = PPSS /\ a[2] = Pps0(pps)
  BY <1>3, <1>5
<1> HIDE DEF a
<1>7. /\ b \in Seq(Byte) /\ Len(b) = 2 + n5
      /\ \A i \in 1..2 : b[i] = a[i]
      /\ n5 = 1 => b[3] = pps[3]
  <2>1. CASE DropsPps1(pps)
    <3>1. b = a \o << >> /\ n5 = 0
      BY <1>3, <2>1
    <3> HIDE DEF b
    <3> QED BY <1>6, <3>1
  <2>2. CASE ~DropsPps1(pps)
    <3>1. b = a \o <<pps[3]>> /\ n5 = 1
      BY <1>3, <2>2
    <3>2. pps[3] \in Byte
      BY <1>1
    <3> HIDE DEF b
    <3>3. /\ b \in Seq(Byte) /\ Len(b) = Len(a) + 1
          /\ \A i \in 1..Len(a) : b[i] = a[i]
          /\ b[Len(a) + 1] = pps[3]
      BY <1>6, <3>1, <3>2, OneMore
    <3> QED BY <1>6, <3>1, <3>3
  <2> QED BY <2>1, <2>2
<1> HIDE DEF b
<1>8. n5 \in {0, 1} /\ n6 \in {0, 1} /\ n7 \in {0, 1}
  BY <1>1, <1>3
<1>9. /\ c \in Seq(Byte) /\ Len(c) = 2 + n5 + n6
      /\ \A i \in 1..(2 + n5) : c[i] = b[i]
      /\ n6 = 1 => c[3 + n5] = PpsI(pps, 2)
  <2>1. CASE n6 = 1
    <3>1. c = b \o <<PpsI(pps, 2)>>
      BY <2>1
    <3> HIDE DEF c
    <3>2. /\ c \in Seq(Byte) /\ Len(c) = Len(b) + 1
          /\ \A i \in 1..Len(b) : c[i] = b[i]
          /\ c[Len(b) + 1] = PpsI(pps, 2)
      BY <1>2, <1>7, <2>1, <3>1, OneMore
    <3> QED BY <1>7, <1>8, <2>1, <3>2
  <2>2. CASE n6 # 1
    <3>0. n6 = 0
      BY <1>8, <2>2
    <3>1. c = b \o << >>
      BY <2>2
    <3> HIDE DEF c
    <3> QED BY <1>7, <1>8, <3>0, <3>1
  <2> QED BY <2>1, <2>2
<1> HIDE DEF c
<1>10. /\ d \in Seq(Byte) /\ Len(d) = 2 + n5 + n6 + n7
       /\ \A i \in 1..(2 + n5 + n6) : d[i] = c[i]
       /\ n7 = 1 => d[3 + n5 + n6] = 0
  <2>1. CASE n7 = 1
    <3>1. d = c \o <<0>>
      BY <2>1
    <3> HIDE DEF d
    <3>2. /\ d \in Seq(Byte) /\ Len(d) = Len(c) + 1
          /\ \A i \in 1..Len(c) : d[i] = c[i]
          /\ d[Len(c) + 1] = 0
      BY <1>5, <1>9, <3>1, OneMore
    <3> QED BY <1>8, <1>9, <2>1, <3>2
  <2>2. CASE n7 # 1
    <3>0. n7 = 0
      BY <1>8, <2>2
    <3>1. d = c \o << >>
      BY <2>2
    <3> HIDE DEF d
    <3> QED BY <1>8, <1>9, <3>0, <3>1
  <2> QED BY <2>1, <2>2
<1> HIDE DEF d
<1>11. d[1] = PPSS /\ d[2] = Pps0(pps)
  <2>1. /\ 1 \in 1..2 /\ 2 \in 1..2 /\ 1 \in 1..(2 + n5) /\ 2 \in 1..(2 + n5)
        /\ 1 \in 1..(2 + n5 + n6) /\ 2 \in 1..(2 + n5 + n6)
    BY <1>8
  <2> QED BY <1>6, <1>7, <1>9, <1>10, <2>1
<1>12. n5 = 1 => d[3] = pps[3]
  <2>1. n5 = 1 => 3 \in 1..(2 + n5) /\ 3 \in 1..(2 + n5 + n6)
    BY <1>8
  <2> QED BY <1>7, <1>9, <1>10, <2>1
<1>13. n6 = 1 => d[3 + n5] = PpsI(pps, 2)
  <2>1. n6 = 1 => 3 + n5 \in 1..(2 + n5 + n6)
    BY <1>8
  <2> QED BY <1>9, <1>10, <2>1
<1> QED BY <1>4, <1>10, <1>11, <1>12, <1>13

\* A response is a complete message that parses, too.
LEMMA ResponseParses ==
  ASSUME NEW pps, Complete(pps), Parses(pps)
  PROVE  /\ Parses(Response(pps)) /\ PpsLen(Response(pps)) = Len(Response(pps))
         /\ Len(Response(pps)) = IF Default(pps) THEN Len(pps) - 1 ELSE Len(pps)
<1> DEFINE resp == Response(pps)
           body == Body(pps)
           q    == Pps0(pps)
           n5   == Bit(q, 5)
           n6   == Bit(pps[2], 6)
           n7   == Bit(pps[2], 7)
<1>1. /\ body \in Seq(Byte) /\ Len(body) = 2 + n5 + n6 + n7
      /\ body[1] = PPSS /\ body[2] = q
      /\ n7 = 1 => body[3 + n5 + n6] = 0
  BY BodyFacts
<1>2. /\ n6 \in {0, 1} /\ n7 \in {0, 1} /\ Bit(pps[2], 5) \in {0, 1}
      /\ Len(pps) = 3 + Bit(pps[2], 5) + n6 + n7
  BY CompleteFacts
<1>3. /\ q \in Byte /\ Bit(q, 6) = n6 /\ Bit(q, 7) = n7
      /\ Bit(q, 8) = Bit(pps[2], 8)
      /\ n5 = IF DropsPps1(pps) THEN 0 ELSE 1
      /\ DropsPps1(pps) <=> Default(pps) \/ Bit(pps[2], 5) = 0
  BY FirstBytes
<1>4. n5 \in {0, 1}
  BY <1>3
<1>5. Ck(body) \in Byte /\ Ck(Append(body, Ck(body))) = XorByte(Ck(body), Ck(body))
  <2>1. Ck(body) \in Byte
    BY <1>1, ZeroBits, CkOfAppend
  <2> QED BY <1>1, <2>1, CkOfAppend
<1>6. Ck(resp) = 0
  BY <1>5, XorIsZero DEF Response
<1> HIDE DEF body, q
<1>7. resp = Append(body, Ck(body))
  BY DEF Response, body
<1> HIDE DEF resp, n5, n6, n7
<1>8. /\ resp \in Seq(Byte) /\ Len(resp) = Len(body) + 1
      /\ \A i \in 1..Len(body) : resp[i] = body[i]
  BY <1>1, <1>5, <1>7
<1>9. Len(body) = 2 + n5 + n6 + n7 /\ Len(resp) = 3 + n5 + n6 + n7
  BY <1>1, <1>2, <1>4, <1>8
<1>10. resp[1] = PPSS /\ resp[2] = q
  <2>1. 1 \in 1..Len(body) /\ 2 \in 1..Len(body)
    BY <1>2, <1>4, <1>9
  <2> QED BY <1>1, <1>8, <2>1
<1>11. PpsLen(resp) = Len(resp)
  BY <1>3, <1>9, <1>10 DEF PpsLen, n5, n6, n7
<1>12. Position(resp, 3) = 3 + n5 + n6 /\ Position(resp, 2) = 3 + n5 /\ Position(resp, 1) = 3
  BY <1>2, <1>3, <1>4, <1>10 DEF Position, n5, n6
<1>13. Bit(q, 8) = 0
  BY <1>3 DEF Parses
<1>14. Announced(resp[2], 3) => PpsI(resp, 3) = 0
  <2>1. Announced(resp[2], 3) <=> n7 = 1
    BY <1>3, <1>10 DEF Announced
  <2>2. n7 = 1 => 3 + n5 + n6 \in 1..Len(body)
    BY <1>2, <1>4, <1>9
  <2>3. PpsI(resp, 3) = resp[3 + n5 + n6]
    BY <1>12 DEF PpsI
  <2> QED BY <1>1, <1>8, <2>1, <2>2, <2>3
<1>15. \A i \in 1..3 : Announced(resp[2], i) => Position(resp, i) <= Len(resp)
  <2>1. \A i \in 1..3 : i = 1 \/ i = 2 \/ i = 3
    OBVIOUS
  <2>2. Announced(resp[2], 1) => Position(resp, 1) <= Len(resp)
    BY <1>2, <1>4, <1>9, <1>12
  <2>3. Announced(resp[2], 2) => Position(resp, 2) <= Len(resp)
    BY <1>2, <1>4, <1>9, <1>12
  <2>4. Announced(resp[2], 3) => Position(resp, 3) <= Len(resp)
    BY <1>2, <1>4, <1>9, <1>12
  <2> QED BY <2>1, <2>2, <2>3, <2>4
<1>16. Len(resp) >= LenMin /\ Len(resp) <= LenMax
  BY <1>2, <1>4, <1>9 DEF LenMin, LenMax
<1>17. Parses(resp)
  BY <1>6, <1>10, <1>13, <1>14, <1>15, <1>16 DEF Parses, CkHolds, resp
<1>18. Len(resp) = IF Default(pps) THEN Len(pps) - 1 ELSE Len(pps)
  <2>1. CASE Default(pps)
    <3>1. Bit(pps[2], 5) = 1
      BY <2>1 DEF Default, Announced
    <3> QED BY <1>2, <1>3, <1>9, <2>1, <3>1
  <2>2. CASE ~Default(pps)
    <3>1. n5 = Bit(pps[2], 5)
      BY <1>2, <1>3, <2>2
    <3> QED BY <1>2, <1>9, <2>2, <3>1
  <2> QED BY <2>1, <2>2
<1> QED BY <1>11, <1>17, <1>18 DEF resp

\* The exchange succeeds unless the default parameters were proposed.
LEMMA SuccessIs ==
  ASSUME NEW pps, Complete(pps), Parses(pps)
  PROVE  Succeeds(pps) <=> ~Default(pps)
<1>1. pps \in Seq(Byte) /\ Len(pps) \in 3..6
  BY CompleteFacts DEF Complete
<1>2. CASE Default(pps)
  <2>1. Len(Response(pps)) # Len(pps)
    BY <1>1, <1>2, ResponseParses
  <2> QED BY <1>2, <2>1 DEF Succeeds
<1>3. CASE ~Default(pps)
  <2> DEFINE body == Body(pps)
             n5   == Bit(pps[2], 5)
             n6   == Bit(pps[2], 6)
             n7   == Bit(pps[2], 7)
             last == Len(pps)
  <2>1. Pps0(pps) = pps[2]
    BY <1>3, FirstBytes
  <2>2. /\ body \in Seq(Byte) /\ Len(body) = 2 + n5 + n6 + n7
        /\ body[1] = PPSS /\ body[2] = pps[2]
        /\ n5 = 1 => body[3] = pps[3]
        /\ n6 = 1 => body[3 + n5] = PpsI(pps, 2)
        /\ n7 = 1 => body[3 + n5 + n6] = 0
    BY <2>1, BodyFacts
  <2>3. /\ n5 \in {0, 1} /\ n6 \in {0, 1} /\ n7 \in {0, 1}
        /\ last = 3 + n5 + n6 + n7 /\ last \in 3..6 /\ pps[last] \in Byte
        /\ Position(pps, 2) = 3 + n5 /\ Position(pps, 3) = 3 + n5 + n6
    BY CompleteFacts
  <2>4. n6 = 1 => body[3 + n5] = pps[3 + n5]
    BY <2>2, <2>3 DEF PpsI
  <2>5. n7 = 1 => body[3 + n5 + n6] = pps[3 + n5 + n6]
    <3>1. n7 = 1 => PpsI(pps, 3) = 0
      BY DEF Parses, Announced
    <3> QED BY <2>2, <2>3, <3>1 DEF PpsI
  <2>6. pps[1] = PPSS
    BY DEF Complete
  <2> HIDE DEF body, n5, n6, n7
  <2>7. \A i \in 1..Len(body) : body[i] = pps[i]
    <3> TAKE i \in 1..Len(body)
    <3>1. \/ i = 1 \/ i = 2 \/ (n5 = 1 /\ i = 3) \/ (n6 = 1 /\ i = 3 + n5)
          \/ (n7 = 1 /\ i = 3 + n5 + n6)
      BY <2>2, <2>3
    <3> QED BY <2>2, <2>4, <2>5, <2>6, <3>1
  <2>8. Len(body) + 1 = last /\ Len(body) \in Nat
    BY <2>2, <2>3
  <2>9. pps = Append(body, pps[last])
    <3>1. Len(pps) = Len(Append(body, pps[last]))
      BY <2>2, <2>8
    <3>2. \A i \in 1..Len(pps) : pps[i] = Append(body, pps[last])[i]
      <4> TAKE i \in 1..Len(pps)
      <4>1. CASE i = last
        BY <2>2, <2>8, <4>1
      <4>2. CASE i # last
        <5>1. i \in 1..Len(body)
          BY <1>1, <2>8, <4>2
        <5> QED BY <2>2, <2>7, <5>1
      <4> QED BY <4>1, <4>2
    <3>3. Append(body, pps[last]) \in Seq(Byte)
      BY <2>2, <2>3
    <3> QED BY <1>1, <3>1, <3>2, <3>3
  <2>10. Ck(pps) = XorByte(Ck(body), pps[last]) /\ Ck(body) \in Byte
    BY <2>2, <2>3, <2>9, CkOfAppend
  <2>11. Ck(pps) = 0
    BY DEF Parses, CkHolds
  <2>12. Ck(body) = pps[last]
    BY <2>3, <2>10, <2>11, XorIsZero
  <2> QED BY <1>3, <2>9, <2>12 DEF Succeeds, Response, body
<1> QED BY <1>2, <1>3

-----------------------------------------------------------------------------
(* The exchange.                                                           *)

\* What arrives is complete, and a byte that was disturbed shows in its
\* check byte.
Arrived == Complete(req) /\ (line = "disturbed" => Ck(req) # 0)

\* What becomes of it.
Outcome ==
  \/ stage = "received" /\ ret = "none" /\ res = << >>
  \/ /\ stage = "done" /\ ret = "PPS_INVALID" /\ res = << >> /\ ~Parses(req)
  \/ /\ stage = "done" /\ ret = "PPS_FAILED" /\ res = Response(req)
     /\ Parses(req) /\ ~Succeeds(req)
  \/ /\ stage \in {"done", "aborted"} /\ ret = "SUCCESS" /\ res = Response(req)
     /\ Parses(req) /\ Succeeds(req)

PpsInv == Arrived /\ Outcome

\* A disturbance of one byte.
LEMMA DisturbedIs ==
  ASSUME NEW r \in Requests, NEW f \in Flips
  PROVE  LET d == Disturbed(r, f)
         IN  /\ d \in Seq(Byte) /\ Len(d) = Len(r) /\ d[1] = PPSS
             /\ d # r => Ck(d) # 0
<1> DEFINE d == Disturbed(r, f)
<1>1. /\ r \in Seq(Byte) /\ Len(r) >= 3 /\ r[1] = PPSS /\ Ck(r) = 0
      /\ Len(r) \in Nat
  BY PpsAssumption
<1>2. CASE f[1] \notin 1..Len(r)
  BY <1>1, <1>2 DEF Disturbed
<1>3. CASE f[1] \in 1..Len(r)
  <2>1. f[1] \in 2..LenMax /\ f[2] \in Byte /\ f[2] # 0
    <3>1. f # NoFlip
      BY <1>3 DEF NoFlip
    <3> QED BY <3>1, PpsAssumption
  <2> DEFINE i == f[1]
             x == XorByte(r[i], f[2])
  <2>2. d = [r EXCEPT ![i] = x]
    BY <1>3 DEF Disturbed
  <2>3. r[i] \in Byte
    BY <1>1, <1>3
  <2>4. x \in Byte /\ x # r[i]
    BY <2>1, <2>3, XorBits, XorChanges
  <2>5. i # 1
    BY <2>1 DEF LenMax
  <2> HIDE DEF d, x
  <2>6. /\ d \in Seq(Byte) /\ Len(d) = Len(r) /\ d[i] = x
        /\ \A j \in 1..Len(r) : j # i => d[j] = r[j]
    BY <1>1, <1>3, <2>2, <2>4
  <2>7. d[1] = PPSS
    BY <1>1, <2>5, <2>6
  <2>8. Ck(r) # Ck(d)
    BY <1>1, <1>3, <2>4, <2>6, CkTellsByte
  <2> QED BY <1>1, <2>6, <2>7, <2>8 DEF d
<1> QED BY <1>2, <1>3

LEMMA InitArrives == Init => PpsInv
<1> SUFFICES ASSUME Init PROVE PpsInv
  OBVIOUS
<1>1. PICK r \in Requests, f \in Flips :
        /\ PpsLen(Disturbed(r, f)) <= Len(r)
        /\ req = SubSeq(Disturbed(r, f), 1, PpsLen(Disturbed(r, f)))
        /\ line = IF Disturbed(r, f) = r THEN "intact"
                  ELSE IF Len(req) < Len(r) THEN "cut" ELSE "disturbed"
  BY DEF Init
<1> DEFINE d == Disturbed(r, f)
           n == PpsLen(d)
<1>2. /\ d \in Seq(Byte) /\ Len(d) = Len(r) /\ d[1] = PPSS
      /\ d # r => Ck(d) # 0
  BY DisturbedIs
<1>3. Len(r) >= 3 /\ Len(r) \in Nat
  BY PpsAssumption
<1>4. n \in 3..6
  <2>1. d[2] \in Byte
    BY <1>2, <1>3
  <2>2. Bit(d[2], 5) \in {0, 1} /\ Bit(d[2], 6) \in {0, 1} /\ Bit(d[2], 7) \in {0, 1}
    BY <2>1, BitType
  <2> QED BY <2>2 DEF PpsLen
<1>5. n <= Len(d)
  BY <1>1, <1>2
<1>6. req = SubSeq(d, 1, n)
  BY <1>1
<1>7. n = 3 + Bit(d[2], 5) + Bit(d[2], 6) + Bit(d[2], 7)
  BY DEF PpsLen
<1> HIDE DEF d, n
<1>8. /\ req \in Seq(Byte) /\ Len(req) = n /\ req[1] = d[1] /\ req[2] = d[2]
  BY <1>2, <1>4, <1>5, <1>6
<1>9. Complete(req)
  BY <1>2, <1>4, <1>7, <1>8 DEF Complete, PpsLen, LenMin, LenMax
<1>10. line = "disturbed" => Ck(req) # 0
  <2> SUFFICES ASSUME line = "disturbed" PROVE Ck(req) # 0
    OBVIOUS
  <2>1. d # r /\ ~(n < Len(r))
    BY <1>1, <1>8 DEF d
  <2>2. n = Len(d)
    BY <1>2, <1>3, <1>4, <1>5, <2>1
  <2>3. req = d
    BY <1>2, <1>6, <2>2
  <2> QED BY <1>2, <2>1, <2>3
<1> QED BY <1>9, <1>10 DEF Init, PpsInv, Arrived, Outcome

LEMMA NextKeeps == PpsInv /\ [Next]_ppsVars => PpsInv'
<1> SUFFICES ASSUME PpsInv, [Next]_ppsVars PROVE PpsInv'
  OBVIOUS
<1>1. CASE UNCHANGED ppsVars
  BY <1>1 DEF ppsVars, PpsInv, Arrived, Outcome
<1>2. CASE HandlePps
  <2>1. Arrived'
    BY <1>2 DEF HandlePps, PpsInv, Arrived
  <2>2. Outcome'
    BY <1>2 DEF HandlePps, Outcome
  <2> QED BY <2>1, <2>2 DEF PpsInv
<1> QED BY <1>1, <1>2 DEF Next

LEMMA Inductive == Spec => []PpsInv
  BY InitArrives, NextKeeps, PTL DEF Spec

\* A request of which one byte behind PPSS was disturbed, in whatever bits, is
\* not agreed to and not answered: for all requests and disturbances but those
\* of PPS0 by which it announces fewer bytes.  Such a message is cut off where
\* another byte may happen to hold as its check byte: of FF 10 FF 10, with PPS0
\* turned to 00, the card takes FF 00 FF, which does.
THEOREM DisturbanceAlwaysNoticed == Spec => []DisturbanceNoticed
<1>1. PpsInv => DisturbanceNoticed
  BY DEF PpsInv, Arrived, Outcome, DisturbanceNoticed, Parses, CkHolds
<1> QED BY <1>1, Inductive, PTL

\* Every response is a complete message that parses, with PPS1 or without.
THEOREM ResponsesWellFormed == Spec => []ResponseWellFormed
<1>1. PpsInv => ResponseWellFormed
  <2> SUFFICES ASSUME PpsInv, res # << >> PROVE Parses(res) /\ PpsLen(res) = Len(res)
    BY DEF ResponseWellFormed
  <2>1. Complete(req) /\ Parses(req) /\ res = Response(req)
    BY DEF PpsInv, Arrived, Outcome
  <2> QED BY <2>1, ResponseParses
<1> QED BY <1>1, Inductive, PTL

\* What the card state machine relies upon holds of all bytes.
THEOREM FsmViewHolds == Spec => []FsmView
<1>1. PpsInv => FsmView
  <2> SUFFICES ASSUME PpsInv, ret \in {"PPS_FAILED", "SUCCESS"}
               PROVE  /\ Len(res) = IF Default(req) THEN Len(req) - 1 ELSE Len(req)
                      /\ ret = "SUCCESS" <=> ~Default(req)
    BY DEF FsmView, Default
  <2>1. /\ Complete(req) /\ Parses(req) /\ res = Response(req)
        /\ ret = "SUCCESS" <=> Succeeds(req)
    BY DEF PpsInv, Arrived, Outcome
  <2> QED BY <2>1, ResponseParses, SuccessIs
<1> QED BY <1>1, Inductive, PTL
=============================================================================
