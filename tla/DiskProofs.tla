----------------------------- MODULE DiskProofs -----------------------------
(***************************************************************************)
(* The disks of src/fs/disk.c and src/fs/diskjs.c for all descriptions,    *)
(* sizes, buffers and IDs: what the parser returns for a description, what *)
(* a walk over the files of a tree meets, what the lookup tables hold      *)
(* while they are built, and the invariant that ties these together.       *)
(***************************************************************************)
EXTENDS Disk, WellFoundedInduction, TLAPS

-----------------------------------------------------------------------------
(* Recursive functions of the model: each is a CHOOSE, and equals what its *)
(* recursion says once a function that satisfies the recursion is shown to *)
(* exist. The induction is over the numbers, as a set with a least member. *)

LEMMA LeastOf ==
  ASSUME NEW T \in SUBSET Nat, T # {}
  PROVE  \E x \in T : \A y \in T : x <= y
<1>1. \E x \in T : \A y \in T : ~ (<<y, x>> \in OpToRel(<, Nat))
  BY NatLessThanWellFounded, WFMin, Zenon
<1>2. \A x, y \in Nat : y < x => <<y, x>> \in OpToRel(<, Nat)
  BY DEF OpToRel
<1>3. \A x, y \in Nat : x <= y \/ y < x
  OBVIOUS
<1> QED BY <1>1, <1>2, <1>3

LEMMA InductionOver ==
  ASSUME NEW S, 0 \in S, \A n \in Nat : n \in S => n + 1 \in S
  PROVE  \A n \in Nat : n \in S
<1> SUFFICES ASSUME {n \in Nat : n \notin S} # {} PROVE FALSE
  OBVIOUS
<1>1. PICK x \in {n \in Nat : n \notin S} :
        \A y \in {n \in Nat : n \notin S} : x <= y
  BY LeastOf
<1>2. x - 1 \in Nat /\ x - 1 \in S /\ x = (x - 1) + 1
  BY <1>1
<1> QED BY <1>1, <1>2

ItemsStep(g, n) == ItemsOver(IF n = 0 THEN {} ELSE g[n - 1], n)
IsItems(g, m) == g = [n \in 0..m |-> ItemsStep(g, n)]

\* The recursion of Items has a solution.
LEMMA ItemsExists ==
  \A m \in Nat : \E g : IsItems(g, m)
<1> DEFINE S == {m \in Nat : \E g : IsItems(g, m)}
<1>1. 0 \in S
  <2> DEFINE g == [n \in 0..0 |-> ItemsOver({}, 0)]
  <2>1. IsItems(g, 0)
    BY DEF IsItems, ItemsStep
  <2> QED BY <2>1
<1>2. ASSUME NEW m \in Nat, m \in S PROVE m + 1 \in S
  <2>1. PICK g : IsItems(g, m)
    BY <1>2
  <2> DEFINE h == [n \in 0..(m + 1) |-> ItemsStep(g, n)]
  <2>2. \A n \in 0..m : h[n] = g[n]
    <3>1. \A n \in 0..m : g[n] = ItemsStep(g, n)
      BY <2>1 DEF IsItems
    <3> QED BY <3>1
  <2>3. \A n \in 0..(m + 1) : ItemsStep(g, n) = ItemsStep(h, n)
    <3> HIDE DEF h
    <3> TAKE n \in 0..(m + 1)
    <3>1. n # 0 => n - 1 \in 0..m
      OBVIOUS
    <3>2. n # 0 => h[n - 1] = g[n - 1]
      BY <2>2, <3>1
    <3> QED BY <3>2 DEF ItemsStep
  <2> HIDE DEF h
  <2>4. IsItems(h, m + 1)
    BY <2>3 DEF h, IsItems
  <2> QED BY <2>4
<1> HIDE DEF S
<1>3. \A m \in Nat : m \in S
  BY <1>1, <1>2, InductionOver
<1> QED BY <1>3 DEF S

LEMMA ItemsIs ==
  \A n \in 0..Depth :
    Items[n] = ItemsOver(IF n = 0 THEN {} ELSE Items[n - 1], n)
<1> DEFINE W == Items
<1>1. PICK g : IsItems(g, Depth)
  BY ItemsExists, DiskJsAssumption
<1>2. W = CHOOSE f : f = [n \in 0..Depth |->
                              ItemsOver(IF n = 0 THEN {} ELSE f[n - 1], n)]
  BY DEF Items
<1>3. W = [n \in 0..Depth |-> ItemsOver(IF n = 0 THEN {} ELSE W[n - 1], n)]
  BY <1>1, <1>2 DEF IsItems, ItemsStep
<1> QED BY <1>3

PrsStep(g, n) == PrsLevel(IF n = 0 THEN << >> ELSE g[n - 1], n)
IsPrs(g, m) == g = [n \in 0..m |-> PrsStep(g, n)]

\* The recursion of Prs has a solution.
LEMMA PrsExists ==
  \A m \in Nat : \E g : IsPrs(g, m)
<1> DEFINE S == {m \in Nat : \E g : IsPrs(g, m)}
<1>1. 0 \in S
  <2> DEFINE g == [n \in 0..0 |-> PrsLevel(<< >>, 0)]
  <2>1. IsPrs(g, 0)
    BY DEF IsPrs, PrsStep
  <2> QED BY <2>1
<1>2. ASSUME NEW m \in Nat, m \in S PROVE m + 1 \in S
  <2>1. PICK g : IsPrs(g, m)
    BY <1>2
  <2> DEFINE h == [n \in 0..(m + 1) |-> PrsStep(g, n)]
  <2>2. \A n \in 0..m : h[n] = g[n]
    <3>1. \A n \in 0..m : g[n] = PrsStep(g, n)
      BY <2>1 DEF IsPrs
    <3> QED BY <3>1
  <2>3. \A n \in 0..(m + 1) : PrsStep(g, n) = PrsStep(h, n)
    <3> HIDE DEF h
    <3> TAKE n \in 0..(m + 1)
    <3>1. n # 0 => n - 1 \in 0..m
      OBVIOUS
    <3>2. n # 0 => h[n - 1] = g[n - 1]
      BY <2>2, <3>1
    <3> QED BY <3>2 DEF PrsStep
  <2> HIDE DEF h
  <2>4. IsPrs(h, m + 1)
    BY <2>3 DEF h, IsPrs
  <2> QED BY <2>4
<1> HIDE DEF S
<1>3. \A m \in Nat : m \in S
  BY <1>1, <1>2, InductionOver
<1> QED BY <1>3 DEF S

LEMMA PrsIs ==
  \A n \in 0..Depth :
    Prs[n] = PrsLevel(IF n = 0 THEN << >> ELSE Prs[n - 1], n)
<1> DEFINE W == Prs
<1>1. PICK g : IsPrs(g, Depth)
  BY PrsExists, DiskJsAssumption
<1>2. W = CHOOSE f : f = [n \in 0..Depth |->
                              PrsLevel(IF n = 0 THEN << >> ELSE f[n - 1], n)]
  BY DEF Prs
<1>3. W = [n \in 0..Depth |-> PrsLevel(IF n = 0 THEN << >> ELSE W[n - 1], n)]
  BY <1>1, <1>2 DEF IsPrs, PrsStep
<1> QED BY <1>3

NeededStep(g, n) == LengthLevel(IF n = 0 THEN << >> ELSE g[n - 1], n)
IsNeeded(g, m) == g = [n \in 0..m |-> NeededStep(g, n)]

\* The recursion of Needed has a solution.
LEMMA NeededExists ==
  \A m \in Nat : \E g : IsNeeded(g, m)
<1> DEFINE S == {m \in Nat : \E g : IsNeeded(g, m)}
<1>1. 0 \in S
  <2> DEFINE g == [n \in 0..0 |-> LengthLevel(<< >>, 0)]
  <2>1. IsNeeded(g, 0)
    BY DEF IsNeeded, NeededStep
  <2> QED BY <2>1
<1>2. ASSUME NEW m \in Nat, m \in S PROVE m + 1 \in S
  <2>1. PICK g : IsNeeded(g, m)
    BY <1>2
  <2> DEFINE h == [n \in 0..(m + 1) |-> NeededStep(g, n)]
  <2>2. \A n \in 0..m : h[n] = g[n]
    <3>1. \A n \in 0..m : g[n] = NeededStep(g, n)
      BY <2>1 DEF IsNeeded
    <3> QED BY <3>1
  <2>3. \A n \in 0..(m + 1) : NeededStep(g, n) = NeededStep(h, n)
    <3> HIDE DEF h
    <3> TAKE n \in 0..(m + 1)
    <3>1. n # 0 => n - 1 \in 0..m
      OBVIOUS
    <3>2. n # 0 => h[n - 1] = g[n - 1]
      BY <2>2, <3>1
    <3> QED BY <3>2 DEF NeededStep
  <2> HIDE DEF h
  <2>4. IsNeeded(h, m + 1)
    BY <2>3 DEF h, IsNeeded
  <2> QED BY <2>4
<1> HIDE DEF S
<1>3. \A m \in Nat : m \in S
  BY <1>1, <1>2, InductionOver
<1> QED BY <1>3 DEF S

LEMMA NeededIs ==
  \A n \in 0..Depth :
    Needed[n] = LengthLevel(IF n = 0 THEN << >> ELSE Needed[n - 1], n)
<1> DEFINE W == Needed
<1>1. PICK g : IsNeeded(g, Depth)
  BY NeededExists, DiskJsAssumption
<1>2. W = CHOOSE f : f = [n \in 0..Depth |->
                       LengthLevel(IF n = 0 THEN << >> ELSE f[n - 1], n)]
  BY DEF Needed
<1>3. W = [n \in 0..Depth |->
               LengthLevel(IF n = 0 THEN << >> ELSE W[n - 1], n)]
  BY <1>1, <1>2 DEF IsNeeded, NeededStep
<1> QED BY <1>3

MeasuredStep(g, n) == MeasuredLevel(IF n = 0 THEN << >> ELSE g[n - 1], n)
IsMeasured(g, m) == g = [n \in 0..m |-> MeasuredStep(g, n)]

\* The recursion of Measured has a solution.
LEMMA MeasuredExists ==
  \A m \in Nat : \E g : IsMeasured(g, m)
<1> DEFINE S == {m \in Nat : \E g : IsMeasured(g, m)}
<1>1. 0 \in S
  <2> DEFINE g == [n \in 0..0 |-> MeasuredLevel(<< >>, 0)]
  <2>1. IsMeasured(g, 0)
    BY DEF IsMeasured, MeasuredStep
  <2> QED BY <2>1
<1>2. ASSUME NEW m \in Nat, m \in S PROVE m + 1 \in S
  <2>1. PICK g : IsMeasured(g, m)
    BY <1>2
  <2> DEFINE h == [n \in 0..(m + 1) |-> MeasuredStep(g, n)]
  <2>2. \A n \in 0..m : h[n] = g[n]
    <3>1. \A n \in 0..m : g[n] = MeasuredStep(g, n)
      BY <2>1 DEF IsMeasured
    <3> QED BY <3>1
  <2>3. \A n \in 0..(m + 1) : MeasuredStep(g, n) = MeasuredStep(h, n)
    <3> HIDE DEF h
    <3> TAKE n \in 0..(m + 1)
    <3>1. n # 0 => n - 1 \in 0..m
      OBVIOUS
    <3>2. n # 0 => h[n - 1] = g[n - 1]
      BY <2>2, <3>1
    <3> QED BY <3>2 DEF MeasuredStep
  <2> HIDE DEF h
  <2>4. IsMeasured(h, m + 1)
    BY <2>3 DEF h, IsMeasured
  <2> QED BY <2>4
<1> HIDE DEF S
<1>3. \A m \in Nat : m \in S
  BY <1>1, <1>2, InductionOver
<1> QED BY <1>3 DEF S

LEMMA MeasuredIs ==
  \A n \in 0..Depth :
    Measured[n] = MeasuredLevel(IF n = 0 THEN << >> ELSE Measured[n - 1], n)
<1> DEFINE W == Measured
<1>1. PICK g : IsMeasured(g, Depth)
  BY MeasuredExists, DiskJsAssumption
<1>2. W = CHOOSE f : f = [n \in 0..Depth |->
               MeasuredLevel(IF n = 0 THEN << >> ELSE f[n - 1], n)]
  BY DEF Measured
<1>3. W = [n \in 0..Depth |->
               MeasuredLevel(IF n = 0 THEN << >> ELSE W[n - 1], n)]
  BY <1>1, <1>2 DEF IsMeasured, MeasuredStep
<1> QED BY <1>3

TotalStep(g, s, n) == IF n = 0 THEN 0 ELSE g[n - 1] + s[n]
IsTotal(g, s, m)   == g = [n \in 0..m |-> TotalStep(g, s, n)]

\* A sum over a sequence has a solution.
LEMMA TotalExists ==
  ASSUME NEW s
  PROVE  \A m \in Nat : \E g : IsTotal(g, s, m)
<1> DEFINE S == {m \in Nat : \E g : IsTotal(g, s, m)}
<1>1. 0 \in S
  <2> DEFINE g == [n \in 0..0 |-> 0]
  <2>1. IsTotal(g, s, 0)
    BY DEF IsTotal, TotalStep
  <2> QED BY <2>1
<1>2. ASSUME NEW m \in Nat, m \in S PROVE m + 1 \in S
  <2>1. PICK g : IsTotal(g, s, m)
    BY <1>2
  <2> DEFINE h == [n \in 0..(m + 1) |-> TotalStep(g, s, n)]
  <2>2. \A n \in 0..m : h[n] = g[n]
    <3>1. \A n \in 0..m : g[n] = TotalStep(g, s, n)
      BY <2>1 DEF IsTotal
    <3> QED BY <3>1
  <2>3. \A n \in 0..(m + 1) : TotalStep(g, s, n) = TotalStep(h, s, n)
    <3> HIDE DEF h
    <3> TAKE n \in 0..(m + 1)
    <3>1. n # 0 => n - 1 \in 0..m
      OBVIOUS
    <3>2. n # 0 => h[n - 1] = g[n - 1]
      BY <2>2, <3>1
    <3> QED BY <3>2 DEF TotalStep
  <2> HIDE DEF h
  <2>4. IsTotal(h, s, m + 1)
    BY <2>3 DEF h, IsTotal
  <2> QED BY <2>4
<1> HIDE DEF S
<1>3. \A m \in Nat : m \in S
  BY <1>1, <1>2, InductionOver
<1> QED BY <1>3 DEF S

PartsStep(g, sub, item, room, n) ==
  IF n = 0 THEN Parsed(0, NoHeaders)
  ELSE NextPart(sub, item, room, g[n - 1], n)
IsParts(g, sub, item, room, m) ==
  g = [n \in 0..m |-> PartsStep(g, sub, item, room, n)]

\* So has the loop over the parts of a file.
LEMMA PartsExists ==
  ASSUME NEW sub, NEW item, NEW room
  PROVE  \A m \in Nat : \E g : IsParts(g, sub, item, room, m)
<1> DEFINE S == {m \in Nat : \E g : IsParts(g, sub, item, room, m)}
<1>1. 0 \in S
  <2> DEFINE g == [n \in 0..0 |-> Parsed(0, NoHeaders)]
  <2>1. IsParts(g, sub, item, room, 0)
    BY DEF IsParts, PartsStep
  <2> QED BY <2>1
<1>2. ASSUME NEW m \in Nat, m \in S PROVE m + 1 \in S
  <2>1. PICK g : IsParts(g, sub, item, room, m)
    BY <1>2
  <2> DEFINE h == [n \in 0..(m + 1) |-> PartsStep(g, sub, item, room, n)]
  <2>2. \A n \in 0..m : h[n] = g[n]
    <3>1. \A n \in 0..m : g[n] = PartsStep(g, sub, item, room, n)
      BY <2>1 DEF IsParts
    <3> QED BY <3>1
  <2>3. \A n \in 0..(m + 1) : PartsStep(g, sub, item, room, n)
          = PartsStep(h, sub, item, room, n)
    <3> HIDE DEF h
    <3> TAKE n \in 0..(m + 1)
    <3>1. n # 0 => n - 1 \in 0..m
      OBVIOUS
    <3>2. n # 0 => h[n - 1] = g[n - 1]
      BY <2>2, <3>1
    <3> QED BY <3>2 DEF PartsStep
  <2> HIDE DEF h
  <2>4. IsParts(h, sub, item, room, m + 1)
    BY <2>3 DEF h, IsParts
  <2> QED BY <2>4
<1> HIDE DEF S
<1>3. \A m \in Nat : m \in S
  BY <1>1, <1>2, InductionOver
<1> QED BY <1>3 DEF S

\* What comes of the two loops over the parts of a file.
LEMMA TotalIs ==
  ASSUME NEW s \in Seq(Nat)
  PROVE  \E g : IsTotal(g, s, Len(s)) /\ Total(s) = g[Len(s)]
<1>0. Len(s) \in Nat
  OBVIOUS
<1>1. PICK g : IsTotal(g, s, Len(s))
  BY <1>0, TotalExists
<1> DEFINE W == CHOOSE f : f = [k \in 0..Len(s) |->
                           IF k = 0 THEN 0 ELSE f[k - 1] + s[k]]
<1>2. W = [k \in 0..Len(s) |-> IF k = 0 THEN 0 ELSE W[k - 1] + s[k]]
  BY <1>1 DEF IsTotal, TotalStep
<1>3. Total(s) = W[Len(s)]
  BY DEF Total
<1> HIDE DEF W
<1>4. IsTotal(W, s, Len(s))
  BY <1>2 DEF IsTotal, TotalStep
<1> QED BY <1>3, <1>4

LEMMA PartsIs ==
  ASSUME NEW sub, NEW item, NEW room, Parts(item) \in Nat
  PROVE  \E g : /\ IsParts(g, sub, item, room, Parts(item))
                /\ PrsParts(sub, item, room) = g[Parts(item)]
<1> DEFINE W == CHOOSE f : f = [k \in 0..Parts(item) |->
                  IF k = 0 THEN Parsed(0, NoHeaders)
                  ELSE NextPart(sub, item, room, f[k - 1], k)]
<1>1. PICK g : IsParts(g, sub, item, room, Parts(item))
  BY PartsExists
<1>2. W = [k \in 0..Parts(item) |->
             IF k = 0 THEN Parsed(0, NoHeaders)
             ELSE NextPart(sub, item, room, W[k - 1], k)]
  BY <1>1 DEF IsParts, PartsStep
<1>3. PrsParts(sub, item, room) = W[Parts(item)]
  BY DEF PrsParts
<1> HIDE DEF W
<1>4. IsParts(W, sub, item, room, Parts(item))
  BY <1>2 DEF IsParts, PartsStep
<1> QED BY <1>3, <1>4

\* Partial sums of numbers are numbers, and do not fall.
LEMMA TotalGrows ==
  ASSUME NEW s \in Seq(Nat), NEW g, IsTotal(g, s, Len(s))
  PROVE  /\ g[0] = 0
         /\ \A k \in 0..Len(s) : g[k] \in Nat
         /\ \A k \in 1..Len(s) : g[k] = g[k - 1] + s[k]
<1>1. \A k \in 0..Len(s) : g[k] = IF k = 0 THEN 0 ELSE g[k - 1] + s[k]
  BY DEF IsTotal, TotalStep
<1> DEFINE S == {k \in Nat : k <= Len(s) => g[k] \in Nat}
<1>2. 0 \in S
  BY <1>1
<1>3. ASSUME NEW k \in Nat, k \in S PROVE k + 1 \in S
  <2> SUFFICES ASSUME k + 1 <= Len(s) PROVE g[k + 1] \in Nat
    OBVIOUS
  <2>1. g[k] \in Nat /\ s[k + 1] \in Nat /\ k + 1 \in 0..Len(s)
    BY <1>3
  <2>2. g[k + 1] = g[k] + s[k + 1]
    BY <1>1, <2>1
  <2> QED BY <2>1, <2>2
<1> HIDE DEF S
<1>4. \A k \in Nat : k \in S
  BY <1>2, <1>3, InductionOver
<1>5. \A k \in 0..Len(s) : g[k] \in Nat
  BY <1>4 DEF S
<1> QED BY <1>1, <1>5

LEMMA TotalNat ==
  ASSUME NEW s \in Seq(Nat)
  PROVE  Total(s) \in Nat
<1>1. PICK g : IsTotal(g, s, Len(s)) /\ Total(s) = g[Len(s)]
  BY TotalIs
<1>2. \A k \in 0..Len(s) : g[k] \in Nat
  BY <1>1, TotalGrows
<1> QED BY <1>1, <1>2

-----------------------------------------------------------------------------
(* Headers.                                                                *)

Headers ==
  [mark : Nat, type : FileTypes, id : Ids \cup {0}, sid : Ids \cup {0},
   rcrd_size : Nat \cup {Bad}, size : Nat, prel : Nat]

\* The headers in the first len bytes of a buffer.
AtsTo(len) == UNION {[D -> Headers] : D \in SUBSET (0..(len - 1))}

LEMMA NoneAt == \A len \in Nat : NoHeaders \in AtsTo(len)
<1> TAKE len \in Nat
<1>1. NoHeaders \in [{} -> Headers]
  BY DEF NoHeaders
<1> QED BY <1>1 DEF AtsTo

LEMMA MovedAt ==
  ASSUME NEW len \in Nat, NEW at \in AtsTo(len), NEW d \in Nat
  PROVE  Moved(at, d) \in AtsTo(d + len)
<1>1. PICK D \in SUBSET (0..(len - 1)) : at \in [D -> Headers]
  BY DEF AtsTo
<1> DEFINE E == {x + d : x \in D}
<1>2. E \in SUBSET (0..(d + len - 1))
  BY <1>1
<1>3. \A o \in E : o - d \in D /\ at[o - d] \in Headers
  BY <1>1
<1>4. Moved(at, d) \in [E -> Headers]
  BY <1>1, <1>3 DEF Moved
<1> HIDE DEF E
<1> QED BY <1>2, <1>4 DEF AtsTo

LEMMA MergedAt ==
  ASSUME NEW len \in Nat, NEW at \in AtsTo(len), NEW more \in AtsTo(len)
  PROVE  Joined(at, more) \in AtsTo(len)
<1>1. PICK D \in SUBSET (0..(len - 1)) : at \in [D -> Headers]
  BY DEF AtsTo
<1>2. PICK E \in SUBSET (0..(len - 1)) : more \in [E -> Headers]
  BY DEF AtsTo
<1>3. Joined(at, more) \in [D \cup E -> Headers]
  BY <1>1, <1>2 DEF Joined
<1> QED BY <1>3 DEF AtsTo

LEMMA WiderAt ==
  ASSUME NEW len \in Nat, NEW at \in AtsTo(len), NEW n \in Nat, len <= n
  PROVE  at \in AtsTo(n)
<1>1. PICK D \in SUBSET (0..(len - 1)) : at \in [D -> Headers]
  BY DEF AtsTo
<1>2. D \in SUBSET (0..(n - 1))
  OBVIOUS
<1> QED BY <1>1, <1>2 DEF AtsTo

-----------------------------------------------------------------------------
(* What a parser returns.                                                  *)

\* Of an item of need bytes, if it is measured, that is parsed into room
\* bytes.
Facts(r, need, room, measured) ==
  /\ r.ret \in {"SUCCESS", "ERROR", "BUFFER_TOO_SHORT"}
  /\ r.len \in Nat /\ r.at \in AtsTo(r.len)
  /\ r.ret = "SUCCESS" => r.len <= room /\ (measured => r.len = need)
  /\ r.ret = "BUFFER_TOO_SHORT" /\ measured => need > room

LEMMA ItemFacts ==
  ASSUME NEW n \in 0..Depth, NEW item \in Items[n]
  PROVE  /\ item.type \in FileTypes \cup {"DATA"} /\ item.mark \in Nat
         /\ item.id \in Ids \cup {0, Bad} /\ item.sid \in Ids \cup {0, Bad}
         /\ item.name \in Nat \cup {Bad} /\ item.rcrd_size \in Nat \cup {Bad}
         /\ item.size \in Nat \cup {Bad}
         /\ Parts(item) \in Nat
         /\ \A i \in 1..Parts(item) :
              n > 0 /\ n - 1 \in 0..Depth /\ item.items[i] \in Items[n - 1]
<1>1. item \in ItemsOver(IF n = 0 THEN {} ELSE Items[n - 1], n)
  BY ItemsIs
<1>2. /\ item.type \in FileTypes \cup {"DATA"} /\ item.mark \in Nat
      /\ item.id \in Ids \cup {0, Bad} /\ item.sid \in Ids \cup {0, Bad}
      /\ item.name \in Nat \cup {Bad} /\ item.rcrd_size \in Nat \cup {Bad}
      /\ item.size \in Nat \cup {Bad}
      /\ item.items \in IF n = 0 THEN {<< >>} ELSE Seq(Items[n - 1])
  BY <1>1 DEF ItemsOver
<1>3. CASE n = 0
  <2>1. item.items = << >>
    BY <1>2, <1>3
  <2>2. Parts(item) = 0
    BY <2>1 DEF Parts
  <2> QED BY <1>2, <2>2
<1>4. CASE n # 0
  <2>1. n - 1 \in 0..Depth /\ n > 0
    BY <1>4, DiskJsAssumption
  <2>2. item.items \in Seq(Items[n - 1])
    BY <1>2, <1>4
  <2>3. Parts(item) \in 0..Len(item.items)
    <3>1. CASE item.items = << >>
      BY <3>1 DEF Parts
    <3>2. CASE item.items # << >>
      <4>1. Len(item.items) \in Nat \ {0}
        BY <2>2, <3>2
      <4> QED BY <4>1 DEF Parts
    <3> QED BY <3>1, <3>2
  <2>4. \A i \in 1..Parts(item) : item.items[i] \in Items[n - 1]
    BY <2>2, <2>3
  <2>5. Parts(item) \in Nat
    BY <2>2, <2>3
  <2> QED BY <1>2, <2>1, <2>4, <2>5
<1> QED BY <1>3, <1>4

LEMMA HdrSizeNat == \A type \in FileTypes : HdrSize(type) \in Nat \ {0}
  BY DEF HdrSize, FileTypes, FolderTypes, RecordTypes

\* The lengths of the parts of a file.
Lengths(lens, item) ==
  [i \in 1..Parts(item) |-> IF item.type \in RecordTypes THEN item.rcrd_size
                            ELSE lens[item.items[i]]]

LEMMA NeededNat ==
  \A n \in 0..Depth : \A item \in Items[n] : Needed[n][item] \in Nat
<1> DEFINE S == {n \in Nat : n \in 0..Depth =>
                   \A item \in Items[n] : Needed[n][item] \in Nat}
           Sub(n) == IF n = 0 THEN << >> ELSE Needed[n - 1]
<1>1. ASSUME NEW n \in 0..Depth, NEW item \in Items[n],
             \A i \in 1..Parts(item) : Sub(n)[item.items[i]] \in Nat
      PROVE  Needed[n][item] \in Nat
  <2>1. Needed[n][item] = Length(Sub(n), item)
    BY NeededIs DEF LengthLevel
  <2> HIDE DEF Sub
  <2>2. CASE item.type = "DATA"
    <3>1. item.size \in Nat \cup {Bad}
      BY ItemFacts
    <3> QED BY <2>1, <2>2, <3>1 DEF Length
  <2>3. CASE item.type # "DATA" /\ ~Unsized(item)
    <3>1. /\ item.type \in FileTypes
          /\ item.type \in RecordTypes => item.rcrd_size \in Nat
          /\ Parts(item) \in Nat
      BY <2>3, ItemFacts DEF Unsized
    <3>2. Lengths(Sub(n), item) \in Seq(Nat)
      BY <1>1, <3>1 DEF Lengths
    <3>3. Total(Lengths(Sub(n), item)) \in Nat
      BY <3>2, TotalNat
    <3>4. HdrSize(item.type) \in Nat
      BY <3>1, HdrSizeNat
    <3>5. Length(Sub(n), item)
          = HdrSize(item.type) + Total(Lengths(Sub(n), item))
      BY <2>3 DEF Length, Lengths
    <3> QED BY <2>1, <3>3, <3>4, <3>5
  <2>4. CASE item.type # "DATA" /\ Unsized(item)
    <3>1. item.type \in FileTypes
      BY <2>4, ItemFacts
    <3>2. HdrSize(item.type) \in Nat
      BY <3>1, HdrSizeNat
    <3>3. Length(Sub(n), item) = HdrSize(item.type)
      BY <2>4 DEF Length
    <3> QED BY <2>1, <3>2, <3>3
  <2> QED BY <2>2, <2>3, <2>4
<1>2. 0 \in S
  <2> SUFFICES ASSUME NEW item \in Items[0], 0 \in 0..Depth
               PROVE  Needed[0][item] \in Nat
    OBVIOUS
  <2>1. \A i \in 1..Parts(item) : 0 > 0
    BY ItemFacts
  <2> QED BY <1>1, <2>1
<1>3. ASSUME NEW n \in Nat, n \in S PROVE n + 1 \in S
  <2> SUFFICES ASSUME n + 1 \in 0..Depth, NEW item \in Items[n + 1]
               PROVE  Needed[n + 1][item] \in Nat
    OBVIOUS
  <2>1. n \in 0..Depth /\ (n + 1) - 1 = n /\ n + 1 # 0
    BY DiskJsAssumption
  <2>2. \A i \in 1..Parts(item) : item.items[i] \in Items[(n + 1) - 1]
    BY ItemFacts
  <2>3. Sub(n + 1) = Needed[n]
    BY <2>1
  <2> HIDE DEF Sub
  <2>4. \A i \in 1..Parts(item) : Sub(n + 1)[item.items[i]] \in Nat
    BY <1>3, <2>1, <2>2, <2>3
  <2> QED BY <1>1, <2>4
<1> HIDE DEF S
<1>4. \A n \in Nat : n \in S
  BY <1>2, <1>3, InductionOver
<1> QED BY <1>4, DiskJsAssumption DEF S

\* One part more.
LEMMA NextFacts ==
  ASSUME NEW sub, NEW item, NEW k, NEW room \in Nat, NEW t \in Nat,
         NEW len \in Nat, NEW measured, NEW done,
         Facts(done, t, room, measured),
         item.type \in RecordTypes => len = item.rcrd_size,
         \A prel \in Nat, left \in Nat :
           LET r == sub[<<item.items[k], prel, left>>]
           IN IF item.type \in RecordTypes
              THEN \E any \in Nat : Facts(r, any, left, measured)
              ELSE Facts(r, len, left, measured),
         HdrSize(item.type) \in Nat
  PROVE  Facts(NextPart(sub, item, room, done, k), t + len, room, measured)
<1>1. CASE done.ret # "SUCCESS"
  <2>1. NextPart(sub, item, room, done, k) = done
    BY <1>1 DEF NextPart
  <2>2. t > room => t + len > room
    OBVIOUS
  <2> QED BY <1>1, <2>1, <2>2 DEF Facts
<1>2. CASE done.ret = "SUCCESS"
  <2> DEFINE left == room - done.len
             prel == PartsOffset(item) + done.len
             r    == sub[<<item.items[k], prel, left>>]
             d    == done.len
  <2>1. /\ d \in Nat /\ d <= room /\ done.at \in AtsTo(d)
        /\ left \in Nat /\ prel \in Nat /\ left = room - d
        /\ measured => d = t
    BY <1>2 DEF Facts, PartsOffset
  <2> HIDE DEF left, prel, d
  <2>2. /\ r.ret \in {"SUCCESS", "ERROR", "BUFFER_TOO_SHORT"}
        /\ r.len \in Nat /\ r.at \in AtsTo(r.len)
        /\ item.type \notin RecordTypes => Facts(r, len, left, measured)
    BY <2>1 DEF Facts
  <2> HIDE DEF r
  <2>3. ASSUME NEW how \in {"ERROR", "BUFFER_TOO_SHORT"},
               how = "BUFFER_TOO_SHORT" /\ measured => t + len > room
        PROVE  Facts(Fails(how), t + len, room, measured)
    BY <2>3, NoneAt DEF Fails, Facts
  <2>4. ASSUME NEW n \in Nat, r.len <= n, n <= left, measured => n = len
        PROVE  Facts(Behind(done, n, r), t + len, room, measured)
    <3>1. Moved(r.at, d) \in AtsTo(d + r.len)
      BY <2>1, <2>2, MovedAt
    <3>2. Moved(r.at, d) \in AtsTo(d + n)
      BY <2>1, <2>2, <2>4, <3>1, WiderAt
    <3>3. done.at \in AtsTo(d + n)
      BY <2>1, WiderAt
    <3>4. Joined(done.at, Moved(r.at, d)) \in AtsTo(d + n)
      BY <2>1, <3>2, <3>3, MergedAt
    <3>5. Behind(done, n, r) = [ret |-> "SUCCESS", len |-> d + n,
                                at |-> Joined(done.at, Moved(r.at, d))]
      BY DEF Behind, Parsed, d
    <3>6. /\ d + n \in Nat /\ d + n <= room
          /\ measured => d + n = t + len
      BY <2>1, <2>4
    <3> HIDE DEF Facts
    <3> QED
      <4> DEFINE b == Behind(done, n, r)
      <4>1. b.ret = "SUCCESS" /\ b.len = d + n /\ b.at \in AtsTo(d + n)
        BY <3>4, <3>5
      <4> HIDE DEF b
      <4>2. Facts(b, t + len, room, measured)
        BY <3>6, <4>1 DEF Facts
      <4> QED BY <4>2 DEF b
  <2>5. CASE item.type \in RecordTypes
    <3>1. NextPart(sub, item, room, done, k) = AddRcrd(item, done, left, r)
      BY <1>2, <2>5 DEF NextPart, left, r, prel
    <3>2. len = item.rcrd_size
      BY <2>5
    <3>3. CASE ~RcrdFits(item, left)
      <4>1. len > left
        BY <2>1, <3>2, <3>3 DEF RcrdFits
      <4>2. measured => t + len > room
        BY <2>1, <4>1
      <4> QED BY <2>3, <3>1, <3>3, <4>2 DEF AddRcrd, TooShort
    <3>4. CASE RcrdFits(item, left)
              /\ (r.ret # "SUCCESS" \/ r.len > item.rcrd_size)
      BY <2>3, <3>1, <3>4 DEF AddRcrd
    <3>5. CASE RcrdFits(item, left)
              /\ ~(r.ret # "SUCCESS" \/ r.len > item.rcrd_size)
      <4>1. r.len <= len /\ len <= left
        BY <2>1, <2>2, <3>2, <3>5 DEF RcrdFits
      <4>2. Facts(Behind(done, len, r), t + len, room, measured)
        BY <2>4, <4>1
      <4> QED BY <3>1, <3>2, <3>5, <4>2 DEF AddRcrd
    <3> QED BY <3>3, <3>4, <3>5
  <2>6. CASE item.type \notin RecordTypes
    <3>1. NextPart(sub, item, room, done, k) = AddItem(done, r)
      BY <1>2, <2>6 DEF NextPart, left, r, prel
    <3>2. Facts(r, len, left, measured)
      BY <2>2, <2>6
    <3>3. CASE r.ret = "SUCCESS"
      <4>1. r.len \in Nat /\ r.len <= left /\ (measured => r.len = len)
        BY <3>2, <3>3 DEF Facts
      <4>2. Facts(Behind(done, r.len, r), t + len, room, measured)
        BY <2>4, <4>1
      <4> QED BY <3>1, <3>3, <4>2 DEF AddItem
    <3>4. CASE r.ret # "SUCCESS"
      <4>1. r.ret = "BUFFER_TOO_SHORT" /\ measured => len > left
        BY <3>2 DEF Facts
      <4>2. r.ret = "BUFFER_TOO_SHORT" /\ measured => t + len > room
        BY <2>1, <4>1
      <4>3. r.ret \in {"ERROR", "BUFFER_TOO_SHORT"}
        BY <2>2, <3>4
      <4> QED BY <2>3, <3>1, <3>4, <4>2, <4>3 DEF AddItem
    <3> QED BY <3>3, <3>4
  <2> QED BY <2>5, <2>6
<1>3. done.ret \in {"SUCCESS", "ERROR", "BUFFER_TOO_SHORT"}
  BY DEF Facts
<1> QED BY <1>1, <1>2

\* All parts of a file, one after the other.
LEMMA PartsFactsAll ==
  ASSUME NEW sub, NEW lens, NEW item, NEW room \in Nat, NEW measured,
         Parts(item) \in Nat,
         HdrSize(item.type) \in Nat, Lengths(lens, item) \in Seq(Nat),
         \A i \in 1..Parts(item), prel \in Nat, left \in Nat :
           LET r == sub[<<item.items[i], prel, left>>]
           IN /\ lens[item.items[i]] \in Nat
              /\ Facts(r, lens[item.items[i]], left, measured),
         NEW t, IsTotal(t, Lengths(lens, item), Parts(item)),
         NEW g, IsParts(g, sub, item, room, Parts(item))
  PROVE  \A k \in 0..Parts(item) :
           t[k] \in Nat /\ Facts(g[k], t[k], room, measured)
<1> DEFINE s == Lengths(lens, item)
           n == Parts(item)
<1>1. s \in Seq(Nat) /\ Len(s) = n /\ n \in Nat
  BY DEF Lengths
<1>4. /\ t[0] = 0 /\ \A k \in 0..n : t[k] \in Nat
      /\ \A k \in 1..n : t[k] = t[k - 1] + s[k]
  <2>1. IsTotal(t, s, n)
    OBVIOUS
  <2> HIDE DEF s, n
  <2> QED BY <1>1, <2>1, TotalGrows
<1>5. \A k \in 0..n : g[k] = IF k = 0 THEN Parsed(0, NoHeaders)
                              ELSE NextPart(sub, item, room, g[k - 1], k)
  BY DEF IsParts, PartsStep
<1> DEFINE S == {k \in Nat : k <= n => Facts(g[k], t[k], room, measured)}
<1>6. 0 \in S
  <2>1. g[0] = [ret |-> "SUCCESS", len |-> 0, at |-> NoHeaders]
    BY <1>1, <1>5 DEF Parsed
  <2>2. Facts(g[0], 0, room, measured)
    BY <2>1, NoneAt DEF Facts
  <2> QED BY <1>4, <2>2
<1>7. ASSUME NEW k \in Nat, k \in S PROVE k + 1 \in S
  <2> SUFFICES ASSUME k + 1 <= n
               PROVE  Facts(g[k + 1], t[k + 1], room, measured)
    OBVIOUS
  <2>1. k + 1 \in 1..n /\ k \in 0..n /\ Facts(g[k], t[k], room, measured)
    BY <1>1, <1>7
  <2>2. g[k + 1] = NextPart(sub, item, room, g[k], k + 1)
    BY <1>1, <1>5, <2>1
  <2>3. t[k + 1] = t[k] + s[k + 1] /\ t[k] \in Nat
    BY <1>1, <1>4, <2>1
  <2>4. /\ s[k + 1] \in Nat
        /\ s[k + 1] = IF item.type \in RecordTypes THEN item.rcrd_size
                      ELSE lens[item.items[k + 1]]
    BY <1>1, <2>1 DEF Lengths
  <2> HIDE DEF s, n, S
  <2>5. ASSUME NEW prel \in Nat, NEW left \in Nat
        PROVE  LET r == sub[<<item.items[k + 1], prel, left>>]
               IN IF item.type \in RecordTypes
                  THEN \E any \in Nat : Facts(r, any, left, measured)
                  ELSE Facts(r, s[k + 1], left, measured)
    BY <2>1, <2>4 DEF n
  <2>6. item.type \in RecordTypes => s[k + 1] = item.rcrd_size
    BY <2>4
  <2>7. Facts(NextPart(sub, item, room, g[k], k + 1), t[k] + s[k + 1],
               room, measured)
    BY <2>1, <2>3, <2>4, <2>5, <2>6, NextFacts
  <2> QED BY <2>2, <2>3, <2>7
<1> HIDE DEF S
<1>8. \A k \in Nat : k \in S
  BY <1>6, <1>7, InductionOver
<1> QED BY <1>1, <1>4, <1>8 DEF S

\* All parts of a file.
LEMMA PartsFacts ==
  ASSUME NEW sub, NEW lens, NEW item, NEW room \in Nat, NEW measured,
         Parts(item) \in Nat,
         HdrSize(item.type) \in Nat, Lengths(lens, item) \in Seq(Nat),
         \A i \in 1..Parts(item), prel \in Nat, left \in Nat :
           LET r == sub[<<item.items[i], prel, left>>]
           IN /\ lens[item.items[i]] \in Nat
              /\ Facts(r, lens[item.items[i]], left, measured)
  PROVE  Facts(PrsParts(sub, item, room), Total(Lengths(lens, item)),
               room, measured)
<1> DEFINE s == Lengths(lens, item)
           n == Parts(item)
<1>1. s \in Seq(Nat) /\ Len(s) = n /\ n \in Nat
  BY DEF Lengths
<1>2. PICK t : IsTotal(t, s, n) /\ Total(s) = t[n]
  <2> HIDE DEF s
  <2> QED BY <1>1, TotalIs
<1>3. PICK g : /\ IsParts(g, sub, item, room, n)
               /\ PrsParts(sub, item, room) = g[n]
  BY PartsIs
<1>4. \A k \in 0..n : t[k] \in Nat /\ Facts(g[k], t[k], room, measured)
  BY <1>2, <1>3, PartsFactsAll
<1>5. n \in 0..n
  BY <1>1
<1> HIDE DEF s, n
<1> QED BY <1>2, <1>3, <1>4, <1>5 DEF s, n

\* A file around its parts.
LEMMA FileFacts ==
  ASSUME NEW item, NEW prel \in Nat, NEW room \in Nat, NEW r, NEW need \in Nat,
         NEW measured, NEW h \in Nat \ {0}, h = HdrSize(item.type),
         item.type \in FileTypes, item.mark \in Nat,
         item.id \in Ids \cup {0}, item.sid \in Ids \cup {0},
         item.rcrd_size \in Nat \cup {Bad}, h <= room,
         Facts(r, need, room - h, measured)
  PROVE  Facts(IF r.ret # "SUCCESS" THEN r ELSE File(item, prel, r.len, r.at),
               h + need, room, measured)
<1>1. /\ r.len \in Nat /\ r.at \in AtsTo(r.len)
      /\ r.ret \in {"SUCCESS", "ERROR", "BUFFER_TOO_SHORT"}
      /\ r.ret = "SUCCESS" => r.len <= room - h /\ (measured => r.len = need)
      /\ r.ret = "BUFFER_TOO_SHORT" /\ measured => need > room - h
  BY DEF Facts
<1>2. CASE r.ret # "SUCCESS"
  <2>1. need > room - h => h + need > room
    OBVIOUS
  <2> QED BY <1>1, <1>2, <2>1 DEF Facts
<1>3. CASE r.ret = "SUCCESS"
  <2> DEFINE full == h + r.len
             hdr  == Header(item, prel, full)
             one  == [o \in {0} |-> hdr]
             at   == Joined(one, Moved(r.at, h))
  <2>1. full \in Nat \ {0}
    BY <1>1
  <2>2. hdr \in Headers
    BY <2>1 DEF Header, Headers
  <2>3. one \in AtsTo(full)
    <3>1. one \in [{0} -> Headers] /\ {0} \in SUBSET (0..(full - 1))
      BY <2>1, <2>2
    <3> HIDE DEF one, full
    <3> QED BY <3>1 DEF AtsTo
  <2>4. at \in AtsTo(full)
    <3>1. Moved(r.at, h) \in AtsTo(full)
      BY <1>1, MovedAt
    <3> HIDE DEF one, full
    <3> QED BY <2>1, <2>3, <3>1, MergedAt
  <2>5. File(item, prel, r.len, r.at) =
         [ret |-> "SUCCESS", len |-> full, at |-> at]
    BY DEF File, Parsed
  <2>6. full <= room /\ (measured => full = h + need)
    BY <1>1, <1>3
  <2> HIDE DEF full, at
  <2>7. Facts(File(item, prel, r.len, r.at), h + need, room, measured)
    <3> DEFINE f == File(item, prel, r.len, r.at)
    <3>1. f.ret = "SUCCESS" /\ f.len = full /\ f.at \in AtsTo(full)
      BY <2>4, <2>5
    <3> HIDE DEF f
    <3>2. Facts(f, h + need, room, measured)
      BY <2>1, <2>6, <3>1 DEF Facts
    <3> QED BY <3>2 DEF f
  <2> QED BY <1>3, <2>7
<1> QED BY <1>2, <1>3

LEMMA FailsFacts ==
  ASSUME NEW how \in {"ERROR", "BUFFER_TOO_SHORT"}, NEW need, NEW room,
         NEW measured,
         how = "BUFFER_TOO_SHORT" /\ measured => need > room
  PROVE  Facts(Fails(how), need, room, measured)
  BY NoneAt DEF Fails, Facts

LEMMA DataFacts ==
  ASSUME NEW n \in Nat \cup {Bad}, NEW room \in Nat, NEW measured
  PROVE  Facts(PrsData(n, room), IF n = Bad THEN 0 ELSE n, room, measured)
<1>1. CASE n = Bad
  BY <1>1, FailsFacts DEF PrsData
<1>2. CASE n # Bad /\ n > room
  BY <1>2, FailsFacts DEF PrsData, TooShort
<1>3. CASE n # Bad /\ ~(n > room)
  <2>1. n \in Nat /\ n <= room /\ NoHeaders \in AtsTo(n)
    BY <1>3, NoneAt
  <2> QED BY <1>3, <2>1 DEF PrsData, Parsed, Facts
<1> QED BY <1>1, <1>2, <1>3

\* One item, given what is known of those nested in it.
LEMMA DemuxFacts ==
  ASSUME NEW n \in 0..Depth, NEW item \in Items[n], NEW prel \in Nat,
         NEW room \in Nat, NEW sub, NEW lens, NEW measured,
         measured =>
           item.type = "DATA" \/ (item.name <= NameLen /\ ~Unsized(item)),
         item.type # "DATA" =>
           \A i \in 1..Parts(item), p \in Nat, left \in Nat :
             LET r == sub[<<item.items[i], p, left>>]
             IN /\ lens[item.items[i]] \in Nat
                /\ Facts(r, lens[item.items[i]], left, measured)
  PROVE  Facts(PrsDemux(sub, item, prel, room), Length(lens, item),
               room, measured)
<1>1. /\ item.type \in FileTypes \cup {"DATA"} /\ item.mark \in Nat
      /\ item.id \in Ids \cup {0, Bad} /\ item.sid \in Ids \cup {0, Bad}
      /\ item.name \in Nat \cup {Bad} /\ item.rcrd_size \in Nat \cup {Bad}
      /\ item.size \in Nat \cup {Bad} /\ Parts(item) \in Nat
  BY ItemFacts
<1>2. CASE item.type = "DATA"
  <2>1. item.type \notin FolderTypes
    BY <1>2 DEF FolderTypes
  <2>2. PrsDemux(sub, item, prel, room) = PrsData(item.size, room)
    BY <1>2, <2>1 DEF PrsDemux
  <2>3. Length(lens, item) = IF item.size = Bad THEN 0 ELSE item.size
    BY <1>2 DEF Length
  <2> QED BY <1>1, <2>2, <2>3, DataFacts
<1>3. CASE item.type # "DATA" /\ ~Unsized(item)
  <2> DEFINE h == HdrSize(item.type)
             need == Total(Lengths(lens, item))
             r == PrsParts(sub, item, room - h)
  <2>1. item.type \in FileTypes /\ h \in Nat \ {0}
    BY <1>1, <1>3, HdrSizeNat
  <2>2. Lengths(lens, item) \in Seq(Nat)
    <3>1. 0 \in Nat /\ \A i \in 1..Parts(item) : lens[item.items[i]] \in Nat
      BY <1>3
    <3>2. item.type \in RecordTypes => item.rcrd_size \in Nat
      BY <1>1, <1>3 DEF Unsized
    <3> QED BY <1>1, <3>1, <3>2 DEF Lengths
  <2>3. need \in Nat
    BY <2>2, TotalNat
  <2>4. Length(lens, item) = h + need
    BY <1>3 DEF Length, Lengths
  <2>5. h <= room => Facts(r, need, room - h, measured)
    <3> SUFFICES ASSUME h <= room PROVE Facts(r, need, room - h, measured)
      OBVIOUS
    <3>1. room - h \in Nat
      BY <2>1
    <3> QED BY <1>1, <1>3, <2>1, <2>2, <3>1, PartsFacts
  <2>6. ASSUME item.id \in Ids \cup {0}, item.sid \in Ids \cup {0}, h <= room
        PROVE  Facts(IF r.ret # "SUCCESS" THEN r
               ELSE File(item, prel, r.len, r.at),
                     h + need, room, measured)
    <3> HIDE DEF need, r
    <3> QED BY <1>1, <2>1, <2>3, <2>5, <2>6, FileFacts
  <2>7. Bad \notin {item.id, item.sid} =>
          item.id \in Ids \cup {0} /\ item.sid \in Ids \cup {0}
    BY <1>1
  <2>8. ASSUME h > room PROVE Facts(TooShort, h + need, room, measured)
    BY <2>1, <2>3, <2>8, FailsFacts DEF TooShort
  <2>9. Facts(Fails("ERROR"), h + need, room, measured)
    BY FailsFacts
  <2>10. CASE item.type \in FolderTypes
    <3> DEFINE name == PrsData(item.name, NameLen)
    <3>1. PrsDemux(sub, item, prel, room) = PrsFolder(sub, item, prel, room)
      BY <1>3, <2>10 DEF PrsDemux
    <3>2. PrsFolder(sub, item, prel, room) =
            IF room < h THEN TooShort
            ELSE IF name.ret # "SUCCESS" THEN Fails(name.ret)
            ELSE IF item.type = "ADF" /\ name.len < RidLen THEN Fails("ERROR")
            ELSE IF Bad \in {item.id, item.sid} THEN Fails("ERROR")
            ELSE IF r.ret # "SUCCESS" THEN r ELSE File(item, prel, r.len, r.at)
      BY DEF PrsFolder
    <3>3. /\ name.ret \in {"SUCCESS", "ERROR", "BUFFER_TOO_SHORT"}
          /\ name.ret = "BUFFER_TOO_SHORT" => ~measured
      BY <1>1, <1>3 DEF PrsData, Fails, Parsed, TooShort, NameLen, Bad
    <3>4. CASE room < h
      BY <2>1, <2>4, <2>8, <3>1, <3>2, <3>4
    <3>5. CASE ~(room < h) /\ name.ret # "SUCCESS"
      <4>1. Facts(Fails(name.ret), h + need, room, measured)
        BY <3>3, <3>5, FailsFacts
      <4> QED BY <2>4, <3>1, <3>2, <3>5, <4>1
    <3> HIDE DEF name, r, need, h
    <3>6. CASE ~(room < h) /\ name.ret = "SUCCESS"
      BY <2>1, <2>4, <2>6, <2>7, <2>9, <3>1, <3>2, <3>6
    <3> QED BY <3>4, <3>5, <3>6
  <2>11. CASE item.type \notin FolderTypes
    <3>1. PrsDemux(sub, item, prel, room) = PrsEf(sub, item, prel, room)
      BY <1>3, <2>11 DEF PrsDemux
    <3>2. PrsEf(sub, item, prel, room) =
            IF room - h < 0 THEN TooShort
            ELSE IF Bad \in {item.id, item.sid} THEN Fails("ERROR")
            ELSE IF item.type \in RecordTypes /\ item.rcrd_size > RcrdMax
                 THEN Fails("ERROR")
            ELSE IF r.ret # "SUCCESS" THEN r ELSE File(item, prel, r.len, r.at)
      BY <1>3 DEF PrsEf
    <3>3. room - h < 0 <=> h > room
      BY <2>1
    <3> HIDE DEF r, need, h
    <3> QED BY <2>1, <2>4, <2>6, <2>7, <2>8, <2>9, <3>1, <3>2, <3>3
  <2> QED BY <2>10, <2>11
<1>4. CASE Unsized(item)
  <2> DEFINE h == HdrSize(item.type)
             r == PrsUnsized(item, prel, room)
  <2>1. /\ item.type \in RecordTypes /\ item.type \in FileTypes
        /\ item.type \notin FolderTypes /\ item.type # "DATA"
    BY <1>4 DEF Unsized, RecordTypes, FolderTypes, FileTypes
  <2>2. h \in Nat \ {0} /\ ~measured
    BY <1>4, <2>1, HdrSizeNat
  <2>3. PrsDemux(sub, item, prel, room) =
          IF room - h < 0 THEN TooShort
          ELSE IF Bad \in {item.id, item.sid} THEN Fails("ERROR") ELSE r
    BY <1>4, <2>1 DEF PrsDemux, PrsEf
  <2>4. ASSUME h <= room, item.id \in Ids \cup {0}, item.sid \in Ids \cup {0}
        PROVE  Facts(r, Length(lens, item), room, measured)
    <3>1. Header(item, prel, 0) \in Headers
      BY <1>1, <2>1, <2>4 DEF Header, Headers
    <3>2. [o \in {0} |-> Header(item, prel, 0)] \in AtsTo(room)
      <4>1. {0} \in SUBSET (0..(room - 1))
        BY <2>2, <2>4
      <4>2. [o \in {0} |-> Header(item, prel, 0)] \in [{0} -> Headers]
        BY <3>1
      <4> QED BY <4>1, <4>2 DEF AtsTo
    <3>3. r.ret = "SUCCESS" /\ r.len = room /\ r.at \in AtsTo(room)
      BY <3>2, NoneAt DEF PrsUnsized, Parsed
    <3> HIDE DEF r
    <3> QED BY <2>2, <3>3 DEF Facts
  <2>5. /\ Facts(TooShort, Length(lens, item), room, measured)
        /\ Facts(Fails("ERROR"), Length(lens, item), room, measured)
    BY <2>2, FailsFacts DEF TooShort
  <2>6. Bad \notin {item.id, item.sid} =>
          item.id \in Ids \cup {0} /\ item.sid \in Ids \cup {0}
    BY <1>1
  <2>7. room - h < 0 \/ h <= room
    BY <2>2
  <2> HIDE DEF h, r
  <2> QED BY <2>3, <2>4, <2>5, <2>6, <2>7
<1> QED BY <1>2, <1>3, <1>4

\* What Prs returns for any item and any room.
LEMMA PrsFacts ==
  \A n \in 0..Depth : \A item \in Items[n], prel \in Nat, room \in Nat :
    Facts(Prs[n][<<item, prel, room>>], Needed[n][item], room,
          Measured[n][item])
<1> DEFINE S == {n \in Nat : n \in 0..Depth =>
                   \A item \in Items[n], prel \in Nat, room \in Nat :
                     Facts(Prs[n][<<item, prel, room>>], Needed[n][item], room,
                           Measured[n][item])}
           Sub(n)   == IF n = 0 THEN << >> ELSE Prs[n - 1]
           Lens(n)  == IF n = 0 THEN << >> ELSE Needed[n - 1]
           Names(n) == IF n = 0 THEN << >> ELSE Measured[n - 1]
<1>1. ASSUME NEW n \in 0..Depth, NEW item \in Items[n], NEW prel \in Nat,
             NEW room \in Nat,
             \A i \in 1..Parts(item), p \in Nat, left \in Nat :
               /\ Lens(n)[item.items[i]] \in Nat
               /\ Facts(Sub(n)[<<item.items[i], p, left>>],
                        Lens(n)[item.items[i]], left, Names(n)[item.items[i]])
      PROVE  Facts(Prs[n][<<item, prel, room>>], Needed[n][item], room,
                   Measured[n][item])
  <2> DEFINE measured == Measured[n][item]
  <2>1. Needed[n][item] = Length(Lens(n), item)
    BY NeededIs DEF LengthLevel
  <2>2. Measured[n][item] =
          (item.type = "DATA"
           \/ (/\ item.name <= NameLen
               /\ ~Unsized(item)
               /\ \A i \in 1..Parts(item) : Names(n)[item.items[i]]))
    <3>1. Measured[n] = MeasuredLevel(Names(n), n)
      BY MeasuredIs
    <3> HIDE DEF Names
    <3> QED BY <3>1 DEF MeasuredLevel
  <2>3. Prs[n][<<item, prel, room>>] = PrsDemux(Sub(n), item, prel, room)
    <3>1. Prs[n] = PrsLevel(Sub(n), n)
      BY PrsIs
    <3> HIDE DEF Sub
    <3>2. room \in Int /\ <<item, prel, room>> \in Items[n] \X Nat \X Int
      OBVIOUS
    <3> QED BY <3>1, <3>2 DEF PrsLevel
  <2> HIDE DEF Sub, Lens, Names
  <2>4. measured =>
          item.type = "DATA" \/ (item.name <= NameLen /\ ~Unsized(item))
    BY <2>2
  <2>5. ASSUME item.type # "DATA", NEW i \in 1..Parts(item),
               NEW p \in Nat, NEW left \in Nat
        PROVE  LET r == Sub(n)[<<item.items[i], p, left>>]
               IN /\ Lens(n)[item.items[i]] \in Nat
                  /\ Facts(r, Lens(n)[item.items[i]], left, measured)
    <3>1. measured => Names(n)[item.items[i]]
      BY <2>2, <2>5
    <3>2. /\ Lens(n)[item.items[i]] \in Nat
          /\ Facts(Sub(n)[<<item.items[i], p, left>>],
                   Lens(n)[item.items[i]], left, Names(n)[item.items[i]])
      BY <1>1
    <3> HIDE DEF measured
    <3> QED BY <3>1, <3>2 DEF Facts
  <2> HIDE DEF measured
  <2>6. Facts(PrsDemux(Sub(n), item, prel, room), Length(Lens(n), item),
               room, measured)
    BY <2>4, <2>5, DemuxFacts
  <2> QED BY <2>1, <2>3, <2>6 DEF measured
<1>2. 0 \in S
  <2> SUFFICES ASSUME 0 \in 0..Depth, NEW item \in Items[0], NEW prel \in Nat,
                      NEW room \in Nat
               PROVE  Facts(Prs[0][<<item, prel, room>>], Needed[0][item],
                      room,
                            Measured[0][item])
    OBVIOUS
  <2>1. \A i \in 1..Parts(item) : 0 > 0
    BY ItemFacts
  <2> QED BY <1>1, <2>1
<1>3. ASSUME NEW n \in Nat, n \in S PROVE n + 1 \in S
  <2> SUFFICES ASSUME n + 1 \in 0..Depth, NEW item \in Items[n + 1],
                      NEW prel \in Nat, NEW room \in Nat
               PROVE  Facts(Prs[n + 1][<<item, prel, room>>],
                            Needed[n + 1][item], room, Measured[n + 1][item])
    OBVIOUS
  <2>1. n \in 0..Depth /\ (n + 1) - 1 = n /\ n + 1 # 0
    BY DiskJsAssumption
  <2>2. \A i \in 1..Parts(item) : item.items[i] \in Items[(n + 1) - 1]
    BY ItemFacts
  <2>3. /\ Sub(n + 1) = Prs[n] /\ Lens(n + 1) = Needed[n]
        /\ Names(n + 1) = Measured[n]
    BY <2>1
  <2> HIDE DEF Sub, Lens, Names
  <2>4. ASSUME NEW i \in 1..Parts(item), NEW p \in Nat, NEW left \in Nat
        PROVE  /\ Lens(n + 1)[item.items[i]] \in Nat
               /\ Facts(Sub(n + 1)[<<item.items[i], p, left>>],
                        Lens(n + 1)[item.items[i]], left,
                        Names(n + 1)[item.items[i]])
    <3>1. item.items[i] \in Items[n]
      BY <2>1, <2>2
    <3>2. Needed[n][item.items[i]] \in Nat
      BY <2>1, <3>1, NeededNat
    <3>3. Facts(Prs[n][<<item.items[i], p, left>>], Needed[n][item.items[i]],
                left, Measured[n][item.items[i]])
      BY <1>3, <2>1, <3>1
    <3> QED BY <2>3, <3>2, <3>3
  <2> QED BY <1>1, <2>4
<1> HIDE DEF S
<1>4. \A n \in Nat : n \in S
  BY <1>2, <1>3, InductionOver
<1>5. \A n \in 0..Depth : n \in Nat /\ n \in S
  BY <1>4, DiskJsAssumption
<1> QED BY <1>5, Zenon DEF S

-----------------------------------------------------------------------------
(* Going through a tree.                                                   *)

\* Where a walk may be with k bytes to go.
Ahead(m, k) == {r \in Nat \X Nat : r[1] + k > m}

IsWithin(g, at, m, k) == g = [r \in Ahead(m, k) |-> FilesWithin(at, g, r)]

\* A walk only goes forward.
LEMMA WalkForward ==
  ASSUME NEW m \in Nat, NEW at \in AtsTo(m), NEW k \in Nat,
         NEW r \in Ahead(m, k + 1), r[1] \in DOMAIN at
  PROVE  /\ at[r[1]].size # 0
              => <<r[1] + at[r[1]].size, r[2]>> \in Ahead(m, k)
         /\ Inside(at, r[1]) \in Ahead(m, k)
<1> DEFINE o == r[1]
<1>1. PICK D \in SUBSET (0..(m - 1)) : at \in [D -> Headers]
  BY DEF AtsTo
<1>2. r \in Nat \X Nat /\ o + (k + 1) > m /\ o \in Nat /\ r[2] \in Nat
  BY DEF Ahead
<1>3. at[o].size \in Nat /\ at[o].type \in FileTypes
  BY <1>1 DEF Headers
<1>4. HdrSize(at[o].type) \in Nat \ {0}
  BY <1>3, HdrSizeNat
<1> DEFINE s == at[o].size
           h == HdrSize(at[o].type)
<1> HIDE DEF s, h, o
<1>5. /\ s # 0 => <<o + s, r[2]>> \in Ahead(m, k)
      /\ <<o + h, o + s>> \in Ahead(m, k)
  BY <1>2, <1>3, <1>4 DEF Ahead, s, h
<1> QED BY <1>5 DEF Inside, s, h, o

\* What a step of a walk looks at is further on.
LEMMA WithinDepends ==
  ASSUME NEW m \in Nat, NEW at \in AtsTo(m), NEW k \in Nat,
         NEW g, NEW h, \A r \in Ahead(m, k) : h[r] = g[r],
         NEW r \in Ahead(m, k + 1)
  PROVE  FilesWithin(at, g, r) = FilesWithin(at, h, r)
<1>1. CASE r[1] \in DOMAIN at /\ at[r[1]].size # 0
  <2> DEFINE a == <<r[1] + at[r[1]].size, r[2]>>
             b == Inside(at, r[1])
  <2>1. h[a] = g[a] /\ h[b] = g[b]
    BY <1>1, WalkForward
  <2> QED BY <1>1, <2>1 DEF FilesWithin
<1>2. CASE r[1] \notin DOMAIN at \/ at[r[1]].size = 0
  BY <1>2 DEF FilesWithin
<1> QED BY <1>1, <1>2

LEMMA WithinExists ==
  ASSUME NEW m \in Nat, NEW at \in AtsTo(m)
  PROVE  \A k \in Nat : \E g : IsWithin(g, at, m, k)
<1> DEFINE S == {k \in Nat : \E g : IsWithin(g, at, m, k)}
<1>1. 0 \in S
  <2> DEFINE g == [r \in Ahead(m, 0) |-> FilesWithin(at, << >>, r)]
  <2>1. \A r \in Ahead(m, 0) : r[1] \notin DOMAIN at
    BY DEF Ahead, AtsTo
  <2>2. \A r \in Ahead(m, 0) : FilesWithin(at, << >>, r)
           = FilesWithin(at, g, r)
    <3> HIDE DEF g
    <3> QED BY <2>1 DEF FilesWithin
  <2> HIDE DEF g
  <2>3. IsWithin(g, at, m, 0)
    BY <2>2 DEF g, IsWithin
  <2> QED BY <2>3
<1>2. ASSUME NEW k \in Nat, k \in S PROVE k + 1 \in S
  <2>1. PICK g : IsWithin(g, at, m, k)
    BY <1>2
  <2> DEFINE h == [r \in Ahead(m, k + 1) |-> FilesWithin(at, g, r)]
  <2>2. Ahead(m, k) \subseteq Ahead(m, k + 1)
    BY DEF Ahead
  <2>3. \A r \in Ahead(m, k) : h[r] = g[r]
    <3>1. \A r \in Ahead(m, k) : g[r] = FilesWithin(at, g, r)
      BY <2>1 DEF IsWithin
    <3> QED BY <2>2, <3>1
  <2> HIDE DEF h
  <2>4. \A r \in Ahead(m, k + 1) : FilesWithin(at, g, r)
           = FilesWithin(at, h, r)
    BY <2>3, WithinDepends
  <2>5. IsWithin(h, at, m, k + 1)
    BY <2>4 DEF h, IsWithin
  <2> QED BY <2>5
<1> HIDE DEF S
<1>3. \A k \in Nat : k \in S
  BY <1>1, <1>2, InductionOver
<1> QED BY <1>3 DEF S

LEMMA Concatenated ==
  ASSUME NEW D, NEW a \in Seq(D), NEW b \in Seq(D)
  PROVE  a \o b \in Seq(D)
  OBVIOUS

LEMMA WithinIs ==
  ASSUME NEW at, NEW within, NEW r
  PROVE  LET o    == r[1]
             rest == within[<<o + at[o].size, r[2]>>]
             sub  == within[Inside(at, o)]
             w    == FilesWithin(at, within, r)
         IN IF o >= r[2] \/ o \notin DOMAIN at \/ at[o].size = 0
            THEN w.files = << >>
            ELSE \/ w.files = <<o>> \o rest.files
                 \/ w.files = <<o>> \o <<o>> \o sub.files \o rest.files
<1> DEFINE o    == r[1]
           rest == within[<<o + at[o].size, r[2]>>]
           sub  == within[Inside(at, o)]
           w    == FilesWithin(at, within, r)
           x    == <<o>> \o rest.files
           y    == <<o>> \o <<o>> \o sub.files \o rest.files
<1>1. w = IF o >= r[2] THEN Walked("ok", << >>)
          ELSE IF o \notin DOMAIN at THEN Walked("error", << >>)
          ELSE IF at[o].size = 0 THEN Walked("never", << >>)
          ELSE IF at[o].type \notin FolderTypes THEN Walked(rest.end, x)
          ELSE Walked(IF sub.end = "ok" THEN rest.end ELSE sub.end, y)
  BY Zenon DEF FilesWithin
<1> HIDE DEF x, y, w, o
<1>2. CASE o >= r[2] \/ o \notin DOMAIN at \/ at[o].size = 0
  <2>1. w.files = << >>
    BY <1>1, <1>2 DEF Walked
  <2> QED BY <1>2, <2>1 DEF w, o
<1>3. CASE ~(o >= r[2] \/ o \notin DOMAIN at \/ at[o].size = 0)
  <2>1. w.files = x \/ w.files = y
    BY <1>1, <1>3 DEF Walked
  <2> QED BY <1>3, <2>1, Zenon DEF w, o, x, y
<1> QED BY <1>2, <1>3

\* A walk through the headers at.
IsWalk(W, at) ==
  /\ \A r \in Nat \X Nat : W[r] = FilesWithin(at, W, r)
  /\ \A r \in Nat \X Nat : W[r].files \in Seq(Nat)

\* The files of a walk have headers.
LEMMA ForeachIs ==
  ASSUME NEW m \in Nat, NEW at \in AtsTo(m), 0 \in DOMAIN at
  PROVE  \E W : /\ IsWalk(W, at)
                /\ Foreach(at).files = <<0>> \o W[Inside(at, 0)].files
                /\ Foreach(at).end = W[Inside(at, 0)].end
                /\ Foreach(at).files \in Seq(DOMAIN at)
<1> DEFINE W == CHOOSE f : f = [r \in Nat \X Nat |-> FilesWithin(at, f, r)]
<1>1. Ahead(m, m + 1) = Nat \X Nat
  BY DEF Ahead
<1>2. PICK g : IsWithin(g, at, m, m + 1)
  BY WithinExists
<1>3. W = [r \in Nat \X Nat |-> FilesWithin(at, W, r)]
  BY <1>1, <1>2 DEF IsWithin
<1>4. /\ Foreach(at).files = <<0>> \o W[Inside(at, 0)].files
      /\ Foreach(at).end = W[Inside(at, 0)].end
  BY DEF Foreach, Walked
<1> HIDE DEF W
<1> DEFINE D == DOMAIN at
           S == {k \in Nat : \A r \in Ahead(m, k) : W[r].files \in Seq(D)}
<1>5. \A k \in Nat : \A r \in Ahead(m, k) : W[r] = FilesWithin(at, W, r)
  BY <1>3 DEF Ahead
<1>6. 0 \in S
  <2>1. \A r \in Ahead(m, 0) : r[1] \notin DOMAIN at
    BY DEF Ahead, AtsTo
  <2>2. \A r \in Ahead(m, 0) : FilesWithin(at, W, r).files = << >>
    BY <2>1 DEF FilesWithin, Walked
  <2>3. << >> \in Seq(D)
    OBVIOUS
  <2> QED BY <1>5, <2>2, <2>3
<1>7. ASSUME NEW k \in Nat, k \in S PROVE k + 1 \in S
  <2> SUFFICES ASSUME NEW r \in Ahead(m, k + 1) PROVE W[r].files \in Seq(D)
    OBVIOUS
  <2>1. W[r] = FilesWithin(at, W, r)
    BY <1>5
  <2> DEFINE o    == r[1]
             rest == W[<<o + at[o].size, r[2]>>]
             sub  == W[Inside(at, o)]
  <2>2. CASE o >= r[2] \/ o \notin D \/ at[o].size = 0
    <3>1. W[r].files = << >>
      BY <2>1, <2>2, WithinIs
    <3> QED BY <3>1
  <2>3. CASE ~(o >= r[2] \/ o \notin D \/ at[o].size = 0)
    <3>1. rest.files \in Seq(D) /\ sub.files \in Seq(D)
      BY <1>7, <2>3, WalkForward
    <3>2. <<o>> \in Seq(D)
      BY <2>3
    <3>3. \/ W[r].files = <<o>> \o rest.files
          \/ W[r].files = <<o>> \o <<o>> \o sub.files \o rest.files
      BY <2>1, <2>3, WithinIs
    <3> DEFINE p == rest.files
               q == sub.files
               e == <<o>>
    <3> HIDE DEF p, q, e, D
    <3>4. e \o p \in Seq(D) /\ ((e \o e) \o q) \o p \in Seq(D)
      BY <3>1, <3>2, Concatenated DEF p, q, e
    <3> QED BY <3>3, <3>4 DEF p, q, e
  <2> QED BY <2>2, <2>3
<1> HIDE DEF S
<1>8. \A k \in Nat : k \in S
  BY <1>6, <1>7, InductionOver
<1>9. Inside(at, 0) \in Ahead(m, m + 1)
  <2>1. <<0, 0>> \in Ahead(m, (m + 1) + 1) /\ m + 1 \in Nat
    BY DEF Ahead
  <2>2. <<0, 0>>[1] = 0
    OBVIOUS
  <2> QED BY <2>1, <2>2, WalkForward
<1>10. \A r \in Nat \X Nat : W[r].files \in Seq(D)
  BY <1>1, <1>8 DEF S
<1>11. <<0>> \in Seq(D)
  OBVIOUS
<1>12. D \subseteq Nat
  <2>1. PICK E \in SUBSET (0..(m - 1)) : at \in [E -> Headers]
    BY DEF AtsTo
  <2> QED BY <2>1
<1> HIDE DEF D
<1>13. Foreach(at).files \in Seq(D)
  BY <1>1, <1>4, <1>9, <1>10, <1>11, Concatenated
<1>14. \A r \in Nat \X Nat : W[r].files \in Seq(Nat)
  <2> TAKE r \in Nat \X Nat
  <2> DEFINE f == W[r].files
  <2>1. f \in Seq(D)
    BY <1>10
  <2> HIDE DEF f
  <2>2. f \in Seq(Nat)
    BY <1>12, <2>1
  <2> QED BY <2>2 DEF f
<1>15. IsWalk(W, at)
  BY <1>3, <1>14 DEF IsWalk
<1> QED BY <1>4, <1>13, <1>15 DEF D

LEMMA WalkFiles ==
  ASSUME NEW m \in Nat, NEW t, t.at \in AtsTo(m), Walk(t).end = "ok"
  PROVE  Walk(t).files \in Seq(DOMAIN t.at)
<1>1. 0 \in DOMAIN t.at /\ Walk(t) = Foreach(t.at)
  BY DEF Walk, Walked
<1> QED BY <1>1, ForeachIs

\* Types, with the range of the search.
LutTypeOK ==
  /\ lut \in [max : Nat, ents : Seq(Entry)]
  /\ ins \in {Idle} \cup [busy : {TRUE}, e : Entry, start : Nat, end : Nat]

LutInv == LutTypeOK /\ LutSorted

-----------------------------------------------------------------------------
(* Putting an entry in its place.                                          *)

\* What the moves of lut_insert make of a table.
LEMMA PlacedEntries ==
  ASSUME NEW ents \in Seq(Entry), NEW at \in 0..Len(ents), NEW e \in Entry
  PROVE  /\ Placed(ents, at, e) \in Seq(Entry)
         /\ Len(Placed(ents, at, e)) = Len(ents) + 1
         /\ \A i \in 1..(Len(ents) + 1) :
              Placed(ents, at, e)[i] = IF i <= at THEN ents[i]
                                       ELSE IF i = at + 1 THEN e
                                       ELSE ents[i - 1]
<1> DEFINE n == Len(ents) + 1
<1>1. n \in Nat /\ DOMAIN ents = 1..Len(ents)
  OBVIOUS
<1>2. \A i \in 1..n : (IF i <= at THEN ents[i] ELSE IF i = at + 1 THEN e
                       ELSE ents[i - 1]) \in Entry
  OBVIOUS
<1>3. Placed(ents, at, e) \in [1..n -> Entry]
  BY <1>2 DEF Placed
<1>4. QED
  BY <1>1, <1>3 DEF Placed

\* Keys are numbers.
LEMMA KeysAreNat ==
  \A e \in Entry : e.key \in Nat /\ e.key \in Keys /\ e.val \in Vals
  BY LutAssumption DEF Entry

-----------------------------------------------------------------------------
(* The invariant.                                                          *)

LEMMA LutInitInv == LutInit => LutInv
<1> SUFFICES ASSUME LutInit PROVE LutInv
  OBVIOUS
<1>1. /\ lut.max \in Nat /\ lut.ents = << >>
      /\ lut = [max |-> LutStart, ents |-> << >>]
  BY LutAssumption DEF LutInit, EmptyLut
<1>2. Count(lut) = 0 /\ << >> \in Seq(Entry)
  BY <1>1 DEF Count
<1>3. LutTypeOK
  BY <1>1, <1>2 DEF LutTypeOK, LutInit
<1>4. ~ins.busy
  BY DEF LutInit, Idle
<1>5. LutSorted
  BY <1>1, <1>2, <1>4 DEF LutSorted
<1>6. QED
  BY <1>3, <1>5 DEF LutInv

LEMMA ClearInv == LutInv /\ LutClear => LutInv'
<1> SUFFICES ASSUME LutInv, LutClear PROVE LutInv'
  OBVIOUS
<1>1. /\ lut' = [max |-> LutStart, ents |-> << >>] /\ LutStart \in Nat
      /\ ins' = ins /\ ~ins.busy
  BY LutAssumption DEF LutClear, EmptyLut
<1>2. Count(lut') = 0 /\ << >> \in Seq(Entry)
  BY <1>1 DEF Count
<1>3. LutTypeOK'
  BY <1>1, <1>2 DEF LutTypeOK, LutInv
<1>4. LutSorted'
  BY <1>1, <1>2 DEF LutSorted
<1>5. QED
  BY <1>3, <1>4 DEF LutInv

\* The table has grown when it was full.
LEMMA InsertInv ==
  ASSUME NEW k \in Keys, NEW v \in Vals
  PROVE  LutInv /\ LutInsert(k, v) => LutInv'
<1> SUFFICES ASSUME LutInv, LutInsert(k, v) PROVE LutInv'
  OBVIOUS
<1> DEFINE e == [key |-> k, val |-> v]
<1>1. lut.max \in Nat /\ lut.ents \in Seq(Entry) /\ Count(lut) \in Nat
  BY DEF LutInv, LutTypeOK, Count
<1>2. Count(lut) <= lut.max
  BY DEF LutInv, LutSorted
<1>3. /\ lut'.ents = lut.ents /\ lut'.max \in Nat /\ Count(lut) < lut'.max
      /\ lut' \in [max : Nat, ents : Seq(Entry)]
  BY <1>1, <1>2, LutAssumption DEF LutInsert, Grown, LutInv, LutTypeOK
<1>4. /\ e \in Entry
      /\ ins' = [busy |-> TRUE, e |-> e, start |-> 0, end |-> Count(lut)]
  BY DEF LutInsert, Entry
<1>5. LutTypeOK'
  BY <1>1, <1>3, <1>4 DEF LutTypeOK
<1>6. Count(lut)' = Count(lut)
  BY <1>3 DEF Count
<1>7. \A i, j \in 1..Count(lut) : i < j => lut.ents[i].key <= lut.ents[j].key
  BY DEF LutInv, LutSorted
<1>8. LutSorted'
  BY <1>1, <1>3, <1>4, <1>6, <1>7 DEF LutSorted
<1>9. QED
  BY <1>5, <1>8 DEF LutInv

\* What holds while an entry is being inserted.
LEMMA Searching ==
  ASSUME LutInv, ins.busy
  PROVE  /\ ins.e \in Entry /\ ins.start \in Nat /\ ins.end \in Nat
         /\ ins \in [busy : {TRUE}, e : Entry, start : Nat, end : Nat]
         /\ lut.max \in Nat /\ lut.ents \in Seq(Entry)
         /\ Count(lut) \in Nat /\ Count(lut) = Len(lut.ents)
         /\ Count(lut) < lut.max
         /\ ins.start <= ins.end /\ ins.end <= Count(lut)
<1>1. ins # Idle
  BY DEF Idle
<1>2. ins \in [busy : {TRUE}, e : Entry, start : Nat, end : Nat]
  BY <1>1 DEF LutInv, LutTypeOK
<1>3. lut.max \in Nat /\ lut.ents \in Seq(Entry)
  BY DEF LutInv, LutTypeOK
<1>4. Count(lut) \in Nat /\ Count(lut) = Len(lut.ents)
  BY <1>3 DEF Count
<1>5. Count(lut) < lut.max /\ ins.start <= ins.end /\ ins.end <= Count(lut)
  BY DEF LutInv, LutSorted
<1>6. ins.e \in Entry /\ ins.start \in Nat /\ ins.end \in Nat
  BY <1>2
<1>7. QED
  BY <1>2, <1>3, <1>4, <1>5, <1>6

\* The middle is inside of the range, so that it gets shorter.
LEMMA ProbeInv == LutInv /\ LutProbe => LutInv'
<1> SUFFICES ASSUME LutInv, LutProbe PROVE LutInv'
  OBVIOUS
<1> DEFINE key == ins.e.key
<1>1. ins.busy /\ ins.start < ins.end /\ lut' = lut
  BY DEF LutProbe
<1>2. /\ ins.e \in Entry /\ ins.start \in Nat /\ ins.end \in Nat
      /\ ins \in [busy : {TRUE}, e : Entry, start : Nat, end : Nat]
      /\ lut.ents \in Seq(Entry)
      /\ Count(lut) \in Nat /\ Count(lut) = Len(lut.ents)
      /\ Count(lut) < lut.max /\ ins.end <= Count(lut)
  BY <1>1, Searching
<1>3. Mid \in Nat /\ ins.start <= Mid /\ Mid < ins.end
  BY <1>1, <1>2 DEF Mid
<1>4. \A i \in 1..Count(lut) : lut.ents[i].key \in Nat
  BY <1>2, KeysAreNat
<1>5. /\ \A i, j \in 1..Count(lut) : i < j =>
           lut.ents[i].key <= lut.ents[j].key
      /\ \A i \in 1..Count(lut) : i <= ins.start => lut.ents[i].key < key
      /\ \A i \in 1..Count(lut) : i > ins.end => lut.ents[i].key >= key
      /\ Count(lut) <= lut.max
  BY <1>1 DEF LutInv, LutSorted
<1>6. key \in Nat /\ Mid + 1 \in 1..Count(lut)
  BY <1>2, <1>3, KeysAreNat
<1>7. CASE lut.ents[Mid + 1].key < key
  <2>1. ins' = [busy |-> TRUE, e |-> ins.e, start |-> Mid + 1, end |-> ins.end]
    <3>1. ins' = [ins EXCEPT !.start = Mid + 1]
      BY <1>7 DEF LutProbe, GoesBehind
    <3>2. QED
      BY <1>2, <3>1
  <2>2. /\ ins' \in [busy : {TRUE}, e : Entry, start : Nat, end : Nat]
        /\ ins'.busy /\ ins'.e = ins.e /\ ins'.start = Mid + 1
        /\ ins'.end = ins.end
    BY <1>2, <1>3, <2>1
  <2>3. \A i \in 1..Count(lut) : i <= Mid + 1 => lut.ents[i].key < key
    BY <1>4, <1>5, <1>6, <1>7
  <2>4. LutTypeOK'
    BY <1>1, <2>2 DEF LutInv, LutTypeOK
  <2>5. LutSorted'
    BY <1>1, <1>2, <1>3, <1>5, <2>2, <2>3 DEF LutSorted
  <2>6. QED
    BY <2>4, <2>5 DEF LutInv
<1>8. CASE ~(lut.ents[Mid + 1].key < key)
  <2>1. ins' = [busy |-> TRUE, e |-> ins.e, start |-> ins.start, end |-> Mid]
    <3>1. ins' = [ins EXCEPT !.end = Mid]
      BY <1>8 DEF LutProbe, GoesBehind
    <3>2. QED
      BY <1>2, <3>1
  <2>2. /\ ins' \in [busy : {TRUE}, e : Entry, start : Nat, end : Nat]
        /\ ins'.busy /\ ins'.e = ins.e /\ ins'.start = ins.start
        /\ ins'.end = Mid
    BY <1>2, <1>3, <2>1
  <2>3. \A i \in 1..Count(lut) : i > Mid => lut.ents[i].key >= key
    BY <1>3, <1>4, <1>5, <1>6, <1>8
  <2>4. LutTypeOK'
    BY <1>1, <2>2 DEF LutInv, LutTypeOK
  <2>5. LutSorted'
    BY <1>1, <1>2, <1>3, <1>5, <2>2, <2>3 DEF LutSorted
  <2>6. QED
    BY <2>4, <2>5 DEF LutInv
<1>9. QED
  BY <1>7, <1>8

\* Where the new entry goes: the smaller keys are those before it.
LEMMA Place ==
  ASSUME LutInv, LutPlace
  PROVE  /\ ins.e \in Entry /\ ins.start \in 0..Len(lut.ents)
         /\ lut.ents \in Seq(Entry) /\ Len(lut.ents) < lut.max
         /\ lut.max \in Nat
         /\ \A i \in 1..Len(lut.ents) : lut.ents[i].key \in Nat
         /\ ins.e.key \in Nat
         /\ \A i \in 1..Len(lut.ents) :
              IF i <= ins.start THEN lut.ents[i].key < ins.e.key
              ELSE lut.ents[i].key >= ins.e.key
         /\ lut'.ents = Placed(lut.ents, ins.start, ins.e)
         /\ lut'.max = lut.max /\ ins' = Idle
         /\ lut' \in [max : Nat, ents : Seq(Entry)]
<1>1. ins.busy /\ ins.start >= ins.end
  BY DEF LutPlace
<1>2. /\ ins.e \in Entry /\ ins.start \in Nat /\ ins.end \in Nat
      /\ lut.max \in Nat /\ lut.ents \in Seq(Entry)
      /\ Count(lut) \in Nat /\ Count(lut) = Len(lut.ents)
      /\ Count(lut) < lut.max
      /\ ins.start <= ins.end /\ ins.end <= Count(lut)
  BY <1>1, Searching
<1>3. ins.start = ins.end /\ ins.start \in 0..Len(lut.ents)
  BY <1>1, <1>2
<1>4. Placed(lut.ents, ins.start, ins.e) \in Seq(Entry)
  BY <1>2, <1>3, PlacedEntries
<1>5. /\ lut' = [lut EXCEPT !.ents = Placed(lut.ents, ins.start, ins.e)]
      /\ ins' = Idle
  BY DEF LutPlace
<1>6. /\ lut'.ents = Placed(lut.ents, ins.start, ins.e) /\ lut'.max = lut.max
      /\ lut' \in [max : Nat, ents : Seq(Entry)]
  BY <1>4, <1>5 DEF LutInv, LutTypeOK
<1>7. \A i \in 1..Len(lut.ents) : lut.ents[i].key \in Nat
  BY <1>2, KeysAreNat
<1>8. ins.e.key \in Nat
  BY <1>2, KeysAreNat
<1>9. /\ \A i \in 1..Count(lut) : i <= ins.start => lut.ents[i].key < ins.e.key
      /\ \A i \in 1..Count(lut) : i > ins.end => lut.ents[i].key >= ins.e.key
  BY <1>1 DEF LutInv, LutSorted
<1>10. \A i \in 1..Len(lut.ents) :
         IF i <= ins.start THEN lut.ents[i].key < ins.e.key
         ELSE lut.ents[i].key >= ins.e.key
  BY <1>2, <1>3, <1>9
<1>11. QED
  BY <1>2, <1>3, <1>5, <1>6, <1>7, <1>8, <1>10

LEMMA PlaceInv == LutInv /\ LutPlace => LutInv'
<1> SUFFICES ASSUME LutInv, LutPlace PROVE LutInv'
  OBVIOUS
<1> DEFINE ents == lut.ents
           at   == ins.start
           e    == ins.e
           new  == lut'.ents
<1>1. /\ e \in Entry /\ at \in 0..Len(ents)
      /\ ents \in Seq(Entry) /\ Len(ents) < lut.max
      /\ lut.max \in Nat
      /\ \A i \in 1..Len(ents) : ents[i].key \in Nat
      /\ e.key \in Nat
      /\ \A i \in 1..Len(ents) : IF i <= at THEN ents[i].key < e.key
                                 ELSE ents[i].key >= e.key
      /\ lut'.ents = Placed(ents, at, e)
      /\ lut'.max = lut.max /\ ins' = Idle
      /\ lut' \in [max : Nat, ents : Seq(Entry)]
  BY Place
<1>2. /\ Len(new) = Len(ents) + 1
      /\ \A i \in 1..(Len(ents) + 1) :
           new[i] = IF i <= at THEN ents[i]
                    ELSE IF i = at + 1 THEN e ELSE ents[i - 1]
  <2>1. new = Placed(ents, at, e)
    BY <1>1
  <2>2. ents \in Seq(Entry) /\ at \in 0..Len(ents) /\ e \in Entry
    BY <1>1
  <2> HIDE DEF new, ents, at, e
  <2>3. /\ Len(Placed(ents, at, e)) = Len(ents) + 1
        /\ \A i \in 1..(Len(ents) + 1) :
             Placed(ents, at, e)[i] = IF i <= at THEN ents[i]
                                      ELSE IF i = at + 1 THEN e
                                      ELSE ents[i - 1]
    BY <2>2, PlacedEntries
  <2>4. QED
    BY <2>1, <2>3
<1>3. \A i, j \in 1..Len(ents) : i < j => ents[i].key <= ents[j].key
  BY DEF LutInv, LutSorted, Count
<1>4. ASSUME NEW i \in 1..Len(new), NEW j \in 1..Len(new), i < j
      PROVE  new[i].key <= new[j].key
  <2> HIDE DEF new, ents, e, at
  <2>1. CASE j <= at
    BY <1>1, <1>2, <1>3, <1>4, <2>1
  <2>2. CASE j = at + 1
    <3>1. new[i] = ents[i] /\ new[j] = e /\ i \in 1..Len(ents) /\ i <= at
      BY <1>1, <1>2, <1>4, <2>2
    <3>2. ents[i].key < e.key /\ ents[i].key \in Nat
      BY <1>1, <3>1
    <3>3. QED
      BY <1>1, <3>1, <3>2
  <2>3. CASE j > at + 1 /\ i <= at
    <3>1. /\ new[i] = ents[i] /\ new[j] = ents[j - 1]
          /\ i \in 1..Len(ents) /\ j - 1 \in 1..Len(ents) /\ i < j - 1
      BY <1>1, <1>2, <1>4, <2>3
    <3>2. QED
      BY <1>3, <3>1
  <2>4. CASE j > at + 1 /\ i = at + 1
    <3>1. /\ new[i] = e /\ new[j] = ents[j - 1]
          /\ j - 1 \in 1..Len(ents) /\ ~(j - 1 <= at)
      BY <1>1, <1>2, <1>4, <2>4
    <3>2. ents[j - 1].key >= e.key /\ ents[j - 1].key \in Nat
      BY <1>1, <3>1
    <3>3. QED
      BY <1>1, <3>1, <3>2
  <2>5. CASE j > at + 1 /\ i > at + 1
    <3>1. /\ new[i] = ents[i - 1] /\ new[j] = ents[j - 1]
          /\ i - 1 \in 1..Len(ents) /\ j - 1 \in 1..Len(ents) /\ i - 1 < j - 1
      BY <1>1, <1>2, <1>4, <2>5
    <3>2. QED
      BY <1>3, <3>1
  <2>6. QED
    BY <1>1, <2>1, <2>2, <2>3, <2>4, <2>5
<1>5. LutTypeOK'
  BY <1>1 DEF LutTypeOK
<1>6. ~ins'.busy
  BY <1>1 DEF Idle
<1>7. Count(lut)' = Len(new) /\ Len(new) <= lut'.max
  BY <1>1, <1>2 DEF Count
<1>8. LutSorted'
  BY <1>4, <1>6, <1>7 DEF LutSorted
<1>9. QED
  BY <1>5, <1>8 DEF LutInv

LEMMA LutStepInv == LutInv /\ [LutNext]_lutVars => LutInv'
<1> SUFFICES ASSUME LutInv, [LutNext]_lutVars PROVE LutInv'
  OBVIOUS
<1>1. CASE LutClear
  BY <1>1, ClearInv
<1>2. CASE \E k \in Keys, v \in Vals : LutInsert(k, v)
  BY <1>2, InsertInv
<1>3. CASE LutProbe
  BY <1>3, ProbeInv
<1>4. CASE LutPlace
  BY <1>4, PlaceInv
<1>5. CASE UNCHANGED lutVars
  BY <1>5 DEF lutVars, LutInv, LutTypeOK, LutSorted, Count
<1> QED BY <1>1, <1>2, <1>3, <1>4, <1>5 DEF LutNext

LEMMA LutInvInductive == LutSpec => []LutInv
  BY LutInitInv, LutStepInv, PTL DEF LutSpec

(***************************************************************************)
(* A lookup table is sorted, its count does not exceed what is allocated,  *)
(* and the search of lut_insert stays inside of it (lut_insert, disk.c).   *)
(***************************************************************************)
THEOREM LutStaysSorted == LutSpec => []LutSorted
<1>1. LutInv => LutSorted
  BY DEF LutInv
<1>2. QED
  BY <1>1, LutInvInductive, PTL

-----------------------------------------------------------------------------
(* What lookups find.                                                      *)

IsFirst(ents, key, f) ==
  /\ f \in 1..Len(ents) /\ ents[f].key = key
  /\ \A j \in 1..(f - 1) : ents[j].key # key

\* A key that is in the table is there for a first time.
LEMMA FirstExists ==
  ASSUME NEW ents \in Seq(Entry), NEW key,
         \E i \in 1..Len(ents) : ents[i].key = key
  PROVE  \E f : IsFirst(ents, key, f)
<1> DEFINE T == {i \in 1..Len(ents) : ents[i].key = key}
           R == OpToRel(<, Nat)
<1>1. T \subseteq Nat /\ T # {} /\ Len(ents) \in Nat
  OBVIOUS
<1>2. IsWellFoundedOn(R, Nat)
  BY NatLessThanWellFounded, Zenon
<1> HIDE DEF R
<1>3. PICK f \in T : \A y \in T : ~(<<y, f>> \in R)
  <2> HIDE DEF T
  <2>1. QED
    BY <1>1, <1>2, WFMin, Zenon
<1>4. \A y \in T : ~(y < f)
  BY <1>1, <1>3 DEF R, OpToRel
<1>5. IsFirst(ents, key, f)
  BY <1>1, <1>4 DEF IsFirst
<1>6. QED
  BY <1>5

\* A lookup finds the first one.
LEMMA LookupIsFirst ==
  ASSUME NEW l, l.ents \in Seq(Entry), NEW key, NEW f, IsFirst(l.ents, key, f)
  PROVE  LutLookup(l, key) = l.ents[f].val
<1> DEFINE g == FirstWith(l.ents, key)
<1>1. Len(l.ents) \in Nat /\ f \in 1..Len(l.ents) /\ l.ents[f].key = key
  BY DEF IsFirst
<1>2. g \in 1..Len(l.ents) /\ l.ents[g].key = key
      /\ \A j \in 1..(g - 1) : l.ents[j].key # key
  BY <1>1 DEF FirstWith, IsFirst
<1>3. g = f
  <2> HIDE DEF g
  <2>1. ~(g < f) /\ ~(f < g)
    BY <1>1, <1>2 DEF IsFirst
  <2>2. QED
    BY <1>1, <1>2, <2>1
<1>4. QED
  BY <1>1, <1>3 DEF LutLookup, Count

\* In an empty table nothing is found.
LEMMA NothingFound ==
  ASSUME NEW key
  PROVE  LutLookup(EmptyLut, key) = NoVal
  BY DEF LutLookup, EmptyLut, Count

\* A new entry hides those of its key, and no others.
LEMMA PlaceFound ==
  ASSUME LutInv, LutPlace, NEW k \in Keys
  PROVE  LutLookup(lut', k) = IF k = ins.e.key THEN ins.e.val
                              ELSE LutLookup(lut, k)
<1> DEFINE ents == lut.ents
           at   == ins.start
           e    == ins.e
           new  == lut'.ents
<1>1. /\ e \in Entry /\ at \in 0..Len(ents) /\ ents \in Seq(Entry)
      /\ new = Placed(ents, at, e)
      /\ \A i \in 1..Len(ents) : ents[i].key \in Nat
      /\ e.key \in Nat
      /\ \A i \in 1..Len(ents) : i <= at => ents[i].key < e.key
  BY Place
<1>2. k \in Nat
  BY LutAssumption
<1> HIDE DEF ents, at, e, new
<1>3. /\ new \in Seq(Entry) /\ Len(new) = Len(ents) + 1 /\ Len(ents) \in Nat
      /\ \A i \in 1..(Len(ents) + 1) :
           new[i] = IF i <= at THEN ents[i]
                    ELSE IF i = at + 1 THEN e ELSE ents[i - 1]
  <2>1. /\ Placed(ents, at, e) \in Seq(Entry)
        /\ Len(Placed(ents, at, e)) = Len(ents) + 1
        /\ \A i \in 1..(Len(ents) + 1) :
             Placed(ents, at, e)[i] = IF i <= at THEN ents[i]
                                      ELSE IF i = at + 1 THEN e
                                      ELSE ents[i - 1]
    <3>1. ents \in Seq(Entry) /\ at \in 0..Len(ents) /\ e \in Entry
      BY <1>1
    <3> QED BY ONLY <3>1, PlacedEntries
  <2>2. new = Placed(ents, at, e)
    BY <1>1
  <2>3. Len(ents) \in Nat
    BY <1>1
  <2> QED BY ONLY <2>1, <2>2, <2>3
<1>4. CASE k = e.key
  <2>1. at + 1 \in 1..Len(new) /\ new[at + 1] = e
    BY <1>1, <1>3
  <2>2. ASSUME NEW j \in 1..at PROVE new[j].key # k
    <3>1. new[j] = ents[j] /\ j \in 1..Len(ents) /\ j <= at
      BY <1>1, <1>3
    <3>2. ents[j].key < e.key /\ ents[j].key \in Nat
      BY <1>1, <3>1
    <3>3. QED
      BY <1>1, <1>4, <3>1, <3>2
  <2>3. IsFirst(new, k, at + 1)
    BY <1>1, <1>4, <2>1, <2>2 DEF IsFirst
  <2>4. LutLookup(lut', k) = new[at + 1].val
    BY <1>3, <2>3, LookupIsFirst DEF new
  <2>5. QED
    BY <1>4, <2>1, <2>4 DEF e
<1>5. CASE k # e.key /\ \E i \in 1..Len(ents) : ents[i].key = k
  <2>1. PICK f : IsFirst(ents, k, f)
    BY <1>1, <1>5, FirstExists
  <2>2. /\ f \in 1..Len(ents) /\ ents[f].key = k
        /\ \A j \in 1..(f - 1) : ents[j].key # k
    BY <2>1 DEF IsFirst
  <2> DEFINE g == IF f <= at THEN f ELSE f + 1
  <2>3. g \in 1..Len(new) /\ new[g] = ents[f]
    BY <1>1, <1>3, <2>2
  <2>4. ASSUME NEW j \in 1..(g - 1) PROVE new[j].key # k
    <3>1. CASE j <= at
      <4>1. new[j] = ents[j] /\ j \in 1..(f - 1)
        BY <1>1, <1>3, <2>2, <3>1
      <4>2. QED
        BY <2>2, <4>1
    <3>2. CASE j = at + 1
      <4>1. new[j] = e
        BY <1>1, <1>3, <2>2, <3>2
      <4>2. QED
        BY <1>5, <4>1
    <3>3. CASE j > at + 1
      <4>1. new[j] = ents[j - 1] /\ j - 1 \in 1..(f - 1)
        BY <1>1, <1>3, <2>2, <3>3
      <4>2. QED
        BY <2>2, <4>1
    <3>4. QED
      BY <1>1, <2>2, <3>1, <3>2, <3>3
  <2>5. IsFirst(new, k, g)
    <3> HIDE DEF g
    <3>1. QED
      BY <2>2, <2>3, <2>4 DEF IsFirst
  <2>6. LutLookup(lut', k) = new[g].val
    <3> HIDE DEF g
    <3>1. QED
      BY <1>3, <2>5, LookupIsFirst DEF new
  <2>7. LutLookup(lut, k) = ents[f].val
    BY <1>1, <2>1, LookupIsFirst DEF ents
  <2>8. QED
    BY <1>5, <2>3, <2>6, <2>7 DEF e
<1>6. CASE k # e.key /\ ~\E i \in 1..Len(ents) : ents[i].key = k
  <2>1. ASSUME NEW i \in 1..Len(new) PROVE new[i].key # k
    <3>1. CASE i <= at
      BY <1>1, <1>3, <1>6, <3>1
    <3>2. CASE i = at + 1
      <4>1. new[i] = e
        BY <1>1, <1>3, <3>2
      <4>2. QED
        BY <1>6, <4>1
    <3>3. CASE i > at + 1
      <4>1. new[i] = ents[i - 1] /\ i - 1 \in 1..Len(ents)
        BY <1>1, <1>3, <3>3
      <4>2. QED
        BY <1>6, <4>1
    <3>4. QED
      BY <1>1, <3>1, <3>2, <3>3
  <2>2. LutLookup(lut', k) = NoVal
    BY <2>1 DEF LutLookup, Count, new
  <2>3. LutLookup(lut, k) = NoVal
    BY <1>6 DEF LutLookup, Count, ents
  <2>4. QED
    BY <1>6, <2>2, <2>3 DEF e
<1>7. QED
  BY <1>4, <1>5, <1>6

\* What the steps of a table are to the map.
LEMMA LutStepPuts ==
  LutInv /\ [LutNext]_lutVars => [Dict!DictNext]_(Dict!dictVars)
<1> DEFINE dict    == [k \in Keys |-> LutLookup(lut, k)]
           putting == IF ins.busy THEN {ins.e} ELSE {}
<1> SUFFICES ASSUME LutInv, [LutNext]_lutVars
             PROVE  Dict!DictNext \/ (dict' = dict /\ putting' = putting)
  BY DEF Dict!dictVars
<1>1. CASE LutClear
  <2>1. dict' = [k \in Keys |-> NoVal]
    BY <1>1, NothingFound DEF LutClear
  <2>2. putting' = {}
    BY <1>1 DEF LutClear
  <2>3. QED
    BY <2>1, <2>2 DEF Dict!DictNext, Dict!Clear, Dict!Empty
<1>2. ASSUME NEW k \in Keys, NEW v \in Vals, LutInsert(k, v)
      PROVE  Dict!DictNext
  <2>1. lut'.ents = lut.ents
    BY <1>2 DEF LutInsert, Grown, LutInv, LutTypeOK
  <2>2. \A c \in Keys : LutLookup(lut', c) = LutLookup(lut, c)
    BY <2>1 DEF LutLookup, Count
  <2>3. dict' = dict
    BY <2>2
  <2>4. putting = {} /\ putting' = {[key |-> k, val |-> v]}
    BY <1>2 DEF LutInsert
  <2>5. Dict!Put([key |-> k, val |-> v])
    BY <2>3, <2>4 DEF Dict!Put
  <2>6. QED
    BY <2>4, <2>5 DEF Dict!DictNext
<1>3. CASE LutProbe
  <2>1. lut' = lut /\ ins.busy /\ ins'.busy /\ ins'.e = ins.e
    BY <1>3 DEF LutProbe, LutInv, LutTypeOK
  <2>2. QED
    BY <2>1
<1>4. CASE LutPlace
  <2> DEFINE e == ins.e
  <2>1. e.key \in Keys /\ e.val \in Vals
    BY <1>4, Place, KeysAreNat
  <2>2. \A k \in Keys : dict'[k] = IF k = e.key THEN e.val ELSE dict[k]
    BY <1>4, PlaceFound
  <2>3. dict' = [dict EXCEPT ![e.key] = e.val]
    <3> DEFINE d2 == dict'
    <3>1. d2 = [k \in Keys |-> d2[k]]
      OBVIOUS
    <3>2. dict = [k \in Keys |-> dict[k]]
      OBVIOUS
    <3>3. \A k \in Keys : d2[k] = IF k = e.key THEN e.val ELSE dict[k]
      BY <2>2
    <3> HIDE DEF d2, dict, e
    <3>4. d2 = [dict EXCEPT ![e.key] = e.val]
      BY <2>1, <3>1, <3>2, <3>3
    <3>5. QED
      BY <3>4 DEF d2
  <2>4. e \in putting /\ putting' = {}
    BY <1>4 DEF LutPlace, Idle
  <2>5. Dict!HasPut(e)
    BY <2>3, <2>4 DEF Dict!HasPut
  <2>6. QED
    BY <2>4, <2>5 DEF Dict!DictNext
<1>5. CASE UNCHANGED lutVars
  BY <1>5 DEF lutVars
<1>6. QED
  BY <1>1, <1>2, <1>3, <1>4, <1>5 DEF LutNext

LEMMA LutInitIsEmpty == LutInit => Dict!DictInit
  BY NothingFound DEF LutInit, Idle, Dict!DictInit, Dict!Empty

(***************************************************************************)
(* A lookup finds the file that was put in last for its ID: a table        *)
(* implements LatestByKey (lut_insert, lutid_lookup, disk.c).              *)
(***************************************************************************)
THEOREM LutIsDict == LutSpec => IsDict
  BY LutInitIsEmpty, LutStepPuts, LutInvInductive, PTL
  DEF LutSpec, IsDict, Dict!DictSpec

-----------------------------------------------------------------------------
(* The disk.                                                               *)

Tables == [max : Nat \ {0}, ents : Seq(Entry)]
Trees  == [at : AtsTo(SizeMax), len : 0..SizeMax, size : Nat,
           lutsid : {NoLut} \cup Tables]
SavedTrees == [at : AtsTo(SizeMax), len : 0..SizeMax]

\* A tree whose SIDs are indexed.
Done(t) == t.lutsid # NoLut /\ Walk(t).end = "ok"

DiskTypeOK ==
  /\ js \in Seq(Items[Depth])
  /\ file.exists => file.trees \in Seq(SavedTrees)
  /\ root \in Seq(Trees) /\ lutid \in {NoLut} \cup Tables
  /\ pc \in {"idle", "parse", "sid", "sid_fill", "id", "id_fill"}
  /\ size \in SizeStart..SizeMax /\ tree \in Nat
  /\ LutInv /\ lut.max # 0

\* How far a call has got.
Indexed(n) == \A t \in 1..n : Done(root[t])

Stage ==
  /\ pc = "idle" => UsableOrAbsent
  /\ pc # "idle" => lutid = NoLut /\ call \in {"create", "load"}
  /\ pc = "parse" =>
       call = "create" /\ tree = Len(root) + 1 /\ tree <= Len(js)
       /\ Indexed(Len(root))
  /\ pc \in {"sid", "sid_fill"} =>
       /\ tree \in 1..Len(root) /\ Indexed(tree - 1)
       /\ call = "create" => tree = Len(root)
  /\ pc = "sid_fill" => Walk(root[tree]).end = "ok"
  /\ pc \in {"id", "id_fill"} => Indexed(Len(root))
  /\ pc = "id_fill" => tree \in 1..Len(root)
  /\ pc \in {"sid_fill", "id_fill"} => todo \in Seq(DOMAIN root[tree].at)

DiskInv == DiskTypeOK /\ Stage

\* A table with entries, or room for some, is one.
LEMMA TableIsOne ==
  /\ NoLut \notin Tables
  /\ LutInv /\ lut.max # 0 => lut \in Tables
<1>1. NoLut.max = 0
  BY DEF NoLut
<1>2. NoLut \notin Tables
  BY <1>1 DEF Tables
<1>3. LutInv /\ lut.max # 0 => lut \in Tables
  <2> SUFFICES ASSUME LutInv, lut.max # 0 PROVE lut \in Tables
    OBVIOUS
  <2>1. lut \in [max : Nat, ents : Seq(Entry)]
    BY DEF LutInv, LutTypeOK
  <2> QED BY <2>1 DEF Tables
<1> QED BY <1>2, <1>3

\* The calls that make no step of a table, and those that throw it away.
LEMMA LutReset ==
  ASSUME lut' = EmptyLut, ins' = Idle
  PROVE  LutInv' /\ lut'.max # 0
<1>1. LutInit'
  BY DEF LutInit
<1>2. LutInit => LutInv
  BY LutInitInv
<1>3. LutInv'
  <2>1. /\ lut'.max = LutStart /\ lut'.ents = << >>
        /\ lut' \in [max : Nat, ents : Seq(Entry)]
    BY LutAssumption DEF EmptyLut
  <2>2. LutTypeOK'
    BY <2>1 DEF LutTypeOK
  <2>3. Count(lut') = 0 /\ ~ins'.busy /\ LutStart \in Nat
    BY <2>1, LutAssumption DEF Count, Idle
  <2>4. LutSorted'
    BY <2>1, <2>3 DEF LutSorted
  <2> QED BY <2>2, <2>4 DEF LutInv
<1>4. lut'.max # 0
  BY LutAssumption, DiskAssumption DEF EmptyLut
<1> QED BY <1>3, <1>4

LEMMA LutKept ==
  ASSUME DiskTypeOK, LutsUnmoved
  PROVE  LutInv' /\ lut'.max # 0
<1>1. LutInv /\ [LutNext]_lutVars => LutInv'
  BY LutStepInv
<1> QED BY <1>1 DEF LutsUnmoved, lutVars, DiskTypeOK

LEMMA Bounds ==
  /\ SizeStart \in Nat /\ SizeResize \in Nat /\ SizeMax \in Nat
  /\ SizeStart <= SizeMax /\ SizeStart \in SizeStart..SizeMax
  BY DiskAssumption

LEMMA DiskInitInv == DiskInit => DiskInv
<1> SUFFICES ASSUME DiskInit PROVE DiskInv
  OBVIOUS
<1>1. js \in Seq(Items[Depth]) /\ root = << >> /\ lutid = NoLut /\ pc = "idle"
      /\ call = "none" /\ size = SizeStart /\ tree = 1 /\ ~file.exists
  BY DiskAssumption DEF DiskInit, NoFile
<1>2. LutInv /\ lut.max # 0
  BY LutInitInv, LutAssumption, DiskAssumption DEF DiskInit, LutInit, EmptyLut
<1>3. DiskTypeOK
  BY <1>1, <1>2, Bounds DEF DiskTypeOK
<1>4. Stage
  BY <1>1 DEF Stage, UsableOrAbsent
<1> QED BY <1>3, <1>4 DEF DiskInv

\* Nothing is there any more.
LEMMA AbsentStage ==
  ASSUME root' = << >>, lutid' = NoLut, pc' = "idle",
         call' \notin {"create", "load"} \/ ret' # "SUCCESS"
  PROVE  Stage'
  BY DEF Stage, UsableOrAbsent

LEMMA MemoryLostInv == 
  ASSUME DiskInv, MemoryLost, js' = js,
         file'.exists => file'.trees \in Seq(SavedTrees)
  PROVE  DiskInv'
<1>1. LutInv' /\ lut'.max # 0
  BY LutReset DEF MemoryLost
<1>2. Stage'
  BY AbsentStage DEF MemoryLost
<1>3. << >> \in Seq(Trees)
  OBVIOUS
<1>4. DiskTypeOK'
  BY <1>1, <1>3, Bounds DEF DiskTypeOK, DiskInv, MemoryLost
<1> QED BY <1>2, <1>4 DEF DiskInv

LEMMA FailInv ==
  ASSUME DiskInv, Fail, UNCHANGED <<js, file, size>>, LutsUnmoved, tree' = tree
  PROVE  DiskInv'
<1>1. /\ root' = << >> /\ lutid' = NoLut /\ pc' = "idle" /\ ret' = "ERROR"
  BY DEF Fail, Return, RootEmptied
<1>2. LutInv' /\ lut'.max # 0
  BY LutKept DEF DiskInv
<1>3. Stage'
  BY <1>1, AbsentStage
<1>4. << >> \in Seq(Trees)
  OBVIOUS
<1>5. DiskTypeOK'
  BY <1>1, <1>2, <1>4 DEF DiskTypeOK, DiskInv
<1> QED BY <1>3, <1>5 DEF DiskInv

\* A disk that is there, or is not, when a call is over.
LEMMA IdleStage ==
  ASSUME pc' = "idle", UsableOrAbsent'
  PROVE  Stage'
  BY DEF Stage

LEMMA CreateStartInv == DiskInv /\ CreateStart => DiskInv'
<1> SUFFICES ASSUME DiskInv, CreateStart PROVE DiskInv'
  OBVIOUS
<1>1. /\ pc = "idle" /\ call' = "create" /\ UNCHANGED <<js, file>>
      /\ UsableOrAbsent
  BY DEF CreateStart, DiskInv, Stage
<1>2. LutInv' /\ lut'.max # 0
  BY LutKept DEF CreateStart, DiskInv
<1>3. CASE root # << >> \/ lutid # NoLut
  <2>1. ret' = "ERROR" /\ pc' = "idle" /\ UNCHANGED <<root, lutid, size, tree>>
    BY <1>3 DEF CreateStart, FailKeepingRoot, Return
  <2>2. UsableOrAbsent'
    BY <1>1, <2>1 DEF UsableOrAbsent
  <2>3. DiskTypeOK'
    BY <1>1, <1>2, <2>1 DEF DiskTypeOK, DiskInv
  <2> QED BY <2>1, <2>2, <2>3, IdleStage DEF DiskInv
<1>4. CASE ~(root # << >> \/ lutid # NoLut)
  <2>1. /\ pc' = (IF js = << >> THEN "id" ELSE "parse")
        /\ size' = SizeStart /\ tree' = 1 /\ UNCHANGED <<root, lutid, todo>>
    BY <1>4 DEF CreateStart
  <2>2. Len(root) = 0 /\ js \in Seq(Items[Depth])
    BY <1>4 DEF DiskInv, DiskTypeOK
  <2>3. js # << >> => 1 <= Len(js)
    BY <2>2
  <2>4. Indexed(Len(root))'
    BY <1>4, <2>1, <2>2 DEF Indexed
  <2>5. Stage'
    BY <1>1, <1>4, <2>1, <2>2, <2>3, <2>4 DEF Stage
  <2>6. DiskTypeOK'
    BY <1>1, <1>2, <2>1, Bounds DEF DiskTypeOK, DiskInv
  <2> QED BY <2>5, <2>6 DEF DiskInv
<1> QED BY <1>3, <1>4

\* What an attempt to parse a tree comes to.
LEMMA AttemptFacts ==
  ASSUME DiskInv, pc = "parse"
  PROVE  /\ js[tree] \in Items[Depth] /\ Depth \in 0..Depth
         /\ Facts(Attempt, Needed[Depth][js[tree]], size,
                  Measured[Depth][js[tree]])
         /\ size \in Nat
<1>1. js \in Seq(Items[Depth]) /\ tree \in 1..Len(js) /\ Len(root) \in Nat
  BY DEF DiskInv, DiskTypeOK, Stage
<1>2. size \in Nat /\ Depth \in 0..Depth
  BY Bounds, DiskJsAssumption DEF DiskInv, DiskTypeOK
<1>3. js[tree] \in Items[Depth]
  BY <1>1
<1> QED BY <1>2, <1>3, PrsFacts DEF Attempt

LEMMA ParseSuccessInv == DiskInv /\ ParseSuccess => DiskInv'
<1> SUFFICES ASSUME DiskInv, ParseSuccess PROVE DiskInv'
  OBVIOUS
<1> DEFINE t == Tree(Attempt.at, Attempt.len, size)
<1>1. /\ pc = "parse" /\ Attempt.ret = "SUCCESS" /\ root' = Append(root, t)
      /\ pc' = "sid" /\ LutsUnmoved
      /\ UNCHANGED <<js, file, lutid, call, ret, size, tree, todo>>
  BY DEF ParseSuccess
<1>2. /\ Attempt.at \in AtsTo(SizeMax) /\ Attempt.len \in 0..SizeMax
      /\ size \in Nat
  <2>1. /\ Attempt.len \in Nat /\ Attempt.at \in AtsTo(Attempt.len)
        /\ Attempt.len <= size /\ size \in Nat
    BY <1>1, AttemptFacts DEF Facts
  <2>2. size <= SizeMax
    BY Bounds DEF DiskInv, DiskTypeOK
  <2> HIDE DEF Attempt
  <2>3. Attempt.len <= SizeMax /\ SizeMax \in Nat
    BY <2>1, <2>2, Bounds
  <2> QED BY <2>1, <2>3, WiderAt
<1>3. t \in Trees
  BY <1>2 DEF Tree, Trees
<1> HIDE DEF t
<1>4. /\ root \in Seq(Trees) /\ lutid = NoLut /\ call \in {"create", "load"}
      /\ call = "create" /\ tree = Len(root) + 1 /\ tree <= Len(js)
      /\ Indexed(Len(root))
  BY <1>1 DEF DiskInv, DiskTypeOK, Stage
<1>5. /\ root' \in Seq(Trees) /\ Len(root') = Len(root) + 1
      /\ Len(root) \in Nat
      /\ \A u \in 1..Len(root) : root'[u] = root[u]
  BY <1>1, <1>3, <1>4
<1>6. Indexed(tree - 1)'
  BY <1>1, <1>4, <1>5 DEF Indexed
<1>7. Stage'
  BY <1>1, <1>4, <1>5, <1>6 DEF Stage
<1>8. LutInv' /\ lut'.max # 0
  BY <1>1, LutKept DEF DiskInv
<1>9. DiskTypeOK'
  BY <1>1, <1>5, <1>8 DEF DiskTypeOK, DiskInv
<1> QED BY <1>7, <1>9 DEF DiskInv

LEMMA GrowInv == DiskInv /\ Grow => DiskInv'
<1> SUFFICES ASSUME DiskInv, Grow PROVE DiskInv'
  OBVIOUS
<1>1. /\ pc = "parse" /\ size + SizeResize <= SizeMax /\ LutsUnmoved
      /\ size' = size + SizeResize
      /\ UNCHANGED <<js, file, root, lutid, pc, call, ret, tree, todo>>
  BY DEF Grow
<1>2. size' \in SizeStart..SizeMax
  BY <1>1, Bounds DEF DiskInv, DiskTypeOK
<1>3. LutInv' /\ lut'.max # 0
  BY <1>1, LutKept DEF DiskInv
<1>4. DiskTypeOK'
  BY <1>1, <1>2, <1>3 DEF DiskTypeOK, DiskInv
<1>5. Stage'
  BY <1>1 DEF Stage, DiskInv, Indexed
<1> QED BY <1>4, <1>5 DEF DiskInv

LEMMA StartSidTableInv == DiskInv /\ StartSidTable => DiskInv'
<1> SUFFICES ASSUME DiskInv, StartSidTable PROVE DiskInv'
  OBVIOUS
<1>1. pc = "sid" /\ UNCHANGED <<js, file, call, size, tree>>
  BY DEF StartSidTable
<1>2. CASE Walk(root[tree]).end # "ok"
  <2>1. Fail /\ LutsUnmoved
    BY <1>2 DEF StartSidTable
  <2> QED BY <1>1, <2>1, FailInv
<1>3. CASE Walk(root[tree]).end = "ok"
  <2>1. /\ LutClear /\ pc' = "sid_fill" /\ todo' = Walk(root[tree]).files
        /\ UNCHANGED <<root, lutid, ret>>
    BY <1>3 DEF StartSidTable
  <2>2. root \in Seq(Trees) /\ tree \in 1..Len(root)
    BY <1>1 DEF DiskInv, DiskTypeOK, Stage
  <2>3. root[tree].at \in AtsTo(SizeMax)
    <3>1. root[tree] \in Trees
      BY <2>2
    <3> QED BY <3>1 DEF Trees
  <2>4. todo' \in Seq(DOMAIN root[tree].at)
    BY <1>3, <2>1, <2>3, Bounds, WalkFiles
  <2>5. LutInv' /\ lut'.max # 0
    BY <2>1, LutReset, ClearInv, LutAssumption, DiskAssumption
    DEF LutClear, DiskInv, DiskTypeOK, EmptyLut
  <2>6. DiskTypeOK'
    BY <1>1, <2>1, <2>5 DEF DiskTypeOK, DiskInv
  <2>7. Stage'
    BY <1>1, <1>3, <2>1, <2>4 DEF Stage, DiskInv, Indexed
  <2> QED BY <2>6, <2>7 DEF DiskInv
<1> QED BY <1>2, <1>3

LEMMA FirstDone ==
  ASSUME DiskInv, NEW t \in 1..Len(root), Done(root[t])
  PROVE  Walk(root[t]).files \in Seq(DOMAIN root[t].at)
<1>1. root[t] \in Trees
  BY DEF DiskInv, DiskTypeOK
<1>2. root[t].at \in AtsTo(SizeMax)
  BY <1>1 DEF Trees
<1> QED BY <1>2, Bounds, WalkFiles DEF Done

LEMMA StartIdTableInv == DiskInv /\ StartIdTable => DiskInv'
<1> SUFFICES ASSUME DiskInv, StartIdTable PROVE DiskInv'
  OBVIOUS
<1>1. pc = "id" /\ UNCHANGED <<js, file, call, size>>
  BY DEF StartIdTable
<1>2. CASE root = << >>
  <2>1. Fail /\ LutsUnmoved /\ tree' = tree
    BY <1>2 DEF StartIdTable
  <2> QED BY <1>1, <2>1, FailInv
<1>3. CASE root # << >>
  <2>1. /\ LutClear /\ pc' = "id_fill" /\ tree' = 1
        /\ todo' = Walk(root[1]).files
        /\ UNCHANGED <<root, lutid, ret>>
    BY <1>3 DEF StartIdTable
  <2>2. root \in Seq(Trees) /\ Indexed(Len(root)) /\ 1 \in 1..Len(root)
    BY <1>1, <1>3 DEF DiskInv, DiskTypeOK, Stage
  <2>3. todo' \in Seq(DOMAIN root[1].at)
    BY <2>1, <2>2, FirstDone DEF Indexed
  <2>4. LutInv' /\ lut'.max # 0
    BY <2>1, ClearInv, LutAssumption, DiskAssumption
    DEF LutClear, DiskInv, DiskTypeOK, EmptyLut
  <2>5. DiskTypeOK'
    BY <1>1, <2>1, <2>4 DEF DiskTypeOK, DiskInv
  <2>6. Stage'
    BY <1>1, <2>1, <2>2, <2>3 DEF Stage, DiskInv, Indexed
  <2> QED BY <2>5, <2>6 DEF DiskInv
<1> QED BY <1>2, <1>3

\* What the callbacks put into a table.
LEMMA NextEntry ==
  ASSUME DiskInv, Filling
  PROVE  /\ NextKey \in Keys \cup {0} /\ 0 \notin Ids
         /\ NextKey # 0 => NextKey \in Keys
         /\ Where(tree, todo[1]) \in Vals
         /\ Tail(todo) \in Seq(DOMAIN root[tree].at)
<1>1. /\ tree \in 1..Len(root) /\ todo \in Seq(DOMAIN root[tree].at)
      /\ todo # << >> /\ root \in Seq(Trees)
  BY DEF Filling, DiskInv, DiskTypeOK, Stage
<1>2. root[tree].at \in AtsTo(SizeMax)
  <2>1. root[tree] \in Trees
    BY <1>1
  <2> QED BY <2>1 DEF Trees
<1> DEFINE at == root[tree].at
           o  == todo[1]
<1>3. o \in DOMAIN at /\ Tail(todo) \in Seq(DOMAIN at)
  BY <1>1
<1> HIDE DEF at, o
<1>4. PICK D \in SUBSET (0..(SizeMax - 1)) : at \in [D -> Headers]
  BY <1>2 DEF AtsTo, at
<1>5. at[o] \in Headers /\ o \in 0..SizeMax
  BY <1>3, <1>4, Bounds
<1>6. at[o].id \in Ids \cup {0} /\ at[o].sid \in Ids \cup {0}
  BY <1>5 DEF Headers
<1>7. NextKey \in Ids \cup {0}
  BY <1>6 DEF NextKey, at, o
<1>8. TreeIdx(tree) \in 0..(TreeIdxMod - 1)
  <2>1. tree - 1 \in Nat /\ TreeIdxMod \in Nat \ {0}
    BY <1>1, DiskAssumption
  <2>2. \A a \in Nat, b \in Nat \ {0} : a % b \in 0..(b - 1)
    OBVIOUS
  <2> QED BY <2>1, <2>2 DEF TreeIdx
<1>9. Where(tree, o) \in Vals
  BY <1>5, <1>8, DiskAssumption DEF Where
<1>10. Ids \subseteq Keys /\ 0 \notin Ids
  BY DiskAssumption, DiskJsAssumption
<1> QED BY <1>3, <1>7, <1>9, <1>10 DEF o, at

LEMMA InsertNextInv ==
  DiskInv /\ InsertNext => DiskInv' /\ [LutNext]_lutVars
<1> SUFFICES ASSUME DiskInv, InsertNext PROVE DiskInv' /\ [LutNext]_lutVars
  OBVIOUS
<1>1. /\ Filling /\ NextKey # 0 /\ LutInsert(NextKey, Where(tree, todo[1]))
      /\ todo' = Tail(todo)
      /\ UNCHANGED <<js, file, root, lutid, pc, call, ret, size, tree>>
  BY DEF InsertNext
<1>2. /\ NextKey \in Keys /\ Where(tree, todo[1]) \in Vals
      /\ todo' \in Seq(DOMAIN root[tree].at)
  BY <1>1, NextEntry
<1> DEFINE k == NextKey
           v == Where(tree, todo[1])
<1>3. LutInsert(k, v) /\ k \in Keys /\ v \in Vals
  BY <1>1, <1>2
<1> HIDE DEF k, v
<1>4. LutInv'
  BY <1>3, InsertInv DEF DiskInv, DiskTypeOK
<1>5. lut'.max # 0
  BY <1>3, LutAssumption DEF LutInsert, Grown, DiskInv, DiskTypeOK,
         LutInv, LutTypeOK
<1>6. LutNext
  BY <1>3 DEF LutNext
<1>7. DiskTypeOK'
  BY <1>1, <1>4, <1>5 DEF DiskTypeOK, DiskInv
<1>8. Stage'
  BY <1>1, <1>2 DEF Stage, DiskInv, Indexed, Filling
<1> QED BY <1>6, <1>7, <1>8 DEF DiskInv

LEMMA SkipNextInv == DiskInv /\ SkipNext => DiskInv'
<1> SUFFICES ASSUME DiskInv, SkipNext PROVE DiskInv'
  OBVIOUS
<1>1. /\ Filling /\ todo' = Tail(todo) /\ LutsUnmoved
      /\ UNCHANGED <<js, file, root, lutid, pc, call, ret, size, tree>>
  BY DEF SkipNext
<1>2. todo' \in Seq(DOMAIN root[tree].at)
  BY <1>1, NextEntry
<1>3. LutInv' /\ lut'.max # 0
  BY <1>1, LutKept DEF DiskInv
<1>4. DiskTypeOK'
  BY <1>1, <1>3 DEF DiskTypeOK, DiskInv
<1>5. Stage'
  BY <1>1, <1>2 DEF Stage, DiskInv, Indexed, Filling
<1> QED BY <1>4, <1>5 DEF DiskInv

LEMMA InsertingInv ==
  DiskInv /\ Inserting => DiskInv' /\ [LutNext]_lutVars
<1> SUFFICES ASSUME DiskInv, Inserting PROVE DiskInv' /\ [LutNext]_lutVars
  OBVIOUS
<1>1. (LutProbe \/ LutPlace) /\ UNCHANGED <<js, file, memVars>>
  BY DEF Inserting
<1>2. LutInv'
  BY <1>1, ProbeInv, PlaceInv DEF DiskInv, DiskTypeOK
<1>3. lut'.max = lut.max
  BY <1>1, Place DEF LutProbe, DiskInv, DiskTypeOK
<1>4. DiskTypeOK'
  BY <1>1, <1>2, <1>3 DEF DiskTypeOK, DiskInv, memVars
<1>5. Stage'
  BY <1>1 DEF Stage, DiskInv, Indexed, UsableOrAbsent, memVars
<1> QED BY <1>1, <1>4, <1>5 DEF DiskInv, LutNext

LEMMA SidTableDoneInv == DiskInv /\ SidTableDone => DiskInv'
<1> SUFFICES ASSUME DiskInv, SidTableDone PROVE DiskInv'
  OBVIOUS
<1>1. /\ pc = "sid_fill" /\ root' = [root EXCEPT ![tree].lutsid = lut]
      /\ pc' = CASE call = "create" /\ tree < Len(js) -> "parse"
                 [] call = "load" /\ tree < Len(root) -> "sid"
                 [] OTHER -> "id"
      /\ tree' = tree + 1 /\ size' = SizeStart /\ LutsUnmoved
      /\ UNCHANGED <<js, file, lutid, call, ret, todo>>
  BY DEF SidTableDone
<1>2. /\ root \in Seq(Trees) /\ tree \in 1..Len(root) /\ Indexed(tree - 1)
      /\ lutid = NoLut /\ call \in {"create", "load"}
      /\ call = "create" => tree = Len(root)
      /\ Walk(root[tree]).end = "ok" /\ Len(root) \in Nat
      /\ js \in Seq(Items[Depth])
  BY <1>1 DEF DiskInv, DiskTypeOK, Stage
<1>3. lut \in Tables /\ lut # NoLut
  BY TableIsOne DEF DiskInv, DiskTypeOK
<1> DEFINE new == [root[tree] EXCEPT !.lutsid = lut]
<1>4. root[tree] \in Trees
  BY <1>2
<1>5. /\ new \in Trees /\ new.lutsid = lut /\ new.at = root[tree].at
  BY <1>3, <1>4 DEF Trees
<1>6. Done(new)
  BY <1>2, <1>3, <1>5 DEF Done, Walk
<1>7. /\ root' \in Seq(Trees) /\ Len(root') = Len(root)
      /\ root'[tree] = new
      /\ \A t \in 1..Len(root) : t # tree => root'[t] = root[t]
  <2>1. root' = [root EXCEPT ![tree] = new]
    BY <1>1
  <2> HIDE DEF new
  <2> QED BY <1>2, <1>5, <2>1
<1> HIDE DEF new
<1>8. \A t \in 1..tree : Done(root'[t])
  BY <1>2, <1>6, <1>7 DEF Indexed
<1>9. LutInv' /\ lut'.max # 0
  BY <1>1, LutKept DEF DiskInv
<1>10. DiskTypeOK'
  BY <1>1, <1>2, <1>7, <1>9, Bounds DEF DiskTypeOK, DiskInv
<1>11. CASE call = "create" /\ tree < Len(js)
  <2>1. pc' = "parse"
    BY <1>1, <1>11
  <2>2. tree' = Len(root') + 1 /\ tree' <= Len(js) /\ Indexed(Len(root))'
    BY <1>1, <1>2, <1>7, <1>8, <1>11 DEF Indexed
  <2>3. Stage'
    BY <1>1, <1>2, <1>11, <2>1, <2>2 DEF Stage
  <2> QED BY <1>10, <2>3 DEF DiskInv
<1>12. CASE ~(call = "create" /\ tree < Len(js)) /\ call = "load"
              /\ tree < Len(root)
  <2>1. pc' = "sid"
    BY <1>1, <1>12
  <2>0. tree' = tree + 1 /\ tree \in Nat /\ Len(root) \in Nat
    BY <1>1, <1>2, <1>12
  <2>2. tree' \in 1..Len(root') /\ Indexed(tree - 1)'
    <3>1. tree' \in 1..Len(root') /\ tree' - 1 = tree
      BY <1>7, <1>12, <2>0
    <3> QED BY <1>8, <3>1 DEF Indexed
  <2>3. Stage'
    BY <1>1, <1>2, <1>12, <2>1, <2>2 DEF Stage
  <2> QED BY <1>10, <2>3 DEF DiskInv
<1>13. CASE ~(call = "create" /\ tree < Len(js))
              /\ ~(call = "load" /\ tree < Len(root))
  <2>1. pc' = "id"
    BY <1>1, <1>13
  <2>2. tree = Len(root)
    BY <1>2, <1>13
  <2>3. Indexed(Len(root))'
    BY <1>7, <1>8, <2>2 DEF Indexed
  <2>4. Stage'
    BY <1>1, <1>2, <2>1, <2>3 DEF Stage
  <2> QED BY <1>10, <2>4 DEF DiskInv
<1> QED BY <1>11, <1>12, <1>13

LEMMA NextIdTreeInv == DiskInv /\ NextIdTree => DiskInv'
<1> SUFFICES ASSUME DiskInv, NextIdTree PROVE DiskInv'
  OBVIOUS
<1>1. /\ pc = "id_fill" /\ tree < Len(root) /\ tree' = tree + 1
      /\ todo' = Walk(root[tree + 1]).files /\ LutsUnmoved
      /\ UNCHANGED <<js, file, root, lutid, pc, call, ret, size>>
  BY DEF NextIdTree
<1>2. tree \in 1..Len(root) /\ Len(root) \in Nat /\ Indexed(Len(root))
  BY <1>1 DEF DiskInv, DiskTypeOK, Stage
<1>3. tree + 1 \in 1..Len(root)
  BY <1>1, <1>2
<1>4. todo' \in Seq(DOMAIN root[tree + 1].at)
  BY <1>1, <1>2, <1>3, FirstDone DEF Indexed
<1>5. LutInv' /\ lut'.max # 0
  BY <1>1, LutKept DEF DiskInv
<1>6. DiskTypeOK'
  BY <1>1, <1>2, <1>5 DEF DiskTypeOK, DiskInv
<1>7. Stage'
  BY <1>1, <1>2, <1>3, <1>4 DEF Stage, DiskInv, Indexed
<1> QED BY <1>6, <1>7 DEF DiskInv

LEMMA IdTableDoneInv == DiskInv /\ IdTableDone => DiskInv'
<1> SUFFICES ASSUME DiskInv, IdTableDone PROVE DiskInv'
  OBVIOUS
<1>1. /\ pc = "id_fill" /\ lutid' = lut /\ pc' = "idle" /\ LutsUnmoved
      /\ UNCHANGED <<js, file, root, call, size, tree>>
  BY DEF IdTableDone, Return
<1>2. tree \in 1..Len(root) /\ Indexed(Len(root)) /\ root \in Seq(Trees)
  BY <1>1 DEF DiskInv, DiskTypeOK, Stage
<1>3. lut \in Tables /\ lut # NoLut
  BY TableIsOne DEF DiskInv, DiskTypeOK
<1>4. LutInv' /\ lut'.max # 0
  BY <1>1, LutKept DEF DiskInv
<1>5. DiskTypeOK'
  BY <1>1, <1>3, <1>4 DEF DiskTypeOK, DiskInv
<1>6. root # << >>
  BY <1>2
<1>7. UsableOrAbsent'
  BY <1>1, <1>2, <1>3, <1>6 DEF UsableOrAbsent, Indexed, Done
<1> QED BY <1>1, <1>5, <1>7, IdleStage DEF DiskInv

LEMMA LoadStartInv == DiskInv /\ LoadStart => DiskInv'
<1> SUFFICES ASSUME DiskInv, LoadStart PROVE DiskInv'
  OBVIOUS
<1>1. /\ pc = "idle" /\ call' = "load" /\ UsableOrAbsent /\ LutsUnmoved
      /\ UNCHANGED <<js, file, size>>
  BY DEF LoadStart, DiskInv, Stage
<1>2. LutInv' /\ lut'.max # 0
  BY <1>1, LutKept DEF DiskInv
<1>3. CASE root # << >>
  <2>1. ret' = "ERROR" /\ pc' = "idle" /\ UNCHANGED <<root, lutid, tree>>
    BY <1>3 DEF LoadStart, FailKeepingRoot, Return
  <2>2. UsableOrAbsent'
    BY <1>1, <2>1 DEF UsableOrAbsent
  <2>3. DiskTypeOK'
    BY <1>1, <1>2, <2>1 DEF DiskTypeOK, DiskInv
  <2> QED BY <2>1, <2>2, <2>3, IdleStage DEF DiskInv
<1>4. CASE root = << >> /\ Loadable(file)
  <2> DEFINE f == file.trees
             new == [t \in 1..Len(f) |-> Tree(f[t].at, f[t].len, f[t].len)]
  <2>1. /\ root' = new /\ lutid' = NoLut /\ pc' = "sid" /\ tree' = 1
    BY <1>4 DEF LoadStart
  <2>2. f \in Seq(SavedTrees) /\ f # << >>
    BY <1>4 DEF Loadable, DiskInv, DiskTypeOK
  <2>3. \A t \in 1..Len(f) : Tree(f[t].at, f[t].len, f[t].len) \in Trees
    <3> TAKE t \in 1..Len(f)
    <3>1. f[t] \in SavedTrees
      BY <2>2
    <3>2. f[t].at \in AtsTo(SizeMax) /\ f[t].len \in 0..SizeMax
      BY <3>1 DEF SavedTrees
    <3>3. f[t].len \in Nat
      BY <3>2, Bounds
    <3> QED BY <3>2, <3>3 DEF Tree, Trees
  <2>4. new \in Seq(Trees) /\ Len(new) = Len(f) /\ 1 \in 1..Len(f)
    BY <2>2, <2>3
  <2> HIDE DEF new, f
  <2>5. Indexed(tree - 1)'
    BY <2>1 DEF Indexed
  <2>6. Stage'
    BY <1>1, <2>1, <2>4, <2>5 DEF Stage
  <2>7. DiskTypeOK'
    BY <1>1, <1>2, <2>1, <2>4 DEF DiskTypeOK, DiskInv
  <2> QED BY <2>6, <2>7 DEF DiskInv
<1>5. CASE root = << >> /\ ~Loadable(file)
  <2>1. Fail /\ tree' = tree
    BY <1>5 DEF LoadStart
  <2> QED BY <1>1, <2>1, FailInv
<1> QED BY <1>3, <1>4, <1>5

LEMMA WrittenTrees ==
  ASSUME DiskInv, NEW n \in 0..Len(root)
  PROVE  Written(n) \in Seq(SavedTrees)
<1>1. root \in Seq(Trees) /\ n \in Nat
  BY DEF DiskInv, DiskTypeOK
<1>2. \A t \in 1..n : root[t] \in Trees
  BY <1>1
<1>3. \A t \in 1..n : [at |-> root[t].at, len |-> root[t].len] \in SavedTrees
  BY <1>2 DEF Trees, SavedTrees
<1> QED BY <1>1, <1>3 DEF Written

LEMMA SaveInv == DiskInv /\ Save => DiskInv'
<1> SUFFICES ASSUME DiskInv, Save PROVE DiskInv'
  OBVIOUS
<1>1. /\ pc = "idle" /\ call' = "save" /\ UsableOrAbsent /\ LutsUnmoved
      /\ file'.trees = Written(Len(root))
      /\ UNCHANGED <<js, root, lutid, pc, size, tree, todo>>
  BY DEF Save, Saved, DiskInv, Stage
<1>2. Len(root) \in 0..Len(root)
  BY DEF DiskInv, DiskTypeOK
<1>3. file'.trees \in Seq(SavedTrees)
  BY <1>1, <1>2, WrittenTrees
<1>4. LutInv' /\ lut'.max # 0
  BY <1>1, LutKept DEF DiskInv
<1>5. UsableOrAbsent'
  BY <1>1 DEF UsableOrAbsent
<1>6. DiskTypeOK'
  BY <1>1, <1>3, <1>4 DEF DiskTypeOK, DiskInv
<1> QED BY <1>1, <1>5, <1>6, IdleStage DEF DiskInv

LEMMA UnloadInv == DiskInv /\ Unload => DiskInv'
<1> SUFFICES ASSUME DiskInv, Unload PROVE DiskInv'
  OBVIOUS
<1>1. /\ call' = "unload" /\ root' = << >> /\ lutid' = NoLut /\ pc' = "idle"
      /\ LutsUnmoved /\ UNCHANGED <<js, file, size, tree>>
  BY DEF Unload, Return, RootEmptied
<1>2. LutInv' /\ lut'.max # 0
  BY <1>1, LutKept DEF DiskInv
<1>3. << >> \in Seq(Trees)
  OBVIOUS
<1>4. DiskTypeOK'
  BY <1>1, <1>2, <1>3 DEF DiskTypeOK, DiskInv
<1> QED BY <1>1, <1>4, AbsentStage DEF DiskInv

\* The process ends, perhaps while a disk is saved.
LEMMA CrashInv ==
  ASSUME DiskInv,
         \/ Crash \/ GrowWraps
         \/ \E n \in 0..(Len(root) - 1), rest \in BOOLEAN : SaveCut(n, rest)
  PROVE  DiskInv'
<1>1. CASE Crash \/ GrowWraps
  <2>1. MemoryLost /\ js' = js /\ file' = file
    BY <1>1 DEF Crash, GrowWraps
  <2>2. file'.exists => file'.trees \in Seq(SavedTrees)
    BY <2>1 DEF DiskInv, DiskTypeOK
  <2> QED BY <2>1, <2>2, MemoryLostInv
<1>2. CASE \E n \in 0..(Len(root) - 1), rest \in BOOLEAN : SaveCut(n, rest)
  <2>1. PICK n \in 0..(Len(root) - 1), rest \in BOOLEAN : SaveCut(n, rest)
    BY <1>2
  <2>2. n \in 0..Len(root)
    BY DEF DiskInv, DiskTypeOK
  <2>3. /\ file'.trees = Written(n)
        /\ MemoryLost /\ js' = js
    BY <2>1 DEF SaveCut, Saved
  <2>4. file'.trees \in Seq(SavedTrees)
    BY <2>2, <2>3, WrittenTrees
  <2> QED BY <2>3, <2>4, MemoryLostInv
<1> QED BY <1>1, <1>2

LEMMA DiskStepInv == DiskInv /\ [DiskNext]_diskVars => DiskInv'
<1> SUFFICES ASSUME DiskInv, [DiskNext]_diskVars PROVE DiskInv'
  OBVIOUS
<1>1. CASE CreateStart \/ ParseSuccess \/ Grow
  BY <1>1, CreateStartInv, ParseSuccessInv, GrowInv
<1>2. CASE ParseError
  BY <1>2, FailInv DEF ParseError
<1>3. CASE StartSidTable \/ StartIdTable
  BY <1>3, StartSidTableInv, StartIdTableInv
<1>4. CASE InsertNext \/ SkipNext \/ Inserting
  BY <1>4, InsertNextInv, SkipNextInv, InsertingInv
<1>5. CASE SidTableDone \/ NextIdTree \/ IdTableDone
  BY <1>5, SidTableDoneInv, NextIdTreeInv, IdTableDoneInv
<1>6. CASE LoadStart \/ Save \/ Unload
  BY <1>6, LoadStartInv, SaveInv, UnloadInv
<1>7. CASE \/ Crash \/ GrowWraps
           \/ \E n \in 0..(Len(root) - 1), rest \in BOOLEAN : SaveCut(n, rest)
  BY <1>7, CrashInv
<1>8. CASE UNCHANGED diskVars
  <2>1. UNCHANGED <<js, file, root, lutid, pc, call, ret, size,
                  tree, todo, lut, ins>>
    BY <1>8 DEF diskVars, memVars, lutVars
  <2>2. LutInv' /\ lut'.max # 0
    BY <2>1, LutKept DEF DiskInv, LutsUnmoved, lutVars
  <2>3. DiskTypeOK'
    BY <2>1, <2>2 DEF DiskTypeOK, DiskInv
  <2>4. Stage'
    BY <2>1 DEF Stage, DiskInv, Indexed, UsableOrAbsent
  <2> QED BY <2>3, <2>4 DEF DiskInv
<1> QED BY <1>1, <1>2, <1>3, <1>4, <1>5, <1>6, <1>7, <1>8 DEF DiskNext

LEMMA DiskInvInductive == DiskSpec => []DiskInv
  BY DiskInitInv, DiskStepInv, PTL DEF DiskSpec

(***************************************************************************)
(* Between calls a disk is there with all of its tables or it is not there *)
(* at all, whatever description, file or end of the process there was      *)
(* (swicc_diskjs_disk_create, swicc_disk_load, swicc_disk_root_empty).     *)
(***************************************************************************)
THEOREM DiskUsableOrAbsent == DiskSpec => []UsableOrAbsent
<1>1. DiskInv => UsableOrAbsent
  BY DEF DiskInv, Stage, UsableOrAbsent
<1> QED BY <1>1, DiskInvInductive, PTL

(***************************************************************************)
(* The tables stay sorted and in their bounds when they are built from the *)
(* trees of a disk (lut_insert under swicc_disk_lutid_rebuild and          *)
(* _lutsid_rebuild).                                                       *)
(***************************************************************************)
THEOREM DiskTablesSorted == DiskSpec => []LutSorted
<1>1. DiskInv => LutSorted
  BY DEF DiskInv, DiskTypeOK, LutInv
<1> QED BY <1>1, DiskInvInductive, PTL

\* Each step of a disk is one of its table, or throws it away.
LEMMA StepOfTable ==
  ASSUME DiskInv, [DiskNext]_diskVars
  PROVE  [LutNext]_lutVars \/ (lut' = EmptyLut /\ ins' = Idle)
<1>1. CASE InsertNext \/ Inserting
  BY <1>1, InsertNextInv, InsertingInv
<1>2. CASE StartSidTable
  BY <1>2 DEF StartSidTable, LutsUnmoved, LutNext
<1>3. CASE StartIdTable
  BY <1>3 DEF StartIdTable, LutsUnmoved, LutNext
<1>4. CASE \/ Crash \/ GrowWraps
           \/ \E n \in 0..(Len(root) - 1), rest \in BOOLEAN : SaveCut(n, rest)
  BY <1>4 DEF Crash, GrowWraps, SaveCut, MemoryLost
<1>5. CASE \/ CreateStart \/ ParseSuccess \/ Grow \/ ParseError
           \/ SkipNext \/ SidTableDone \/ NextIdTree \/ IdTableDone
           \/ LoadStart \/ Save \/ Unload
  <2>1. LutsUnmoved
    BY <1>5 DEF CreateStart, ParseSuccess, Grow, ParseError, SkipNext,
       SidTableDone, NextIdTree, IdTableDone, LoadStart, Save, Unload
  <2> QED BY <2>1 DEF LutsUnmoved
<1>6. CASE UNCHANGED diskVars
  BY <1>6 DEF diskVars
<1> QED BY <1>1, <1>2, <1>3, <1>4, <1>5, <1>6 DEF DiskNext

(***************************************************************************)
(* The tables of a disk are maps in which the last file of an ID or SID    *)
(* wins, also when they are rebuilt and when the process ends in between   *)
(* (lut_insert, lutid_rebuild_cb, lutsid_rebuild_cb).                      *)
(***************************************************************************)
THEOREM DiskIsDict == DiskSpec => IsDict
<1>1. DiskInit => Dict!DictInit
  BY LutInitIsEmpty DEF DiskInit
<1>2. DiskInv /\ [DiskNext]_diskVars => [Dict!DictNext]_(Dict!dictVars)
  <2> SUFFICES ASSUME DiskInv, [DiskNext]_diskVars
               PROVE  [Dict!DictNext]_(Dict!dictVars)
    OBVIOUS
  <2>1. CASE [LutNext]_lutVars
    BY <2>1, LutStepPuts DEF DiskInv, DiskTypeOK
  <2>2. CASE lut' = EmptyLut /\ ins' = Idle
    <3>1. \A k \in Keys : LutLookup(lut', k) = NoVal
      BY <2>2, NothingFound
    <3>2. Dict!Clear
      BY <2>2, <3>1 DEF Idle, Dict!Clear, Dict!Empty
    <3> QED BY <3>2 DEF Dict!DictNext
  <2> QED BY <2>1, <2>2, StepOfTable
<1> QED BY <1>1, <1>2, DiskInvInductive, PTL DEF DiskSpec,
            IsDict, Dict!DictSpec

(***************************************************************************)
(* A buffer grows only when the tree that is described does not fit, if no *)
(* name in it is longer than its field and no record EF in it is without   *)
(* an rcrd_size (disk_json_prs, diskjs.c:1351).                            *)
(***************************************************************************)
THEOREM DiskGrowthIsNeeded == DiskSpec => GrowthIsNeeded
<1> DEFINE Needs == size' > size /\ Measured[Depth][js[tree]]
                      => Needed[Depth][js[tree]] > size
<1>1. DiskInv /\ [DiskNext]_diskVars => [Needs]_diskVars
  <2> SUFFICES ASSUME DiskInv, DiskNext, size' > size,
                           Measured[Depth][js[tree]]
               PROVE  Needed[Depth][js[tree]] > size
    OBVIOUS
  <2>1. size \in Nat /\ SizeStart <= size /\ SizeStart \in Nat
    BY Bounds DEF DiskInv, DiskTypeOK
  <2>2. size' # SizeStart /\ size' # size
    BY <2>1
  <2>3. Grow
    BY <2>2 DEF DiskNext, CreateStart, ParseSuccess, GrowWraps, ParseError,
       StartSidTable, StartIdTable, InsertNext, SkipNext, Inserting,
       SidTableDone, NextIdTree, IdTableDone, LoadStart, Save, Unload, Crash,
       SaveCut, MemoryLost, memVars
  <2>4. pc = "parse" /\ Attempt.ret = "BUFFER_TOO_SHORT"
    BY <2>3 DEF Grow
  <2> QED BY <2>4, AttemptFacts DEF Facts
<1> QED BY <1>1, DiskInvInductive, PTL DEF DiskSpec, GrowthIsNeeded

=============================================================================
