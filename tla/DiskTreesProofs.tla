------------------------- MODULE DiskTreesProofs ----------------------------
(***************************************************************************)
(* Going through a disk meets the files of its description, in their order *)
(* and each in its folder: for all descriptions, however deep, and sizes.  *)
(*                                                                         *)
(* A parser writes headers at offsets; a walk follows sizes from one to    *)
(* the next.  Meets says that a walk that comes to b meets the files of a  *)
(* description and goes on at c: items that stand one behind the other     *)
(* meet one after the other, and a folder meets what is in it.             *)
(*                                                                         *)
(* The lookup tables are filled along the same walks.  TablesInv says of a *)
(* table that is filled up to some place that it finds, for every key, the *)
(* last of the places until there: and the last place with a key shows the *)
(* last file that is described with it.                                    *)
(***************************************************************************)
EXTENDS DiskProofs, FiniteSetTheorems

-----------------------------------------------------------------------------
(* The files of a tree, in order.                                          *)

\* The members of two sequences, one after the other.
LEMMA ToSetJoined ==
  ASSUME NEW D, NEW a \in Seq(D), NEW b \in Seq(D)
  PROVE  ToSet(a \o b) = ToSet(a) \cup ToSet(b)
<1>1. /\ Len(a) \in Nat /\ Len(b) \in Nat /\ Len(a \o b) = Len(a) + Len(b)
      /\ DOMAIN a = 1..Len(a) /\ DOMAIN b = 1..Len(b)
      /\ DOMAIN (a \o b) = 1..(Len(a) + Len(b))
  OBVIOUS
<1>2. \A i \in 1..(Len(a) + Len(b)) :
        (a \o b)[i] = IF i <= Len(a) THEN a[i] ELSE b[i - Len(a)]
  OBVIOUS
<1>3. ASSUME NEW x \in ToSet(a \o b) PROVE x \in ToSet(a) \cup ToSet(b)
  <2>1. PICK i \in 1..(Len(a) + Len(b)) : x = (a \o b)[i]
    BY <1>1 DEF ToSet
  <2>2. CASE i <= Len(a)
    BY <1>1, <1>2, <2>1, <2>2 DEF ToSet
  <2>3. CASE ~(i <= Len(a))
    <3>1. i - Len(a) \in 1..Len(b)
      BY <1>1, <2>3
    <3> QED BY <1>1, <1>2, <2>1, <2>3, <3>1 DEF ToSet
  <2> QED BY <2>2, <2>3
<1>4. ASSUME NEW x \in ToSet(a) PROVE x \in ToSet(a \o b)
  <2>1. PICK i \in 1..Len(a) : x = a[i]
    BY <1>1, <1>4 DEF ToSet
  <2>2. i \in 1..(Len(a) + Len(b)) /\ x = (a \o b)[i]
    BY <1>1, <1>2, <2>1
  <2> QED BY <1>1, <2>2 DEF ToSet
<1>5. ASSUME NEW x \in ToSet(b) PROVE x \in ToSet(a \o b)
  <2>1. PICK i \in 1..Len(b) : x = b[i]
    BY <1>1, <1>5 DEF ToSet
  <2>2. i + Len(a) \in 1..(Len(a) + Len(b)) /\ x = (a \o b)[i + Len(a)]
    BY <1>1, <1>2, <2>1
  <2> QED BY <1>1, <2>2 DEF ToSet
<1> QED BY <1>3, <1>4, <1>5

FlattenStep(seqs, f, i) == IF i = 1 THEN seqs[i] ELSE f[i - 1] \o seqs[i]
IsFlatten(seqs, f, m)   == f = [i \in 1..m |-> FlattenStep(seqs, f, i)]

\* FlattenSeq goes from the front.
LEMMA FlattenIs ==
  ASSUME NEW D, NEW seqs \in Seq(Seq(D))
  PROVE  \E g : /\ g[0] = << >> /\ g[Len(seqs)] = FlattenSeq(seqs)
                /\ \A k \in 1..Len(seqs) : g[k] = g[k - 1] \o seqs[k]
                /\ \A k \in 0..Len(seqs) : g[k] \in Seq(D)
<1> DEFINE N == Len(seqs)
           W == CHOOSE f : f = [i \in 1..N |->
                  IF i = 1 THEN seqs[i] ELSE f[i - 1] \o seqs[i]]
           S == {m \in Nat : \E f : IsFlatten(seqs, f, m)}
           g == [k \in 0..N |-> IF k = 0 THEN << >> ELSE W[k]]
<1>0. N \in Nat /\ \A i \in 1..N : seqs[i] \in Seq(D)
  OBVIOUS
<1>1. 0 \in S
  <2> DEFINE f == [i \in 1..0 |-> 0]
  <2>1. IsFlatten(seqs, f, 0)
    BY DEF IsFlatten
  <2> QED BY <2>1
<1>2. ASSUME NEW m \in Nat, m \in S PROVE m + 1 \in S
  <2>1. PICK f : IsFlatten(seqs, f, m)
    BY <1>2
  <2> DEFINE h == [i \in 1..(m + 1) |-> FlattenStep(seqs, f, i)]
  <2>2. \A i \in 1..m : h[i] = f[i]
    <3>1. \A i \in 1..m : f[i] = FlattenStep(seqs, f, i)
      BY <2>1 DEF IsFlatten
    <3> QED BY <3>1
  <2>3. \A i \in 1..(m + 1) :
          FlattenStep(seqs, f, i) = FlattenStep(seqs, h, i)
    <3> HIDE DEF h
    <3> TAKE i \in 1..(m + 1)
    <3>1. i # 1 => i - 1 \in 1..m
      OBVIOUS
    <3>2. i # 1 => h[i - 1] = f[i - 1]
      BY <2>2, <3>1
    <3> QED BY <3>2 DEF FlattenStep
  <2> HIDE DEF h
  <2>4. IsFlatten(seqs, h, m + 1)
    BY <2>3 DEF h, IsFlatten
  <2> QED BY <2>4
<1>3. N \in S
  <2> HIDE DEF S
  <2>1. \A m \in Nat : m \in S
    BY <1>1, <1>2, InductionOver
  <2> QED BY <1>0, <2>1
<1>4. W = [i \in 1..N |-> IF i = 1 THEN seqs[i] ELSE W[i - 1] \o seqs[i]]
  BY <1>3 DEF IsFlatten, FlattenStep
<1>5. FlattenSeq(seqs) = IF N = 0 THEN seqs ELSE W[N]
  BY DEF FlattenSeq
<1> HIDE DEF W, S
<1>6. \A k \in 0..N : g[k] = IF k = 0 THEN << >> ELSE W[k]
  OBVIOUS
<1>7. g[0] = << >> /\ g[N] = FlattenSeq(seqs)
  <2>1. N = 0 => seqs = << >>
    OBVIOUS
  <2> QED BY <1>0, <1>5, <1>6, <2>1
<1> DEFINE T == {k \in Nat : k <= N => g[k] \in Seq(D)}
<1>8. 0 \in T
  BY <1>0, <1>7
<1>9. ASSUME NEW k \in 1..N, g[k - 1] \in Seq(D)
      PROVE  g[k] = g[k - 1] \o seqs[k] /\ g[k] \in Seq(D)
  <2>0. W[k] = IF k = 1 THEN seqs[k] ELSE W[k - 1] \o seqs[k]
    BY <1>4
  <2>1. g[k] = W[k] /\ seqs[k] \in Seq(D)
    BY <1>0, <1>6
  <2>2. CASE k = 1
    <3>1. g[k] = seqs[k] /\ g[k - 1] = << >>
      BY <1>7, <2>0, <2>1, <2>2
    <3>2. << >> \o seqs[k] = seqs[k]
      BY <2>1
    <3> QED BY <2>1, <3>1, <3>2
  <2>3. CASE k # 1
    <3>1. g[k - 1] = W[k - 1]
      BY <1>6, <2>3
    <3>2. g[k] = g[k - 1] \o seqs[k]
      BY <2>0, <2>1, <2>3, <3>1
    <3> HIDE DEF g
    <3> QED BY <1>9, <2>1, <3>2
  <2> QED BY <2>2, <2>3
<1> HIDE DEF g
<1>10. ASSUME NEW k \in Nat, k \in T PROVE k + 1 \in T
  <2> SUFFICES ASSUME k + 1 <= N PROVE g[k + 1] \in Seq(D)
    OBVIOUS
  <2>1. k + 1 \in 1..N /\ g[(k + 1) - 1] \in Seq(D)
    BY <1>0, <1>10
  <2> QED BY <1>9, <2>1
<1> HIDE DEF T
<1>11. \A k \in Nat : k \in T
  BY <1>8, <1>10, InductionOver
<1>12. \A k \in 0..N : g[k] \in Seq(D)
  BY <1>0, <1>11 DEF T
<1>13. \A k \in 1..N : g[k] = g[k - 1] \o seqs[k]
  <2> TAKE k \in 1..N
  <2>1. k - 1 \in 0..N
    BY <1>0
  <2> QED BY <1>9, <1>12, <2>1
<1> QED BY <1>7, <1>12, <1>13

Rising(s) == \A i, j \in 1..Len(s) : i < j => s[i] < s[j]

\* The members of a rising sequence, counted.
LEMMA NthIs ==
  ASSUME NEW s \in Seq(Nat), Rising(s)
  PROVE  /\ Cardinality(ToSet(s)) = Len(s)
         /\ \A i \in 1..Len(s) : Nth(ToSet(s), i) = s[i]
<1> DEFINE S == ToSet(s)
           Upto(o) == {p \in S : p <= o}
<1>1. /\ Len(s) \in Nat /\ S = {s[i] : i \in 1..Len(s)}
      /\ \A i \in 1..Len(s) : s[i] \in Nat
  BY DEF ToSet
<1>2. \A i, j \in 1..Len(s) : s[i] <= s[j] <=> i <= j
  <2> TAKE i, j \in 1..Len(s)
  <2>1. i < j => s[i] < s[j]
    BY DEF Rising
  <2>2. j < i => s[j] < s[i]
    BY DEF Rising
  <2>3. i \in Nat /\ j \in Nat /\ s[i] \in Nat /\ s[j] \in Nat
    BY <1>1
  <2> QED BY <2>1, <2>2, <2>3
<1>3. ASSUME NEW n \in 0..Len(s), NEW T, T = {s[i] : i \in 1..n}
      PROVE  Cardinality(T) = n
  <2> DEFINE f == [i \in 1..n |-> s[i]]
  <2>1. f \in Bijection(1..n, T)
    <3>1. \A i, j \in 1..n : s[i] = s[j] => i = j
      <4> TAKE i, j \in 1..n
      <4>1. i \in 1..Len(s) /\ j \in 1..Len(s)
        BY <1>1
      <4>2. s[i] \in Nat /\ s[j] \in Nat
        BY <1>1, <4>1
      <4> QED BY <1>2, <4>1, <4>2
    <3>2. f \in [1..n -> T] /\ \A x \in T : \E i \in 1..n : f[i] = x
      BY <1>3
    <3> QED BY <3>1, <3>2 DEF Bijection, Injection, Surjection, IsInjective
  <2>2. IsFiniteSet(1..n) /\ Cardinality(1..n) = n
    BY <1>1, FS_Interval
  <2>3. ExistsBijection(1..n, T)
    BY <2>1 DEF ExistsBijection
  <2> QED BY <2>2, <2>3, FS_Bijection
<1>4. Cardinality(S) = Len(s)
  BY <1>1, <1>3
<1>5. \A i \in 1..Len(s) : Upto(s[i]) = {s[j] : j \in 1..i}
  <2> TAKE i \in 1..Len(s)
  <2>1. \A j \in 1..Len(s) : s[j] <= s[i] <=> j \in 1..i
    BY <1>1, <1>2
  <2> QED BY <1>1, <2>1
<1>6. \A i \in 1..Len(s) : Cardinality(Upto(s[i])) = i
  <2> TAKE i \in 1..Len(s)
  <2>1. i \in 0..Len(s)
    BY <1>1
  <2> QED BY <1>3, <1>5, <2>1
<1> HIDE DEF Upto
<1>7. ASSUME NEW i \in 1..Len(s) PROVE Nth(S, i) = s[i]
  <2>1. Nth(S, i) = CHOOSE o \in S : Cardinality(Upto(o)) = i
    BY DEF Nth, Upto
  <2>2. s[i] \in S /\ Cardinality(Upto(s[i])) = i
    BY <1>1, <1>6
  <2>3. \A o \in S : Cardinality(Upto(o)) = i => o = s[i]
    BY <1>1, <1>6
  <2> QED BY <2>1, <2>2, <2>3
<1> QED BY <1>4, <1>7

-----------------------------------------------------------------------------
(* What a description says.                                                *)

PreorderStep(g, n)  == PreorderLevel(IF n = 0 THEN << >> ELSE g[n - 1], n)
IsPreorder(g, m)    == g = [n \in 0..m |-> PreorderStep(g, n)]

\* The recursion of Preorder has a solution.
LEMMA PreorderExists == \A m \in Nat : \E g : IsPreorder(g, m)
<1> DEFINE S == {m \in Nat : \E g : IsPreorder(g, m)}
<1>1. 0 \in S
  <2> DEFINE g == [n \in 0..0 |-> PreorderLevel(<< >>, n)]
  <2>1. IsPreorder(g, 0)
    BY DEF IsPreorder, PreorderStep
  <2> QED BY <2>1
<1>2. ASSUME NEW m \in Nat, m \in S PROVE m + 1 \in S
  <2>1. PICK g : IsPreorder(g, m)
    BY <1>2
  <2> DEFINE h == [n \in 0..(m + 1) |-> PreorderStep(g, n)]
  <2>2. \A n \in 0..m : h[n] = g[n]
    <3>1. \A n \in 0..m : g[n] = PreorderStep(g, n)
      BY <2>1 DEF IsPreorder
    <3> QED BY <3>1
  <2>3. \A n \in 0..(m + 1) : PreorderStep(g, n) = PreorderStep(h, n)
    <3> HIDE DEF h
    <3> TAKE n \in 0..(m + 1)
    <3>1. n # 0 => n - 1 \in 0..m
      OBVIOUS
    <3>2. n # 0 => h[n - 1] = g[n - 1]
      BY <2>2, <3>1
    <3> QED BY <3>2 DEF PreorderStep
  <2> HIDE DEF h
  <2>4. IsPreorder(h, m + 1)
    BY <2>3 DEF h, IsPreorder
  <2> QED BY <2>4
<1> HIDE DEF S
<1>3. \A m \in Nat : m \in S
  BY <1>1, <1>2, InductionOver
<1> QED BY <1>3 DEF S

LEMMA PreorderIs ==
  \A n \in 0..Depth :
    Preorder[n] = PreorderLevel(IF n = 0 THEN << >> ELSE Preorder[n - 1], n)
<1> DEFINE W == Preorder
<1>1. PICK g : IsPreorder(g, Depth)
  BY PreorderExists, DiskJsAssumption
<1>2. W = CHOOSE f : f = [n \in 0..Depth |->
                       PreorderLevel(IF n = 0 THEN << >> ELSE f[n - 1], n)]
  BY DEF Preorder
<1>3. W = [n \in 0..Depth |->
             PreorderLevel(IF n = 0 THEN << >> ELSE W[n - 1], n)]
  BY <1>1, <1>2 DEF IsPreorder, PreorderStep
<1> QED BY <1>3

-----------------------------------------------------------------------------
(* Headers that stand somewhere in a buffer, and the files they show.      *)

\* The len bytes of a buffer from b on have the headers of a.
Holds(at, b, len, a) ==
  \A x \in 0..(len - 1) : /\ b + x \in DOMAIN at <=> x \in DOMAIN a
                          /\ x \in DOMAIN a => at[b + x] = a[x]

\* What is held of two parts is held of the first ...
LEMMA HoldsFront ==
  ASSUME NEW at, NEW b \in Nat, NEW l \in Nat, NEW len \in Nat,
         NEW a \in AtsTo(l), NEW r,
         Holds(at, b, l + len, Joined(a, Moved(r, l))),
         \A o \in DOMAIN r : o \in Nat
  PROVE  Holds(at, b, l, a)
<1>1. PICK D \in SUBSET (0..(l - 1)) : a \in [D -> Headers]
  BY DEF AtsTo
<1> DEFINE c == Joined(a, Moved(r, l))
<1>2. ASSUME NEW x \in 0..(l - 1)
      PROVE  /\ x \in DOMAIN c <=> x \in DOMAIN a
             /\ x \in DOMAIN a => c[x] = a[x]
  <2>1. x \notin {o + l : o \in DOMAIN r}
    BY <1>2
  <2> QED BY <2>1 DEF Joined, Moved
<1>3. \A x \in 0..(l - 1) : x \in 0..(l + len - 1)
  OBVIOUS
<1> HIDE DEF c
<1>4. \A x \in 0..(l + len - 1) : /\ b + x \in DOMAIN at <=> x \in DOMAIN c
                                  /\ x \in DOMAIN c => at[b + x] = c[x]
  BY DEF Holds, c
<1> QED BY <1>2, <1>3, <1>4 DEF Holds

\* ... and of the second.
LEMMA HoldsBack ==
  ASSUME NEW at, NEW b \in Nat, NEW l \in Nat, NEW len \in Nat,
         NEW a \in AtsTo(l), NEW r,
         Holds(at, b, l + len, Joined(a, Moved(r, l))),
         \A o \in DOMAIN r : o \in Nat
  PROVE  Holds(at, b + l, len, r)
<1>1. PICK D \in SUBSET (0..(l - 1)) : a \in [D -> Headers]
  BY DEF AtsTo
<1> DEFINE c == Joined(a, Moved(r, l))
<1>2. ASSUME NEW x \in 0..(len - 1)
      PROVE  /\ x + l \in DOMAIN c <=> x \in DOMAIN r
             /\ x \in DOMAIN r => c[x + l] = r[x]
  <2>1. x + l \notin D /\ x + l - l = x
    BY <1>2
  <2>2. x + l \in {o + l : o \in DOMAIN r} <=> x \in DOMAIN r
    BY <1>2
  <2> QED BY <1>1, <2>1, <2>2 DEF Joined, Moved
<1> HIDE DEF c
<1>3. \A x \in 0..(l + len - 1) : /\ b + x \in DOMAIN at <=> x \in DOMAIN c
                                  /\ x \in DOMAIN c => at[b + x] = c[x]
  BY DEF Holds, c
<1>4. ASSUME NEW x \in 0..(len - 1)
      PROVE  /\ (b + l) + x \in DOMAIN at <=> x \in DOMAIN r
             /\ x \in DOMAIN r => at[(b + l) + x] = r[x]
  <2>1. x + l \in 0..(l + len - 1) /\ (b + l) + x = b + (x + l)
    OBVIOUS
  <2> QED BY <1>2, <1>3, <2>1
<1> QED BY <1>4 DEF Holds

\* What a file is described by, and what its header shows.
FileShown == [mark : Nat, up : Nat, id : Ids \cup {0, Bad},
              sid : Ids \cup {0, Bad}]

ShownAt(at, o) ==
  [mark |-> at[o].mark, up |-> at[o - at[o].prel].mark,
   id |-> at[o].id, sid |-> at[o].sid]

\* s are the offsets, between b and c, of the files of p.
Lists(at, s, b, c, p) ==
  /\ s \in Seq(Nat) /\ p \in Seq(FileShown) /\ Len(s) = Len(p)
  /\ \A i \in 1..Len(s) : b <= s[i] /\ s[i] < c /\ ShownAt(at, s[i]) = p[i]
  /\ Rising(s)

\* No file, one file, and two lists one after the other.
LEMMA ListsNone ==
  \A at : \A b, c \in Nat : Lists(at, << >>, b, c, << >>)
  BY DEF Lists, Rising

LEMMA ListsOne ==
  ASSUME NEW at, NEW b \in Nat, NEW c \in Nat, b < c, NEW f \in FileShown,
         ShownAt(at, b) = f
  PROVE  Lists(at, <<b>>, b, c, <<f>>)
<1>1. Len(<<b>>) = 1 /\ <<b>>[1] = b /\ Len(<<f>>) = 1 /\ <<f>>[1] = f
  OBVIOUS
<1>2. <<b>> \in Seq(Nat) /\ <<f>> \in Seq(FileShown)
  OBVIOUS
<1>3. \A i \in 1..1 : i = 1
  OBVIOUS
<1> QED BY <1>1, <1>2, <1>3 DEF Lists, Rising

LEMMA ListsJoined ==
  ASSUME NEW at, NEW b \in Nat, NEW c \in Nat, NEW d \in Nat, b <= c, c <= d,
         NEW s, NEW p, Lists(at, s, b, c, p),
         NEW t, NEW q, Lists(at, t, c, d, q)
  PROVE  Lists(at, s \o t, b, d, p \o q)
<1> DEFINE u == s \o t
           n == Len(s)
<1>1. /\ s \in Seq(Nat) /\ t \in Seq(Nat) /\ p \in Seq(FileShown)
      /\ q \in Seq(FileShown) /\ Len(p) = n /\ Len(q) = Len(t)
      /\ n \in Nat /\ Len(t) \in Nat
  BY DEF Lists
<1>2. /\ u \in Seq(Nat) /\ p \o q \in Seq(FileShown)
      /\ Len(u) = n + Len(t) /\ Len(p \o q) = n + Len(t)
  <2>1. u \in Seq(Nat) /\ Len(u) = n + Len(t)
    BY <1>1
  <2> DEFINE S == FileShown
  <2> HIDE DEF n, u
  <2>2. p \in Seq(S) /\ q \in Seq(S)
    BY <1>1
  <2> HIDE DEF S
  <2>3. p \o q \in Seq(S) /\ Len(p \o q) = Len(p) + Len(q)
    BY <2>2
  <2> QED BY <1>1, <2>1, <2>3 DEF S
<1>3. \A i \in 1..(n + Len(t)) :
        /\ i <= n => u[i] = s[i] /\ (p \o q)[i] = p[i] /\ i \in 1..n
        /\ i > n => /\ u[i] = t[i - n] /\ (p \o q)[i] = q[i - n]
                    /\ i - n \in 1..Len(t)
  BY ONLY <1>1
<1>4. /\ \A i \in 1..n : b <= s[i] /\ s[i] < c /\ ShownAt(at, s[i]) = p[i]
      /\ \A i \in 1..Len(t) : c <= t[i] /\ t[i] < d /\ ShownAt(at, t[i]) = q[i]
  BY DEF Lists
<1>5. /\ \A i \in 1..n : s[i] \in Nat
      /\ \A i \in 1..Len(t) : t[i] \in Nat
  <2>1. ASSUME NEW x \in Seq(Nat) PROVE \A i \in 1..Len(x) : x[i] \in Nat
    OBVIOUS
  <2> QED BY ONLY <1>1, <2>1, Zenon
<1> HIDE DEF u, n
<1>6. ASSUME NEW i \in 1..(n + Len(t))
      PROVE  b <= u[i] /\ u[i] < d /\ ShownAt(at, u[i]) = (p \o q)[i]
  <2>1. CASE i <= n
    <3>1. /\ u[i] = s[i] /\ (p \o q)[i] = p[i]
          /\ b <= s[i] /\ s[i] < c /\ ShownAt(at, s[i]) = p[i] /\ s[i] \in Nat
      BY <1>3, <1>4, <1>5, <2>1
    <3>2. s[i] < d
      BY <3>1
    <3> QED BY <3>1, <3>2
  <2>2. CASE i > n
    <3>1. /\ u[i] = t[i - n] /\ (p \o q)[i] = q[i - n]
          /\ c <= t[i - n] /\ t[i - n] < d /\ t[i - n] \in Nat
          /\ ShownAt(at, t[i - n]) = q[i - n]
      BY <1>3, <1>4, <1>5, <2>2
    <3>2. b <= t[i - n]
      BY <3>1
    <3> QED BY <3>1, <3>2
  <2> QED BY <1>1, <2>1, <2>2
<1>7. ASSUME NEW i \in 1..(n + Len(t)), NEW j \in 1..(n + Len(t)), i < j
      PROVE  u[i] < u[j]
  <2>1. CASE j <= n
    <3>1. i \in 1..n /\ j \in 1..n /\ u[i] = s[i] /\ u[j] = s[j]
      <4>1. /\ i \in 1..(n + Len(t)) /\ j \in 1..(n + Len(t)) /\ i < j
            /\ n \in Nat /\ Len(t) \in Nat
        BY <1>1, <1>7
      <4>2. i \in 1..n /\ j \in 1..n /\ i <= n
        BY ONLY <4>1, <2>1
      <4> QED BY ONLY <1>3, <2>1, <4>1, <4>2
    <3> QED BY <1>7, <3>1 DEF Lists, Rising, n
  <2>2. CASE i > n
    <3>1. /\ i - n \in 1..Len(t) /\ j - n \in 1..Len(t) /\ i - n < j - n
          /\ u[i] = t[i - n] /\ u[j] = t[j - n]
      <4>1. /\ i \in 1..(n + Len(t)) /\ j \in 1..(n + Len(t)) /\ i < j
            /\ n \in Nat /\ Len(t) \in Nat
        BY <1>1, <1>7
      <4>2. j > n /\ i - n < j - n
        BY ONLY <4>1, <2>2
      <4> QED BY ONLY <1>3, <2>2, <4>1, <4>2
    <3> QED BY <3>1 DEF Lists, Rising
  <2>3. CASE i <= n /\ j > n
    <3>1. u[i] < c /\ c <= u[j] /\ u[i] \in Nat /\ u[j] \in Nat
      BY <1>3, <1>4, <1>5, <2>3
    <3> QED BY <3>1
  <2> QED BY <1>1, <2>1, <2>2, <2>3
<1>8. Rising(u)
  BY <1>2, <1>7 DEF Rising
<1> QED BY <1>2, <1>6, <1>8 DEF Lists, u

-----------------------------------------------------------------------------
(* What a walk meets.                                                      *)

\* Sequences of offsets.
LEMMA NatsJoined ==
  \A a, b \in Seq(Nat) : ToSet(a \o b) = ToSet(a) \cup ToSet(b)
  BY ToSetJoined

\* Offsets from b on that never fall.
Orderly(f, b) ==
  \A i \in 1..Len(f) : b <= f[i] /\ \A j \in i..Len(f) : f[i] <= f[j]

LEMMA OrderlyJoined ==
  ASSUME NEW b \in Nat, NEW c \in Nat, b <= c,
         NEW p \in Seq(Nat), NEW q \in Seq(Nat), Orderly(p, b), Orderly(q, c),
         \A x \in ToSet(p) : x <= c
  PROVE  p \o q \in Seq(Nat) /\ Orderly(p \o q, b)
<1> DEFINE u == p \o q
           n == Len(p)
<1>1. u \in Seq(Nat) /\ Len(u) = n + Len(q) /\ n \in Nat /\ Len(q) \in Nat
  OBVIOUS
<1>2. \A i \in 1..(n + Len(q)) :
        /\ i <= n => u[i] = p[i] /\ i \in 1..n
        /\ i > n => u[i] = q[i - n] /\ i - n \in 1..Len(q)
  OBVIOUS
<1>3. /\ \A i \in 1..n : p[i] \in Nat /\ b <= p[i] /\ p[i] <= c
      /\ \A i \in 1..Len(q) : q[i] \in Nat /\ c <= q[i]
  BY DEF Orderly, ToSet
<1>4. /\ \A i \in 1..n, j \in 1..n : i <= j => p[i] <= p[j]
      /\ \A i \in 1..Len(q), j \in 1..Len(q) : i <= j => q[i] <= q[j]
  BY DEF Orderly
<1> HIDE DEF u, n
<1>5. ASSUME NEW i \in 1..(n + Len(q)), NEW j \in i..(n + Len(q))
      PROVE  b <= u[i] /\ u[i] <= u[j]
  <2>0. j \in 1..(n + Len(q)) /\ i <= j /\ i \in Nat /\ j \in Nat
    BY <1>1
  <2>1. CASE j <= n
    <3>0. n \in Nat /\ Len(q) \in Nat /\ i \in 1..(n + Len(q))
      BY <1>1
    <3>1. i \in 1..n /\ j \in 1..n
      BY ONLY <2>0, <2>1, <3>0
    <3>2. u[i] = p[i] /\ u[j] = p[j]
      BY ONLY <1>2, <2>0, <2>1, <3>0, <3>1
    <3>3. b <= p[i]
      BY <1>3, <3>1
    <3>4. p[i] <= p[j]
      BY <1>4, <2>0, <3>1
    <3> QED BY ONLY <3>2, <3>3, <3>4
  <2>2. CASE i > n
    <3>0. n \in Nat /\ Len(q) \in Nat /\ i \in 1..(n + Len(q))
      BY <1>1
    <3>1. /\ j > n /\ i - n \in 1..Len(q) /\ j - n \in 1..Len(q)
          /\ i - n <= j - n
      BY ONLY <3>0, <2>0, <2>2
    <3>2. u[i] = q[i - n] /\ u[j] = q[j - n]
      BY ONLY <1>2, <2>0, <2>2, <3>0, <3>1
    <3>3. q[i - n] \in Nat /\ c <= q[i - n] /\ q[i - n] <= q[j - n]
      BY <1>3, <1>4, <3>1
    <3>4. b <= q[i - n]
      BY <3>3
    <3> QED BY ONLY <3>2, <3>3, <3>4
  <2>3. CASE i <= n /\ j > n
    <3>0. n \in Nat /\ Len(q) \in Nat /\ i \in 1..(n + Len(q))
      BY <1>1
    <3>1. /\ u[i] = p[i] /\ u[j] = q[j - n] /\ i \in 1..n
          /\ j - n \in 1..Len(q)
      BY ONLY <1>2, <2>0, <2>3, <3>0
    <3>2. /\ p[i] \in Nat /\ q[j - n] \in Nat /\ b <= p[i] /\ p[i] <= c
          /\ c <= q[j - n]
      BY <1>3, <3>1
    <3> QED BY <3>1, <3>2
  <2> QED BY <1>1, <2>0, <2>1, <2>2, <2>3
<1>6. ASSUME NEW i \in 1..Len(u) PROVE i \in i..(n + Len(q))
  BY <1>1
<1>7. Orderly(u, b)
  BY <1>1, <1>5, <1>6 DEF Orderly
<1> QED BY <1>1, <1>7 DEF u

LEMMA OrderlyOne ==
  ASSUME NEW b \in Nat
  PROVE  <<b>> \in Seq(Nat) /\ ToSet(<<b>>) = {b} /\ Orderly(<<b>>, b)
<1>1. Len(<<b>>) = 1 /\ <<b>>[1] = b
  OBVIOUS
<1>2. \A i \in 1..1 : i = 1 /\ \A j \in i..1 : j = 1
  OBVIOUS
<1>3. Orderly(<<b>>, b)
  BY <1>1, <1>2 DEF Orderly
<1> QED BY <1>3 DEF ToSet

\* The files of an EF and what is behind it, and those of a folder, what is
\* in it and what is behind it.
Once(b, behind)          == <<b>> \o behind
Twice(b, inside, behind) == <<b>> \o <<b>> \o inside \o behind

LEMMA OnceOrderly ==
  ASSUME NEW b \in Nat, NEW c \in Nat, b <= c,
         NEW q \in Seq(Nat), Orderly(q, c)
  PROVE  Orderly(Once(b, q), b)
<1> DEFINE f == <<b>>
<1>1. f \in Seq(Nat) /\ Orderly(f, b) /\ \A x \in ToSet(f) : x <= c
  BY OrderlyOne
<1> HIDE DEF f
<1>2. Orderly(f \o q, b)
  BY <1>1, OrderlyJoined
<1> QED BY <1>2 DEF Once, f

LEMMA TwiceOrderly ==
  ASSUME NEW b \in Nat, NEW d \in Nat, NEW c \in Nat, b <= d, d <= c,
         NEW p \in Seq(Nat), Orderly(p, d), \A x \in ToSet(p) : x <= c,
         NEW q \in Seq(Nat), Orderly(q, c)
  PROVE  Orderly(Twice(b, p, q), b)
<1> DEFINE f == <<b>>
<1>1. f \in Seq(Nat) /\ ToSet(f) = {b} /\ Orderly(f, b)
  BY OrderlyOne
<1> HIDE DEF f
<1>2. /\ f \o f \in Seq(Nat) /\ Orderly(f \o f, b)
      /\ \A x \in ToSet(f \o f) : x = b
  BY <1>1, OrderlyJoined, NatsJoined
<1> DEFINE g == f \o f
<1> HIDE DEF g
<1>3. g \in Seq(Nat) /\ Orderly(g, b) /\ \A x \in ToSet(g) : x = b
  BY <1>2 DEF g
<1>4. \A x \in ToSet(g) : x <= d
  BY <1>3
<1>5. g \o p \in Seq(Nat) /\ Orderly(g \o p, b)
  BY <1>3, <1>4, OrderlyJoined
<1>6. \A x \in ToSet(g \o p) : x <= c
  <2>1. ToSet(g \o p) = ToSet(g) \cup ToSet(p)
    BY <1>3, NatsJoined
  <2>2. b <= c
    OBVIOUS
  <2> QED BY <1>3, <2>1, <2>2
<1> DEFINE h == g \o p
<1> HIDE DEF h
<1>7. h \in Seq(Nat) /\ Orderly(h, b) /\ (\A x \in ToSet(h) : x <= c) /\ b <= c
  BY <1>5, <1>6 DEF h
<1>8. Orderly(h \o q, b)
  BY <1>7, OrderlyJoined
<1> QED BY <1>8 DEF Twice, h, g, f

\* Without the first of the two.
LEMMA TwiceOnce ==
  ASSUME NEW b \in Nat, NEW q \in Seq(Nat), Orderly(Twice(b, q, << >>), b)
  PROVE  Once(b, q) \in Seq(Nat) /\ Orderly(Once(b, q), b)
<1> DEFINE y == Twice(b, q, << >>)
           z == Once(b, q)
<1>1. /\ y \in Seq(Nat) /\ z \in Seq(Nat)
      /\ Len(y) = Len(q) + 2 /\ Len(z) = Len(q) + 1 /\ Len(q) \in Nat
  BY DEF Twice, Once
<1>2. \A i \in 1..(Len(q) + 1) : z[i] = y[i + 1]
  BY DEF Twice, Once
<1>3. \A i \in 1..(Len(q) + 2) :
        b <= y[i] /\ \A j \in i..(Len(q) + 2) : y[i] <= y[j]
  BY <1>1 DEF Orderly
<1> HIDE DEF y, z
<1>4. ASSUME NEW i \in 1..(Len(q) + 1)
      PROVE  b <= z[i] /\ \A j \in i..(Len(q) + 1) : z[i] <= z[j]
  <2>1. /\ i + 1 \in 1..(Len(q) + 2)
        /\ \A j \in i..(Len(q) + 1) : /\ j + 1 \in (i + 1)..(Len(q) + 2)
                                      /\ j \in 1..(Len(q) + 1)
    BY <1>1
  <2> QED BY <1>2, <1>3, <2>1
<1>5. Orderly(z, b)
  BY <1>1, <1>4 DEF Orderly
<1> QED BY <1>1, <1>5 DEF z

\* A walk that begins at b meets the files of p and goes on at c; if it is
\* in order from there it is in order.
Meets(at, W, b, c, p) ==
  \A e \in Nat : e >= c /\ W[<<b, e>>].end = "ok" =>
    /\ W[<<c, e>>].end = "ok"
    /\ \E s : /\ Lists(at, s, b, c, p)
              /\ ToSet(W[<<b, e>>].files)
                   = ToSet(s) \cup ToSet(W[<<c, e>>].files)
    /\ Orderly(W[<<c, e>>].files, c) => Orderly(W[<<b, e>>].files, b)

\* A walk that stays where it is meets nothing.
LEMMA MeetsNone ==
  ASSUME NEW at, NEW W, NEW b \in Nat
  PROVE  Meets(at, W, b, b, << >>)
<1>1. Lists(at, << >>, b, b, << >>)
  BY ListsNone
<1>2. ToSet(<< >>) = {}
  BY DEF ToSet
<1> QED BY <1>1, <1>2 DEF Meets

\* A walk meets one item after the other.
LEMMA MeetsJoined ==
  ASSUME NEW at, NEW W, NEW b \in Nat, NEW c \in Nat, NEW d \in Nat,
         b <= c, c <= d, NEW p, NEW q,
         Meets(at, W, b, c, p), Meets(at, W, c, d, q)
  PROVE  Meets(at, W, b, d, p \o q)
<1> SUFFICES ASSUME NEW e \in Nat, e >= d, W[<<b, e>>].end = "ok"
             PROVE  /\ W[<<d, e>>].end = "ok"
                    /\ \E s : /\ Lists(at, s, b, d, p \o q)
                              /\ ToSet(W[<<b, e>>].files)
                                   = ToSet(s) \cup ToSet(W[<<d, e>>].files)
                    /\ Orderly(W[<<d, e>>].files, d)
                         => Orderly(W[<<b, e>>].files, b)
  BY DEF Meets
<1>1. e >= c
  OBVIOUS
<1>2. /\ W[<<c, e>>].end = "ok"
      /\ \E s : /\ Lists(at, s, b, c, p)
                /\ ToSet(W[<<b, e>>].files)
                     = ToSet(s) \cup ToSet(W[<<c, e>>].files)
      /\ Orderly(W[<<c, e>>].files, c) => Orderly(W[<<b, e>>].files, b)
  BY <1>1 DEF Meets
<1>3. PICK s : /\ Lists(at, s, b, c, p)
               /\ ToSet(W[<<b, e>>].files)
                    = ToSet(s) \cup ToSet(W[<<c, e>>].files)
  BY <1>2
<1>4. /\ W[<<d, e>>].end = "ok"
      /\ \E t : /\ Lists(at, t, c, d, q)
                /\ ToSet(W[<<c, e>>].files)
                     = ToSet(t) \cup ToSet(W[<<d, e>>].files)
      /\ Orderly(W[<<d, e>>].files, d) => Orderly(W[<<c, e>>].files, c)
  BY <1>2 DEF Meets
<1>5. PICK t : /\ Lists(at, t, c, d, q)
               /\ ToSet(W[<<c, e>>].files)
                    = ToSet(t) \cup ToSet(W[<<d, e>>].files)
  BY <1>4
<1>6. Lists(at, s \o t, b, d, p \o q)
  BY <1>3, <1>5, ListsJoined
<1>7. ToSet(s \o t) = ToSet(s) \cup ToSet(t)
  <2>1. s \in Seq(Nat) /\ t \in Seq(Nat)
    BY <1>3, <1>5 DEF Lists
  <2> QED BY <2>1, ToSetJoined
<1> QED BY <1>2, <1>3, <1>4, <1>5, <1>6, <1>7

\* r stands at b, prel bytes behind the folder with the mark up.
Stands(at, r, b, prel, up) ==
  /\ r.ret = "SUCCESS" /\ Holds(at, b, r.len, r.at)
  /\ prel <= b /\ at[b - prel].mark = up

\* The header of a file that is held.
IsFileAt(at, b, item, prel, len, a, h) ==
  /\ b \in Nat /\ prel \in Nat /\ len \in Nat /\ a \in AtsTo(len)
  /\ item.type \in FileTypes /\ item.mark \in Nat
  /\ item.id \in Ids \cup {0} /\ item.sid \in Ids \cup {0}
  /\ item.rcrd_size \in Nat \cup {Bad}
  /\ h \in Nat \ {0} /\ h = HdrSize(item.type)
  /\ LET r == File(item, prel, len, a) IN Holds(at, b, r.len, r.at)

LEMMA FileHeld ==
  ASSUME NEW at, NEW b, NEW item, NEW prel, NEW len, NEW a, NEW h,
         IsFileAt(at, b, item, prel, len, a, h)
  PROVE  /\ File(item, prel, len, a).len = h + len
         /\ b \in DOMAIN at /\ at[b] = Header(item, prel, h + len)
         /\ Holds(at, b + h, len, a)
<1> DEFINE r == File(item, prel, len, a)
<1> SUFFICES ASSUME b \in Nat, prel \in Nat, len \in Nat, a \in AtsTo(len),
                    item.type \in FileTypes, item.mark \in Nat,
                    item.id \in Ids \cup {0}, item.sid \in Ids \cup {0},
                    item.rcrd_size \in Nat \cup {Bad}, h \in Nat \ {0},
                    h = HdrSize(item.type), Holds(at, b, r.len, r.at)
             PROVE  /\ r.len = h + len
                    /\ b \in DOMAIN at /\ at[b] = Header(item, prel, h + len)
                    /\ Holds(at, b + h, len, a)
  BY DEF IsFileAt
<1> DEFINE hdr == Header(item, prel, h + len)
           one == [o \in {0} |-> hdr]
           c   == Joined(one, Moved(a, h))
<1>1. r.len = h + len /\ r.at = c
  BY DEF File, Parsed
<1>2. \A o \in DOMAIN a : o \in Nat
  <2>1. PICK D \in SUBSET (0..(len - 1)) : a \in [D -> Headers]
    BY DEF AtsTo
  <2> QED BY <2>1
<1>3. hdr \in Headers
  BY DEF Header, Headers
<1>4. one \in AtsTo(h)
  <2>1. one \in [{0} -> Headers] /\ {0} \in SUBSET (0..(h - 1))
    BY <1>3
  <2> HIDE DEF one
  <2> QED BY <2>1 DEF AtsTo
<1>5. 0 \in DOMAIN c /\ c[0] = hdr
  BY DEF Joined
<1> HIDE DEF c
<1>6. Holds(at, b, h + len, c)
  BY <1>1
<1>7. 0 \in 0..(h + len - 1) /\ b + 0 = b
  OBVIOUS
<1>8. b \in DOMAIN at /\ at[b] = hdr
  BY <1>5, <1>6, <1>7 DEF Holds
<1> HIDE DEF one
<1>9. Holds(at, b + h, len, a)
  BY <1>2, <1>4, <1>6, HoldsBack DEF c
<1> QED BY <1>1, <1>8, <1>9

\* What a walk does at a file: it meets it and what is in it and goes on.
Met(b, inside, behind) == {b} \cup inside \cup behind

LEMMA WalkStep ==
  ASSUME NEW at, NEW W, IsWalk(W, at), NEW b \in Nat, NEW e \in Nat,
         b < e, W[<<b, e>>].end = "ok"
  PROVE  /\ b \in DOMAIN at /\ at[b].size # 0
         /\ at[b].size \in Nat /\ HdrSize(at[b].type) \in Nat =>
              /\ W[<<b + at[b].size, e>>].end = "ok"
              /\ at[b].type \notin FolderTypes =>
                   /\ ToSet(W[<<b, e>>].files)
                        = Met(b, {}, ToSet(W[<<b + at[b].size, e>>].files))
                   /\ W[<<b, e>>].files
                        = Once(b, W[<<b + at[b].size, e>>].files)
              /\ at[b].type \in FolderTypes =>
                   /\ W[Inside(at, b)].end = "ok"
                   /\ ToSet(W[<<b, e>>].files)
                        = Met(b, ToSet(W[Inside(at, b)].files),
                              ToSet(W[<<b + at[b].size, e>>].files))
                   /\ W[<<b, e>>].files
                        = Twice(b, W[Inside(at, b)].files,
                                W[<<b + at[b].size, e>>].files)
<1> DEFINE r    == <<b, e>>
           rest == W[<<b + at[b].size, e>>]
           sub  == W[Inside(at, b)]
           x    == <<b>> \o rest.files
           y    == <<b>> \o <<b>> \o sub.files \o rest.files
<1>1. W[r] = FilesWithin(at, W, r) /\ r[1] = b /\ r[2] = e
  BY DEF IsWalk
<1>2. W[r] = IF b >= e THEN Walked("ok", << >>)
             ELSE IF b \notin DOMAIN at THEN Walked("error", << >>)
             ELSE IF at[b].size = 0 THEN Walked("never", << >>)
             ELSE IF at[b].type \notin FolderTypes THEN Walked(rest.end, x)
             ELSE Walked(IF sub.end = "ok" THEN rest.end ELSE sub.end, y)
  BY <1>1, Zenon DEF FilesWithin
<1>3. ~(b >= e)
  OBVIOUS
<1> HIDE DEF x, y, rest, sub, r
<1>4. b \in DOMAIN at /\ at[b].size # 0
  <2>1. W[r].end = "ok"
    BY DEF r
  <2> QED BY <1>2, <1>3, <2>1 DEF Walked
<1>5. ASSUME at[b].size \in Nat, HdrSize(at[b].type) \in Nat
      PROVE  /\ rest.end = "ok"
             /\ at[b].type \notin FolderTypes =>
                  /\ ToSet(W[r].files) = {b} \cup ToSet(rest.files)
                  /\ W[r].files = Once(b, rest.files)
             /\ at[b].type \in FolderTypes =>
                  /\ sub.end = "ok"
                  /\ ToSet(W[r].files)
                       = {b} \cup ToSet(sub.files) \cup ToSet(rest.files)
                  /\ W[r].files = Twice(b, sub.files, rest.files)
  <2>1. rest.files \in Seq(Nat) /\ sub.files \in Seq(Nat)
    <3>1. /\ <<b + at[b].size, e>> \in Nat \X Nat
          /\ Inside(at, b) \in Nat \X Nat
      BY <1>5 DEF Inside
    <3> QED BY <3>1 DEF IsWalk, rest, sub
  <2>2. W[r].end = "ok"
    BY DEF r
  <2>3. <<b>> \in Seq(Nat) /\ ToSet(<<b>>) = {b}
    BY DEF ToSet
  <2> DEFINE p == rest.files
             q == sub.files
             f == <<b>>
  <2> HIDE DEF p, q, f
  <2>4. ToSet(f \o p) = ToSet(f) \cup ToSet(p)
    <3>1. f \in Seq(Nat) /\ p \in Seq(Nat)
      BY <2>1, <2>3 DEF p, f
    <3> QED BY <3>1, NatsJoined
  <2>5. ToSet(((f \o f) \o q) \o p) = ToSet(f) \cup ToSet(q) \cup ToSet(p)
    <3>1. f \in Seq(Nat) /\ p \in Seq(Nat) /\ q \in Seq(Nat)
      BY <2>1, <2>3 DEF p, q, f
    <3>2. f \o f \in Seq(Nat) /\ (f \o f) \o q \in Seq(Nat)
      BY <3>1, Concatenated
    <3>3. /\ ToSet(f \o f) = ToSet(f) \cup ToSet(f)
          /\ ToSet((f \o f) \o q) = ToSet(f \o f) \cup ToSet(q)
          /\ ToSet(((f \o f) \o q) \o p) = ToSet((f \o f) \o q) \cup ToSet(p)
      BY <3>1, <3>2, NatsJoined
    <3> QED BY <3>3
  <2>6. /\ ToSet(x) = {b} \cup ToSet(rest.files)
        /\ ToSet(y) = {b} \cup ToSet(sub.files) \cup ToSet(rest.files)
    BY <2>3, <2>4, <2>5 DEF x, y, p, q, f
  <2>9. x = Once(b, rest.files) /\ y = Twice(b, sub.files, rest.files)
    BY DEF x, y, Once, Twice
  <2>7. CASE at[b].type \notin FolderTypes
    <3>1. W[r] = Walked(rest.end, x)
      BY <1>2, <1>3, <1>4, <2>7
    <3>2. W[r].end = rest.end /\ W[r].files = x
      BY <3>1 DEF Walked
    <3> QED BY <2>2, <2>6, <2>7, <2>9, <3>2
  <2>8. CASE at[b].type \in FolderTypes
    <3>1. W[r] = Walked(IF sub.end = "ok" THEN rest.end ELSE sub.end, y)
      BY <1>2, <1>3, <1>4, <2>8
    <3>2. /\ W[r].end = IF sub.end = "ok" THEN rest.end ELSE sub.end
          /\ W[r].files = y
      BY <3>1 DEF Walked
    <3>3. sub.end = "ok" /\ rest.end = "ok"
      BY <2>2, <3>2
    <3> QED BY <2>6, <2>8, <2>9, <3>2, <3>3
  <2> QED BY <2>7, <2>8
<1> QED BY <1>4, <1>5 DEF r, rest, sub, Met

\* A walk ends where it is to end.
LEMMA WalkEnds ==
  ASSUME NEW at, NEW W, IsWalk(W, at), NEW b \in Nat
  PROVE  W[<<b, b>>].files = << >> /\ ToSet(W[<<b, b>>].files) = {}
<1>1. W[<<b, b>>] = FilesWithin(at, W, <<b, b>>)
  BY DEF IsWalk
<1>2. <<b, b>>[1] = b /\ <<b, b>>[2] = b /\ b >= b
  OBVIOUS
<1>3. FilesWithin(at, W, <<b, b>>) = Walked("ok", << >>)
  BY <1>2 DEF FilesWithin
<1> QED BY <1>1, <1>3 DEF ToSet, Walked

\* Data has no header, and a walk over any fails.
LEMMA DataMeets ==
  ASSUME NEW at, NEW W, IsWalk(W, at), NEW b \in Nat, NEW n,
         NEW room, NEW r, r = PrsData(n, room), r.ret = "SUCCESS",
         n \in Nat \cup {Bad}, Holds(at, b, r.len, r.at)
  PROVE  r.len \in Nat /\ Meets(at, W, b, b + r.len, << >>)
<1>1. n \in Nat /\ r.len = n /\ r.at = NoHeaders
  BY DEF PrsData, Fails, TooShort, Parsed
<1>2. CASE n = 0
  <2>1. b + r.len = b
    BY <1>1, <1>2
  <2> QED BY <1>1, <2>1, MeetsNone
<1>3. CASE n # 0
  <2>1. 0 \in 0..(n - 1) /\ b + 0 = b
    BY <1>1, <1>3
  <2>2. 0 \notin DOMAIN NoHeaders
    BY DEF NoHeaders
  <2>3. b \notin DOMAIN at
    BY <1>1, <2>1, <2>2 DEF Holds
  <2>4. ASSUME NEW e \in Nat, e >= b + r.len, W[<<b, e>>].end = "ok"
        PROVE  FALSE
    <3>1. b < e
      BY <1>1, <1>3, <2>4
    <3> QED BY <2>3, <2>4, <3>1, WalkStep
  <2> QED BY <1>1, <2>4 DEF Meets
<1> QED BY <1>2, <1>3

\* Headers are at natural offsets.
LEMMA AtsInNat ==
  ASSUME NEW len \in Nat, NEW at \in AtsTo(len)
  PROVE  \A o \in DOMAIN at : o \in Nat
<1>1. PICK D \in SUBSET (0..(len - 1)) : at \in [D -> Headers]
  BY DEF AtsTo
<1>2. DOMAIN at = D
  BY <1>1
<1> QED BY <1>1, <1>2

\* A function on 1..n is a sequence.
LEMMA FunctionIsSeq ==
  ASSUME NEW E, NEW n \in Nat, NEW f \in [1..n -> E]
  PROVE  f \in Seq(E) /\ Len(f) = n
  OBVIOUS

\* What is known of the parts of a folder: sub parses them, pre describes
\* them.
PartsMeet(at, W, item, sub, pre) ==
  \A i \in 1..Len(item.items), prel \in Nat, left \in Nat :
    LET r == sub[<<item.items[i], prel, left>>]
    IN /\ r.len \in Nat /\ r.at \in AtsTo(r.len)
       /\ \A c \in Nat :
            Stands(at, r, c, prel, item.mark) =>
              Meets(at, W, c, c + r.len, pre[<<item.items[i], item.mark>>])

PartsShown(item, pre) ==
  \A i \in 1..Len(item.items) :
    pre[<<item.items[i], item.mark>>] \in Seq(FileShown)

PartsParsed(g, item, room, measured) ==
  \A k \in 0..Len(item.items) : \E t \in Nat : Facts(g[k], t, room, measured)

\* A folder stands at b whose N parts have been parsed, which gave g.
IsFolderAt(at, W, b, item, h, N, sub, pre, room, g) ==
  /\ IsWalk(W, at) /\ b \in Nat /\ at[b].mark = item.mark
  /\ item.type \in FolderTypes /\ item.mark \in Nat
  /\ h \in Nat /\ h = HdrSize(item.type)
  /\ N \in Nat /\ N = Parts(item) /\ N = Len(item.items)
  /\ room \in Nat /\ IsParts(g, sub, item, room, N)
  /\ PartsParsed(g, item, room, FALSE) /\ PartsShown(item, pre)
  /\ PartsMeet(at, W, item, sub, pre)
  /\ g[N].ret = "SUCCESS" /\ Holds(at, b + h, g[N].len, g[N].at)

\* By induction over the parts: a walk through the folder meets them all.
LEMMA FolderPartsMeet ==
  ASSUME NEW at, NEW W, NEW b, NEW item, NEW h, NEW N, NEW sub, NEW pre,
         NEW room, NEW g,
         IsFolderAt(at, W, b, item, h, N, sub, pre, room, g)
  PROVE  Meets(at, W, b + h, b + h + g[N].len,
               FlattenSeq([i \in 1..N |-> pre[<<item.items[i], item.mark>>]]))
<1> SUFFICES ASSUME IsWalk(W, at), b \in Nat, at[b].mark = item.mark,
                    item.type \in FolderTypes, item.mark \in Nat,
                    h \in Nat, h = HdrSize(item.type),
                    N \in Nat, N = Parts(item), N = Len(item.items),
                    room \in Nat, IsParts(g, sub, item, room, N),
                    PartsParsed(g, item, room, FALSE), PartsShown(item, pre),
                    PartsMeet(at, W, item, sub, pre),
                    g[N].ret = "SUCCESS", Holds(at, b + h, g[N].len, g[N].at)
             PROVE  Meets(at, W, b + h, b + h + g[N].len,
                          FlattenSeq([i \in 1..N |->
                                        pre[<<item.items[i], item.mark>>]]))
  BY DEF IsFolderAt
<1> DEFINE seqs == [i \in 1..N |-> pre[<<item.items[i], item.mark>>]]
           F == FileShown
           base == b + h
<1>1. seqs \in Seq(Seq(F)) /\ Len(seqs) = N
  <2> HIDE DEF F
  <2>1. seqs \in [1..N -> Seq(F)]
    <3>1. \A i \in 1..N : pre[<<item.items[i], item.mark>>] \in Seq(F)
      BY ONLY PartsShown(item, pre), N = Len(item.items), Zenon
         DEF F, PartsShown
    <3> HIDE DEF F
    <3> QED BY ONLY <3>1
  <2> HIDE DEF seqs
  <2> QED BY <2>1, FunctionIsSeq
<1>2. PICK p : /\ p[0] = << >> /\ p[N] = FlattenSeq(seqs)
               /\ \A k \in 1..N : p[k] = p[k - 1] \o seqs[k]
  <2> HIDE DEF F, seqs
  <2>1. PICK q : /\ q[0] = << >> /\ q[Len(seqs)] = FlattenSeq(seqs)
                 /\ \A k \in 1..Len(seqs) : q[k] = q[k - 1] \o seqs[k]
                 /\ \A k \in 0..Len(seqs) : q[k] \in Seq(F)
    <3>1. seqs \in Seq(Seq(F))
      BY <1>1
    <3> QED BY ONLY <3>1, FlattenIs
  <2> QED BY <1>1, <2>1
<1>3. \A k \in 0..N : g[k] = IF k = 0 THEN Parsed(0, NoHeaders)
                              ELSE NextPart(sub, item, room, g[k - 1], k)
  BY DEF IsParts, PartsStep
<1> DEFINE S == {k \in Nat : k <= N =>
                   (g[k].ret = "SUCCESS" /\ Holds(at, base, g[k].len, g[k].at)
                      => Meets(at, W, base, base + g[k].len, p[k]))}
<1>4. 0 \in S
  <2>1. g[0].len = 0
    BY <1>3 DEF Parsed
  <2>2. base \in Nat /\ base + 0 = base
    OBVIOUS
  <2> HIDE DEF base
  <2>3. Meets(at, W, base, base + g[0].len, p[0])
    BY <1>2, <2>1, <2>2, MeetsNone
  <2> QED BY <2>3
<1>5. ASSUME NEW k \in Nat, k \in S PROVE k + 1 \in S
  <2> SUFFICES ASSUME k + 1 <= N, g[k + 1].ret = "SUCCESS",
                      Holds(at, base, g[k + 1].len, g[k + 1].at)
               PROVE  Meets(at, W, base, base + g[k + 1].len, p[k + 1])
    OBVIOUS
  <2>0. k <= N /\ g[k].ret = "SUCCESS" /\ Holds(at, base, g[k].len, g[k].at)
          => Meets(at, W, base, base + g[k].len, p[k])
    BY <1>5
  <2> HIDE DEF S
  <2>1. /\ k + 1 \in 1..N /\ k + 1 \in 0..N /\ k \in 0..N
        /\ (k + 1) - 1 = k /\ k + 1 # 0
    OBVIOUS
  <2> DEFINE done == g[k]
             left == room - done.len
             prel == PartsOffset(item) + done.len
             r    == sub[<<item.items[k + 1], prel, left>>]
  <2>2. g[k + 1] = NextPart(sub, item, room, done, k + 1)
    BY <1>3, <2>1
  <2>3. done.ret = "SUCCESS"
    BY <2>2 DEF NextPart
  <2>4. /\ done.len \in Nat /\ done.at \in AtsTo(done.len)
        /\ done.len <= room
    <3>1. PICK t \in Nat : Facts(done, t, room, FALSE)
      BY <2>1 DEF PartsParsed
    <3> QED BY <2>3, <3>1 DEF Facts
  <2>5. item.type \notin RecordTypes
    BY DEF FolderTypes, RecordTypes
  <2>6. g[k + 1] = AddItem(done, r)
    BY <2>2, <2>3, <2>5 DEF NextPart
  <2>7. left \in Nat /\ prel \in Nat /\ prel = h + done.len
    <3>1. PICK l : l = done.len
      OBVIOUS
    <3>2. l \in Nat /\ room - l \in Nat /\ h + l \in Nat
      BY <2>4, <3>1
    <3>3. left = room - l /\ prel = h + l
      BY <3>1, Zenon DEF PartsOffset
    <3> QED BY ONLY <3>1, <3>2, <3>3, Zenon
  <2> HIDE DEF done, left, prel
  <2>8. /\ r.len \in Nat /\ r.at \in AtsTo(r.len)
        /\ \A c \in Nat : Stands(at, r, c, prel, item.mark) =>
             Meets(at, W, c, c + r.len, seqs[k + 1])
    BY <2>1, <2>7 DEF PartsMeet
  <2> HIDE DEF r, seqs
  <2>9. r.ret = "SUCCESS" /\ g[k + 1] = Behind(done, r.len, r)
    <3>1. CASE r.ret # "SUCCESS"
      BY <2>6, <3>1 DEF AddItem, Fails
    <3> QED BY <2>6, <3>1 DEF AddItem
  <2>10. /\ g[k + 1].len = done.len + r.len
         /\ g[k + 1].at = Joined(done.at, Moved(r.at, done.len))
    BY <2>9 DEF Behind, Parsed
  <2>11. \A o \in DOMAIN r.at : o \in Nat
    BY <2>8, AtsInNat
  <2>12. /\ Holds(at, base, done.len, done.at)
         /\ Holds(at, base + done.len, r.len, r.at)
    <3>1. Holds(at, base, done.len + r.len,
                Joined(done.at, Moved(r.at, done.len)))
      BY <2>10
    <3>2. base \in Nat
      OBVIOUS
    <3> HIDE DEF base
    <3> DEFINE a == r.at
    <3> HIDE DEF a
    <3>3. /\ Holds(at, base, done.len + r.len,
                   Joined(done.at, Moved(a, done.len)))
          /\ \A o \in DOMAIN a : o \in Nat
      BY <2>11, <3>1 DEF a
    <3>4. Holds(at, base, done.len, done.at)
      BY <2>4, <2>8, <3>2, <3>3, HoldsFront
    <3>5. Holds(at, base + done.len, r.len, a)
      BY <2>4, <2>8, <3>2, <3>3, HoldsBack
    <3> QED BY <3>4, <3>5 DEF a
  <2>13. Meets(at, W, base, base + done.len, p[k])
    BY <2>0, <2>1, <2>3, <2>12 DEF done
  <2>14. Stands(at, r, base + done.len, prel, item.mark)
    <3> DEFINE l == done.len
    <3> HIDE DEF l
    <3>0. l \in Nat /\ prel = h + l
      BY <2>4, <2>7 DEF l
    <3>1. prel <= base + l /\ (base + l) - prel = b
      BY <3>0
    <3> QED BY <2>9, <2>12, <3>1 DEF Stands, l
  <2>15. Meets(at, W, base + done.len, (base + done.len) + r.len, seqs[k + 1])
    <3>1. base + done.len \in Nat
      BY <2>4
    <3> QED BY <2>8, <2>14, <3>1
  <2>16. p[k + 1] = p[k] \o seqs[k + 1]
    BY <1>2, <2>1
  <2>17. /\ base \in Nat /\ base + done.len \in Nat
         /\ (base + done.len) + r.len \in Nat
         /\ base <= base + done.len
         /\ base + done.len <= (base + done.len) + r.len
         /\ base + g[k + 1].len = (base + done.len) + r.len
    <3>1. done.len \in Nat /\ r.len \in Nat /\ base \in Nat
      BY <2>4, <2>8
    <3>2. g[k + 1].len = done.len + r.len
      BY <2>10
    <3> DEFINE x == done.len
               y == r.len
               z == g[k + 1].len
    <3> HIDE DEF base, x, y, z
    <3>3. base \in Nat /\ x \in Nat /\ y \in Nat /\ z = x + y
      BY <3>1, <3>2 DEF x, y, z
    <3>4. /\ base + x \in Nat /\ (base + x) + y \in Nat
          /\ base <= base + x /\ base + x <= (base + x) + y
          /\ base + z = (base + x) + y
      BY ONLY <3>3, SMT
    <3> QED BY <3>3, <3>4, Zenon DEF x, y, z
  <2> HIDE DEF base
  <2>18. Meets(at, W, base, (base + done.len) + r.len, p[k] \o seqs[k + 1])
    BY <2>13, <2>15, <2>17, MeetsJoined
  <2> QED BY <2>16, <2>17, <2>18
<1> HIDE DEF S, base
<1>6. \A k \in Nat : k \in S
  BY <1>4, <1>5, InductionOver
<1>7. Meets(at, W, base, base + g[N].len, p[N])
  BY <1>6 DEF S, base
<1> QED BY <1>2, <1>7 DEF base

\* What is said of a file whose header stands at b.
LEMMA HeaderShown ==
  ASSUME NEW at, NEW b \in Nat, NEW item, NEW prel \in Nat, NEW n,
         at[b] = Header(item, prel, n), NEW up, at[b - prel].mark = up
  PROVE  ShownAt(at, b) = [mark |-> item.mark, up |-> up,
                           id |-> item.id, sid |-> item.sid]
  BY DEF ShownAt, Header

\* A walk that meets an EF.
LEMMA EfMeets ==
  ASSUME NEW at, NEW W, IsWalk(W, at), NEW b \in Nat, NEW c \in Nat,
         b \in DOMAIN at, at[b].type \in FileTypes \ FolderTypes,
         at[b].size \in Nat \ {0}, c = b + at[b].size,
         NEW f \in FileShown, ShownAt(at, b) = f
  PROVE  Meets(at, W, b, c, <<f>>)
<1> SUFFICES ASSUME NEW e \in Nat, e >= c, W[<<b, e>>].end = "ok"
             PROVE  /\ W[<<c, e>>].end = "ok"
                    /\ \E s : /\ Lists(at, s, b, c, <<f>>)
                              /\ ToSet(W[<<b, e>>].files)
                                   = ToSet(s) \cup ToSet(W[<<c, e>>].files)
                    /\ Orderly(W[<<c, e>>].files, c)
                         => Orderly(W[<<b, e>>].files, b)
  BY DEF Meets
<1>1. b < c /\ b < e
  OBVIOUS
<1>2. HdrSize(at[b].type) \in Nat
  BY HdrSizeNat
<1>3. /\ W[<<c, e>>].end = "ok"
      /\ ToSet(W[<<b, e>>].files) = {b} \cup ToSet(W[<<c, e>>].files)
      /\ W[<<b, e>>].files = Once(b, W[<<c, e>>].files)
  <2>1. at[b].size \in Nat /\ at[b].type \notin FolderTypes
    OBVIOUS
  <2>2. /\ W[<<b + at[b].size, e>>].end = "ok"
        /\ ToSet(W[<<b, e>>].files)
             = Met(b, {}, ToSet(W[<<b + at[b].size, e>>].files))
        /\ W[<<b, e>>].files = Once(b, W[<<b + at[b].size, e>>].files)
    BY <1>1, <1>2, <2>1, WalkStep
  <2> QED BY <2>2 DEF Met
<1>4. ToSet(<<b>>) = {b}
  BY DEF ToSet
<1>5. Lists(at, <<b>>, b, c, <<f>>)
  BY <1>1, ListsOne
<1>6. Orderly(W[<<c, e>>].files, c) => Orderly(W[<<b, e>>].files, b)
  <2>1. <<c, e>> \in Nat \X Nat /\ b <= c
    BY <1>1
  <2> DEFINE q == W[<<c, e>>].files
  <2>2. q \in Seq(Nat)
    BY <2>1 DEF IsWalk
  <2> HIDE DEF q
  <2>3. Orderly(q, c) => Orderly(Once(b, q), b)
    BY <2>1, <2>2, OnceOrderly
  <2> QED BY <1>3, <2>3 DEF q
<1> QED BY <1>3, <1>4, <1>5, <1>6

\* A walk that meets a folder goes through what is in it.
LEMMA FolderMeets ==
  ASSUME NEW at, NEW W, IsWalk(W, at), NEW b \in Nat, NEW d \in Nat,
         NEW c \in Nat, b < d, d <= c,
         b \in DOMAIN at, at[b].type \in FolderTypes, at[b].size \in Nat,
         c = b + at[b].size, Inside(at, b) = <<d, c>>,
         NEW f \in FileShown, ShownAt(at, b) = f,
         NEW p, Meets(at, W, d, c, p)
  PROVE  Meets(at, W, b, c, <<f>> \o p)
<1> SUFFICES ASSUME NEW e \in Nat, e >= c, W[<<b, e>>].end = "ok"
             PROVE  /\ W[<<c, e>>].end = "ok"
                    /\ \E s : /\ Lists(at, s, b, c, <<f>> \o p)
                              /\ ToSet(W[<<b, e>>].files)
                                   = ToSet(s) \cup ToSet(W[<<c, e>>].files)
                    /\ Orderly(W[<<c, e>>].files, c)
                         => Orderly(W[<<b, e>>].files, b)
  BY DEF Meets
<1>1. b < e
  OBVIOUS
<1>2. HdrSize(at[b].type) \in Nat
  BY HdrSizeNat DEF FileTypes
<1>3. /\ W[<<c, e>>].end = "ok" /\ W[<<d, c>>].end = "ok"
      /\ ToSet(W[<<b, e>>].files)
           = {b} \cup ToSet(W[<<d, c>>].files) \cup ToSet(W[<<c, e>>].files)
      /\ W[<<b, e>>].files
           = Twice(b, W[<<d, c>>].files, W[<<c, e>>].files)
  <2>1. /\ W[<<b + at[b].size, e>>].end = "ok" /\ W[Inside(at, b)].end = "ok"
        /\ ToSet(W[<<b, e>>].files)
             = Met(b, ToSet(W[Inside(at, b)].files),
                   ToSet(W[<<b + at[b].size, e>>].files))
        /\ W[<<b, e>>].files
             = Twice(b, W[Inside(at, b)].files,
                     W[<<b + at[b].size, e>>].files)
    BY <1>1, <1>2, WalkStep
  <2> QED BY <2>1 DEF Met
<1>4. /\ \E s : /\ Lists(at, s, d, c, p)
                /\ ToSet(W[<<d, c>>].files)
                     = ToSet(s) \cup ToSet(W[<<c, c>>].files)
      /\ Orderly(W[<<c, c>>].files, c) => Orderly(W[<<d, c>>].files, d)
  <2>1. c >= c
    OBVIOUS
  <2> QED BY <1>3, <2>1 DEF Meets
<1>5. PICK s : /\ Lists(at, s, d, c, p)
               /\ ToSet(W[<<d, c>>].files)
                    = ToSet(s) \cup ToSet(W[<<c, c>>].files)
  BY <1>4
<1>6. W[<<c, c>>].files = << >> /\ ToSet(W[<<c, c>>].files) = {}
  BY WalkEnds
<1>7. Lists(at, <<b>>, b, d, <<f>>)
  BY ListsOne
<1>8. Lists(at, <<b>> \o s, b, c, <<f>> \o p)
  <2>1. b <= d
    OBVIOUS
  <2> QED BY <1>5, <1>7, <2>1, ListsJoined
<1>9. ToSet(<<b>> \o s) = {b} \cup ToSet(s)
  <2>1. ToSet(<<b>>) = {b} /\ <<b>> \in Seq(Nat)
    BY DEF ToSet
  <2>2. s \in Seq(Nat)
    BY <1>5 DEF Lists
  <2> QED BY <2>1, <2>2, NatsJoined
<1>10. ASSUME Orderly(W[<<c, e>>].files, c)
       PROVE  Orderly(W[<<b, e>>].files, b)
  <2> DEFINE x == W[<<d, c>>].files
             q == W[<<c, e>>].files
  <2>1. x \in Seq(Nat) /\ q \in Seq(Nat)
    <3>1. <<d, c>> \in Nat \X Nat /\ <<c, e>> \in Nat \X Nat
      OBVIOUS
    <3> QED BY <3>1 DEF IsWalk
  <2>2. Orderly(x, d)
    <3>1. Orderly(<< >>, c)
      BY DEF Orderly
    <3> QED BY <1>4, <1>6, <3>1
  <2>3. \A o \in ToSet(x) : o <= c
    <3>1. ToSet(x) = ToSet(s)
      BY <1>5, <1>6, Zenon
    <3>2. \A i \in 1..Len(s) : s[i] \in Nat /\ s[i] < c
      <4>1. s \in Seq(Nat) /\ \A i \in 1..Len(s) : s[i] < c
        BY ONLY <1>5 DEF Lists
      <4> QED BY ONLY <4>1
    <3>3. \A o \in ToSet(s) : o <= c
      <4>1. s \in Seq(Nat)
        BY <1>5 DEF Lists
      <4>2. ToSet(s) = {s[i] : i \in 1..Len(s)}
        <5>1. DOMAIN s = 1..Len(s)
          BY ONLY <4>1
        <5> QED BY ONLY <5>1, Zenon DEF ToSet
      <4>3. \A i \in 1..Len(s) : s[i] <= c
        BY <3>2
      <4> QED BY ONLY <4>2, <4>3
    <3> QED BY <3>1, <3>3
  <2>4. b <= d /\ Orderly(q, c)
    BY <1>10
  <2> HIDE DEF x, q
  <2>5. Orderly(Twice(b, x, q), b)
    BY <2>1, <2>2, <2>3, <2>4, TwiceOrderly
  <2> QED BY <1>3, <2>5 DEF x, q
<1> QED BY <1>3, <1>5, <1>6, <1>8, <1>9, <1>10

\* The description of an item, by level.
PreorderSub(n) == IF n = 0 THEN << >> ELSE Preorder[n - 1]

LEMMA PreorderAt ==
  ASSUME NEW n \in 0..Depth, NEW item \in Items[n], NEW up \in Nat
  PROVE  Preorder[n][<<item, up>>] = PreorderOf(PreorderSub(n), item, up)
<1>1. Preorder[n] = PreorderLevel(PreorderSub(n), n)
  BY PreorderIs DEF PreorderSub
<1>2. <<item, up>> \in Items[n] \X Nat
  OBVIOUS
<1> QED BY <1>1, <1>2 DEF PreorderLevel

\* The contents of a folder are its parts.
LEMMA FolderItems ==
  ASSUME NEW n \in 0..Depth, NEW item \in Items[n], item.type \in FolderTypes
  PROVE  /\ Len(item.items) \in Nat /\ Parts(item) = Len(item.items)
         /\ \A i \in 1..Len(item.items) :
              n > 0 /\ n - 1 \in 0..Depth /\ item.items[i] \in Items[n - 1]
<1>1. item.type # "TRANSPARENT"
  BY DEF FolderTypes
<1>2. Parts(item) = Len(item.items)
  BY <1>1 DEF Parts
<1> QED BY <1>2, ItemFacts

\* A description says of each file what a header shows.
LEMMA PreorderType ==
  \A n \in 0..Depth : \A item \in Items[n], up \in Nat :
    Preorder[n][<<item, up>>] \in Seq(FileShown)
<1> DEFINE S == {n \in Nat : n \in 0..Depth =>
                   \A item \in Items[n], up \in Nat :
                     Preorder[n][<<item, up>>] \in Seq(FileShown)}
<1>1. ASSUME NEW n \in 0..Depth, NEW item \in Items[n], NEW up \in Nat,
             n > 0 => \A it \in Items[n - 1], u \in Nat :
                        Preorder[n - 1][<<it, u>>] \in Seq(FileShown)
      PROVE  Preorder[n][<<item, up>>] \in Seq(FileShown)
  <2> DEFINE F    == FileShown
             pre  == PreorderSub(n)
             f    == [mark |-> item.mark, up |-> up, id |-> item.id,
                      sid |-> item.sid]
             seqs == [i \in 1..Len(item.items) |->
                        pre[<<item.items[i], item.mark>>]]
             more == IF item.type \in FolderTypes THEN FlattenSeq(seqs)
                     ELSE << >>
  <2>1. Preorder[n][<<item, up>>] =
          IF item.type = "DATA" THEN << >> ELSE <<f>> \o more
    BY PreorderAt DEF PreorderOf
  <2>2. f \in F /\ item.mark \in Nat
    BY ItemFacts DEF FileShown
  <2>3. item.type \in FolderTypes => seqs \in Seq(Seq(F))
    <3> SUFFICES ASSUME item.type \in FolderTypes PROVE seqs \in Seq(Seq(F))
      OBVIOUS
    <3>1. Len(item.items) \in Nat
      BY FolderItems
    <3>2. \A i \in 1..Len(item.items) :
            pre[<<item.items[i], item.mark>>] \in Seq(F)
      <4> TAKE i \in 1..Len(item.items)
      <4>1. n > 0 /\ item.items[i] \in Items[n - 1]
        BY FolderItems
      <4>2. pre = Preorder[n - 1]
        BY <4>1 DEF PreorderSub
      <4> QED BY <1>1, <2>2, <4>1, <4>2
    <3> HIDE DEF F, pre
    <3> QED BY <3>1, <3>2
  <2> HIDE DEF F, f, seqs
  <2>4. more \in Seq(F)
    <3>1. CASE item.type \in FolderTypes
      <4>1. FlattenSeq(seqs) \in Seq(F)
        <5>1. PICK g : /\ g[Len(seqs)] = FlattenSeq(seqs)
                       /\ \A k \in 0..Len(seqs) : g[k] \in Seq(F)
          BY <2>3, <3>1, FlattenIs
        <5>2. Len(seqs) \in 0..Len(seqs)
          BY <2>3, <3>1
        <5> QED BY <5>1, <5>2
      <4> QED BY <3>1, <4>1
    <3>2. CASE item.type \notin FolderTypes
      BY <3>2
    <3> QED BY <3>1, <3>2
  <2> HIDE DEF more
  <2>5. <<f>> \o more \in Seq(F) /\ << >> \in Seq(F)
    BY <2>2, <2>4
  <2>6. Preorder[n][<<item, up>>] \in Seq(F)
    BY <2>1, <2>5
  <2> QED BY <2>6 DEF F
<1>2. 0 \in S
  BY <1>1
<1>3. ASSUME NEW n \in Nat, n \in S PROVE n + 1 \in S
  <2> SUFFICES ASSUME n + 1 \in 0..Depth, NEW item \in Items[n + 1],
                      NEW up \in Nat
               PROVE  Preorder[n + 1][<<item, up>>] \in Seq(FileShown)
    OBVIOUS
  <2>1. n \in 0..Depth /\ (n + 1) - 1 = n
    BY DiskJsAssumption
  <2>2. \A it \in Items[n], u \in Nat :
          Preorder[n][<<it, u>>] \in Seq(FileShown)
    BY <1>3, <2>1
  <2>3. \A it \in Items[(n + 1) - 1], u \in Nat :
          Preorder[(n + 1) - 1][<<it, u>>] \in Seq(FileShown)
    BY <2>1, <2>2
  <2> QED BY <1>1, <2>3
<1> HIDE DEF S
<1>4. \A n \in Nat : n \in S
  BY <1>2, <1>3, InductionOver
<1>5. \A n \in 0..Depth : n \in Nat /\ n \in S
  BY <1>4, DiskJsAssumption
<1> QED BY <1>5, Zenon DEF S

-----------------------------------------------------------------------------
(* By induction over how deep items are nested: any item is met.           *)

\* What is nested, by level.
PrsSub(n)    == IF n = 0 THEN << >> ELSE Prs[n - 1]
NeededSub(n) == IF n = 0 THEN << >> ELSE Needed[n - 1]

\* What an item is parsed to.
LEMMA PrsAt ==
  ASSUME NEW n \in 0..Depth, NEW item \in Items[n], NEW prel \in Nat,
         NEW room \in Nat
  PROVE  /\ Prs[n][<<item, prel, room>>]
              = PrsDemux(PrsSub(n), item, prel, room)
         /\ Prs[n][<<item, prel, room>>].len \in Nat
         /\ Prs[n][<<item, prel, room>>].at
              \in AtsTo(Prs[n][<<item, prel, room>>].len)
<1>1. Prs[n] = PrsLevel(PrsSub(n), n)
  BY PrsIs DEF PrsSub
<1>2. room \in Int /\ <<item, prel, room>> \in Items[n] \X Nat \X Int
  OBVIOUS
<1>3. Facts(Prs[n][<<item, prel, room>>], Needed[n][item], room,
            Measured[n][item])
  BY PrsFacts
<1> QED BY <1>1, <1>2, <1>3 DEF PrsLevel, Facts

\* A file that is parsed is made up of its parts.
LEMMA FileParsed ==
  ASSUME NEW sub, NEW item, NEW prel, NEW room \in Nat,
         item.type \in FileTypes, ~Unsized(item),
         NEW h \in Nat, h = HdrSize(item.type),
         NEW r, r = PrsDemux(sub, item, prel, room), r.ret = "SUCCESS"
  PROVE  /\ h <= room /\ Bad \notin {item.id, item.sid}
         /\ PrsParts(sub, item, room - h).ret = "SUCCESS"
         /\ LET q == PrsParts(sub, item, room - h)
            IN r = File(item, prel, q.len, q.at)
<1> DEFINE q == PrsParts(sub, item, room - h)
           f == File(item, prel, q.len, q.at)
<1>0. item.type # "DATA"
  BY DEF FileTypes, FolderTypes, RecordTypes
<1>1. /\ TooShort.ret # "SUCCESS" /\ Fails("ERROR").ret # "SUCCESS"
      /\ \A how : Fails(how).ret = how
  BY DEF TooShort, Fails
<1>2. CASE item.type \in FolderTypes
  <2> DEFINE name == PrsData(item.name, NameLen)
  <2>1. r = IF room < h THEN TooShort
            ELSE IF name.ret # "SUCCESS" THEN Fails(name.ret)
            ELSE IF item.type = "ADF" /\ name.len < RidLen THEN Fails("ERROR")
            ELSE IF Bad \in {item.id, item.sid} THEN Fails("ERROR")
            ELSE IF q.ret # "SUCCESS" THEN q ELSE f
    BY <1>0, <1>2 DEF PrsDemux, PrsFolder
  <2> HIDE DEF q, f, name
  <2>2. ~(room < h) /\ Bad \notin {item.id, item.sid} /\ q.ret = "SUCCESS"
        /\ r = f
    BY <1>1, <2>1
  <2>3. h <= room
    BY <2>2
  <2> QED BY <2>2, <2>3 DEF q, f
<1>3. CASE item.type \notin FolderTypes
  <2>1. r = IF room - h < 0 THEN TooShort
            ELSE IF Bad \in {item.id, item.sid} THEN Fails("ERROR")
            ELSE IF item.type \in RecordTypes /\ item.rcrd_size > RcrdMax
                 THEN Fails("ERROR")
            ELSE IF q.ret # "SUCCESS" THEN q ELSE f
    BY <1>0, <1>3 DEF PrsDemux, PrsEf
  <2> HIDE DEF q, f
  <2>2. ~(room - h < 0) /\ Bad \notin {item.id, item.sid}
        /\ q.ret = "SUCCESS" /\ r = f
    BY <1>1, <2>1
  <2>3. h <= room
    BY <2>2
  <2> QED BY <2>2, <2>3 DEF q, f
<1> QED BY <1>2, <1>3

\* What a record EF without a size is parsed to.
LEMMA UnsizedParsed ==
  ASSUME NEW sub, NEW item, NEW prel, NEW room \in Nat, Unsized(item),
         NEW r, r = PrsDemux(sub, item, prel, room), r.ret = "SUCCESS"
  PROVE  r = PrsUnsized(item, prel, room) /\ room # 0
<1>1. /\ item.type \in FileTypes /\ item.type \notin FolderTypes
      /\ item.type # "DATA"
  BY DEF Unsized, RecordTypes, FolderTypes, FileTypes
<1> DEFINE h == HdrSize(item.type)
           u == PrsUnsized(item, prel, room)
<1>2. r = IF room - h < 0 THEN TooShort
          ELSE IF Bad \in {item.id, item.sid} THEN Fails("ERROR") ELSE u
  BY <1>1 DEF PrsDemux, PrsEf
<1>3. h \in Nat \ {0}
  BY <1>1, HdrSizeNat
<1>4. TooShort.ret # "SUCCESS" /\ Fails("ERROR").ret # "SUCCESS"
  BY DEF TooShort, Fails
<1> HIDE DEF h, u
<1>5. ~(room - h < 0) /\ r = u
  BY <1>2, <1>4
<1> QED BY <1>3, <1>5 DEF u

\* The parts of a file, one after the other.
LEMMA PartsOf ==
  ASSUME NEW n \in 0..Depth, NEW item \in Items[n], item.type # "DATA",
         ~Unsized(item), NEW room \in Nat
  PROVE  \E g : /\ IsParts(g, PrsSub(n), item, room, Parts(item))
                /\ PrsParts(PrsSub(n), item, room) = g[Parts(item)]
                /\ \A k \in 0..Parts(item) :
                     \E t \in Nat : Facts(g[k], t, room, FALSE)
<1> DEFINE lens == NeededSub(n)
           sub  == PrsSub(n)
           s    == Lengths(lens, item)
<1>1. /\ item.type \in FileTypes
      /\ item.type \in RecordTypes => item.rcrd_size \in Nat
      /\ Parts(item) \in Nat /\ HdrSize(item.type) \in Nat
  BY ItemFacts, HdrSizeNat DEF Unsized
<1>2. \A i \in 1..Parts(item), prel \in Nat, left \in Nat :
        LET r == sub[<<item.items[i], prel, left>>]
        IN /\ lens[item.items[i]] \in Nat
           /\ Facts(r, lens[item.items[i]], left, FALSE)
  <2> TAKE i \in 1..Parts(item), prel \in Nat, left \in Nat
  <2>1. n > 0 /\ n - 1 \in 0..Depth /\ item.items[i] \in Items[n - 1]
    BY ItemFacts
  <2>2. sub = Prs[n - 1] /\ lens = Needed[n - 1]
    BY <2>1 DEF PrsSub, NeededSub
  <2>3. Needed[n - 1][item.items[i]] \in Nat
    BY <2>1, NeededNat
  <2>4. Facts(Prs[n - 1][<<item.items[i], prel, left>>],
              Needed[n - 1][item.items[i]], left,
              Measured[n - 1][item.items[i]])
    BY <2>1, PrsFacts
  <2>5. Facts(Prs[n - 1][<<item.items[i], prel, left>>],
              Needed[n - 1][item.items[i]], left, FALSE)
    BY <2>4 DEF Facts
  <2> QED BY <2>2, <2>3, <2>5
<1> HIDE DEF lens, sub
<1>3. s \in Seq(Nat) /\ Len(s) = Parts(item)
  <2>1. \A i \in 1..Parts(item) : lens[item.items[i]] \in Nat
    <3>1. 0 \in Nat
      OBVIOUS
    <3> QED BY <1>2, <3>1
  <2> QED BY <1>1, <2>1 DEF Lengths
<1>4. PICK t : IsTotal(t, s, Parts(item))
  <2> HIDE DEF s
  <2> QED BY <1>1, <1>3, TotalIs
<1>5. PICK g : /\ IsParts(g, sub, item, room, Parts(item))
               /\ PrsParts(sub, item, room) = g[Parts(item)]
  BY <1>1, PartsIs
<1>6. \A k \in 0..Parts(item) : t[k] \in Nat /\ Facts(g[k], t[k], room, FALSE)
  BY <1>1, <1>2, <1>3, <1>4, <1>5, PartsFactsAll
<1> QED BY <1>5, <1>6 DEF sub

\* A walk meets the items of a level, wherever they stand.
LevelMeets(at, W, n) ==
  \A item \in Items[n], prel \in Nat, room \in Nat, b \in Nat, up \in Nat :
    LET r == Prs[n][<<item, prel, room>>]
    IN Stands(at, r, b, prel, up) =>
         Meets(at, W, b, b + r.len, Preorder[n][<<item, up>>])

\* So it does with the parts of a folder.
LEMMA PartsAreMet ==
  ASSUME NEW n \in 0..Depth, NEW item \in Items[n], item.type \in FolderTypes,
         NEW at, NEW W, n > 0 => LevelMeets(at, W, n - 1)
  PROVE  /\ PartsMeet(at, W, item, PrsSub(n), PreorderSub(n))
         /\ PartsShown(item, PreorderSub(n))
<1>1. item.mark \in Nat
  BY ItemFacts
<1>2. ASSUME NEW i \in 1..Len(item.items), NEW prel \in Nat, NEW left \in Nat
      PROVE  LET r == PrsSub(n)[<<item.items[i], prel, left>>]
             IN /\ r.len \in Nat /\ r.at \in AtsTo(r.len)
                /\ \A c \in Nat :
                     Stands(at, r, c, prel, item.mark) =>
                       Meets(at, W, c, c + r.len,
                             PreorderSub(n)[<<item.items[i], item.mark>>])
  <2>1. n > 0 /\ n - 1 \in 0..Depth /\ item.items[i] \in Items[n - 1]
    BY FolderItems
  <2>2. PrsSub(n) = Prs[n - 1] /\ PreorderSub(n) = Preorder[n - 1]
    BY <2>1 DEF PrsSub, PreorderSub
  <2> DEFINE r == Prs[n - 1][<<item.items[i], prel, left>>]
  <2>3. r.len \in Nat /\ r.at \in AtsTo(r.len)
    BY <2>1, PrsAt
  <2>4. \A c \in Nat : Stands(at, r, c, prel, item.mark) =>
          Meets(at, W, c, c + r.len,
                Preorder[n - 1][<<item.items[i], item.mark>>])
    BY <1>1, <2>1 DEF LevelMeets
  <2> QED BY <2>2, <2>3, <2>4
<1>3. ASSUME NEW i \in 1..Len(item.items)
      PROVE  PreorderSub(n)[<<item.items[i], item.mark>>] \in Seq(FileShown)
  <2>1. n > 0 /\ n - 1 \in 0..Depth /\ item.items[i] \in Items[n - 1]
    BY FolderItems
  <2>2. PreorderSub(n) = Preorder[n - 1]
    BY <2>1 DEF PreorderSub
  <2> QED BY <1>1, <2>1, <2>2, PreorderType
<1>4. PartsMeet(at, W, item, PrsSub(n), PreorderSub(n))
  BY <1>2 DEF PartsMeet
<1>5. PartsShown(item, PreorderSub(n))
  BY <1>3 DEF PartsShown
<1> QED BY <1>4, <1>5

\* A record EF without a size takes some room but no walk comes across it.
LEMMA UnsizedMeets ==
  ASSUME NEW n \in 0..Depth, NEW item \in Items[n], NEW prel \in Nat,
         NEW room \in Nat, NEW at, NEW W, IsWalk(W, at),
         NEW b \in Nat, NEW up \in Nat, NEW r,
         r = Prs[n][<<item, prel, room>>], Unsized(item),
         Stands(at, r, b, prel, up), NEW p
  PROVE  Meets(at, W, b, b + r.len, p)
<1>1. r = PrsUnsized(item, prel, room) /\ room \in Nat \ {0}
  <2>1. r = PrsDemux(PrsSub(n), item, prel, room)
    BY PrsAt
  <2>2. r.ret = "SUCCESS"
    BY DEF Stands
  <2> QED BY <2>1, <2>2, UnsizedParsed
<1>2. /\ r.len = room
      /\ r.at = IF item.type = "CYCLIC"
                THEN [o \in {0} |-> Header(item, prel, 0)] ELSE NoHeaders
  BY <1>1 DEF PrsUnsized, Parsed
<1>3. b \notin DOMAIN at \/ at[b].size = 0
  <2>1. Holds(at, b, room, r.at) /\ 0 \in 0..(room - 1) /\ b + 0 = b
    BY <1>1, <1>2 DEF Stands
  <2>2. 0 \in DOMAIN r.at => r.at[0].size = 0
    BY <1>2 DEF NoHeaders, Header
  <2> QED BY <2>1, <2>2 DEF Holds
<1>4. ASSUME NEW e \in Nat, e >= b + r.len, W[<<b, e>>].end = "ok"
      PROVE  FALSE
  <2>1. b < e
    BY <1>1, <1>2, <1>4
  <2>2. /\ IsWalk(W, at) /\ b \in Nat /\ e \in Nat /\ b < e
        /\ W[<<b, e>>].end = "ok"
    BY <1>4, <2>1
  <2>3. b \in DOMAIN at
    BY ONLY <2>2, WalkStep
  <2>4. at[b].size # 0
    BY ONLY <2>2, WalkStep
  <2> QED BY <1>3, <2>3, <2>4
<1> QED BY <1>4 DEF Meets

\* A file of size h + len that is met.
LEMMA FileMeets ==
  ASSUME NEW n \in 0..Depth, NEW item \in Items[n], NEW prel \in Nat,
         NEW room \in Nat, NEW at, NEW W, IsWalk(W, at),
         NEW b \in Nat, NEW up \in Nat, NEW r,
         r = Prs[n][<<item, prel, room>>], item.type # "DATA",
         ~Unsized(item), Stands(at, r, b, prel, up),
         n > 0 => LevelMeets(at, W, n - 1)
  PROVE  Meets(at, W, b, b + r.len, Preorder[n][<<item, up>>])
<1> DEFINE h   == HdrSize(item.type)
           sub == PrsSub(n)
           pre == PreorderSub(n)
           q   == PrsParts(sub, item, room - h)
           f   == [mark |-> item.mark, up |-> up, id |-> item.id,
                   sid |-> item.sid]
           N   == Parts(item)
           seqs == [i \in 1..Len(item.items) |->
                      pre[<<item.items[i], item.mark>>]]
<1>1. /\ item.type \in FileTypes /\ item.rcrd_size \in Nat \cup {Bad}
      /\ item.mark \in Nat /\ N \in Nat /\ h \in Nat \ {0}
      /\ item.id \in Ids \cup {0, Bad} /\ item.sid \in Ids \cup {0, Bad}
  BY ItemFacts, HdrSizeNat
<1>2. /\ r.ret = "SUCCESS" /\ Holds(at, b, r.len, r.at)
      /\ prel <= b /\ at[b - prel].mark = up
  BY DEF Stands
<1>3. r = PrsDemux(sub, item, prel, room)
  BY PrsAt
<1>0. h = HdrSize(item.type) /\ N = Parts(item)
  OBVIOUS
<1> HIDE DEF sub, h, N
<1>4. /\ h <= room /\ Bad \notin {item.id, item.sid} /\ q.ret = "SUCCESS"
      /\ r = File(item, prel, q.len, q.at)
  BY <1>1, <1>2, <1>3, FileParsed DEF h
<1>5. room - h \in Nat
  BY <1>1, <1>4
<1>6. PICK g : /\ IsParts(g, sub, item, room - h, N)
               /\ q = g[N]
               /\ \A k \in 0..N :
                    \E t \in Nat : Facts(g[k], t, room - h, FALSE)
  BY <1>5, PartsOf DEF sub, N
<1>7. q.len \in Nat /\ q.at \in AtsTo(q.len)
  <2>1. N \in 0..N
    BY <1>1
  <2>2. PICK t \in Nat : Facts(q, t, room - h, FALSE)
    BY <1>6, <2>1
  <2> QED BY <2>2 DEF Facts
<1>8. item.id \in Ids \cup {0} /\ item.sid \in Ids \cup {0}
  BY <1>1, <1>4
<1> HIDE DEF q
<1>9. /\ r.len = h + q.len /\ b \in DOMAIN at
      /\ at[b] = Header(item, prel, h + q.len)
      /\ Holds(at, b + h, q.len, q.at)
  <2> DEFINE len == q.len
             a   == q.at
  <2>1. len \in Nat /\ a \in AtsTo(len) /\ r = File(item, prel, len, a)
    BY <1>4, <1>7
  <2> HIDE DEF len, a
  <2>2. /\ r.len = h + len /\ b \in DOMAIN at
        /\ at[b] = Header(item, prel, h + len)
        /\ Holds(at, b + h, len, a)
    <3>1. IsFileAt(at, b, item, prel, len, a, h)
      BY <1>0, <1>1, <1>2, <1>8, <2>1 DEF IsFileAt
    <3> QED BY <2>1, <3>1, FileHeld
  <2> QED BY <2>2 DEF len, a
<1>10. /\ at[b].type = item.type /\ at[b].size = h + q.len
       /\ at[b].mark = item.mark
  BY <1>9 DEF Header
<1>11. f \in FileShown
  BY <1>1 DEF FileShown
<1>12. ShownAt(at, b) = f
  BY <1>2, <1>9, HeaderShown
<1>13. Preorder[n][<<item, up>>]
         = <<f>> \o IF item.type \in FolderTypes THEN FlattenSeq(seqs)
                    ELSE << >>
  BY PreorderAt DEF PreorderOf
<1>14. /\ h + q.len \in Nat \ {0} /\ b + r.len = b + (h + q.len)
       /\ b + r.len \in Nat /\ b + h \in Nat /\ b < b + h
       /\ b + h <= b + r.len /\ b + r.len = b + h + q.len
  BY <1>1, <1>7, <1>9
<1> HIDE DEF f, seqs
<1>15. CASE item.type \notin FolderTypes
  <2>1. Meets(at, W, b, b + r.len, <<f>>)
    BY <1>1, <1>9, <1>10, <1>11, <1>12, <1>14, <1>15, EfMeets
  <2>2. <<f>> \o << >> = <<f>>
    OBVIOUS
  <2> QED BY <1>13, <1>15, <2>1, <2>2
<1>16. CASE item.type \in FolderTypes
  <2>1. N = Len(item.items)
    BY <1>16, FolderItems DEF N
  <2>2. PartsMeet(at, W, item, sub, pre) /\ PartsShown(item, pre)
    BY <1>16, PartsAreMet DEF sub
  <2>3. PartsParsed(g, item, room - h, FALSE)
    BY <1>6, <2>1 DEF PartsParsed
  <2> HIDE DEF pre
  <2>4. Meets(at, W, b + h, b + h + q.len, FlattenSeq(seqs))
    <3>1. seqs = [i \in 1..N |-> pre[<<item.items[i], item.mark>>]]
      BY <2>1 DEF seqs
    <3>2. g[N].ret = "SUCCESS" /\ Holds(at, b + h, g[N].len, g[N].at)
      BY <1>4, <1>6, <1>9
    <3>3. Meets(at, W, b + h, b + h + g[N].len,
                FlattenSeq([i \in 1..N |-> pre[<<item.items[i], item.mark>>]]))
      <4>1. IsFolderAt(at, W, b, item, h, N, sub, pre, room - h, g)
        BY <1>0, <1>1, <1>5, <1>6, <1>10, <1>16, <2>1, <2>2, <2>3, <3>2
           DEF IsFolderAt
      <4> QED BY <4>1, FolderPartsMeet
    <3> QED BY <1>6, <3>1, <3>3
  <2>5. Inside(at, b) = <<b + h, b + r.len>>
    BY <1>9, <1>10 DEF Inside, h
  <2>6. Meets(at, W, b + h, b + r.len, FlattenSeq(seqs))
    BY <1>14, <2>4
  <2>7. Meets(at, W, b, b + r.len, <<f>> \o FlattenSeq(seqs))
    BY <1>9, <1>10, <1>11, <1>12, <1>14, <1>16, <2>5, <2>6, FolderMeets
  <2> QED BY <1>13, <1>16, <2>7
<1> QED BY <1>15, <1>16

\* A walk meets any item, wherever it stands.
LEMMA ItemsAreMet ==
  ASSUME NEW at, NEW W, IsWalk(W, at)
  PROVE  \A n \in 0..Depth : LevelMeets(at, W, n)
<1> DEFINE S == {n \in Nat : n \in 0..Depth => LevelMeets(at, W, n)}
<1>1. ASSUME NEW n \in 0..Depth, n > 0 => LevelMeets(at, W, n - 1)
      PROVE  LevelMeets(at, W, n)
  <2> SUFFICES ASSUME NEW item \in Items[n], NEW prel \in Nat,
                      NEW room \in Nat, NEW b \in Nat, NEW up \in Nat,
                      NEW r, r = Prs[n][<<item, prel, room>>],
                      Stands(at, r, b, prel, up)
               PROVE  Meets(at, W, b, b + r.len, Preorder[n][<<item, up>>])
    BY DEF LevelMeets
  <2>1. CASE item.type = "DATA"
    <3>1. r = PrsDemux(PrsSub(n), item, prel, room)
      BY PrsAt
    <3>2. item.type \notin FolderTypes
      BY <2>1 DEF FolderTypes
    <3>3. r = PrsData(item.size, room)
      BY <2>1, <3>1, <3>2 DEF PrsDemux
    <3>4. item.size \in Nat \cup {Bad}
      BY ItemFacts
    <3>5. r.ret = "SUCCESS" /\ Holds(at, b, r.len, r.at)
      BY DEF Stands
    <3>6. Meets(at, W, b, b + r.len, << >>)
      BY <3>3, <3>4, <3>5, DataMeets
    <3>7. Preorder[n][<<item, up>>] = << >>
      BY <2>1, PreorderAt DEF PreorderOf
    <3> QED BY <3>6, <3>7
  <2>2. CASE item.type # "DATA" /\ ~Unsized(item)
    BY <1>1, <2>2, FileMeets
  <2>3. CASE Unsized(item)
    BY <2>3, UnsizedMeets
  <2> QED BY <2>1, <2>2, <2>3
<1>2. 0 \in S
  BY <1>1
<1>3. ASSUME NEW n \in Nat, n \in S PROVE n + 1 \in S
  <2> SUFFICES ASSUME n + 1 \in 0..Depth PROVE LevelMeets(at, W, n + 1)
    OBVIOUS
  <2>1. n \in 0..Depth /\ (n + 1) - 1 = n
    BY DiskJsAssumption
  <2>2. LevelMeets(at, W, (n + 1) - 1)
    BY <1>3, <2>1
  <2> QED BY <1>1, <2>2
<1> HIDE DEF S
<1>4. \A n \in Nat : n \in S
  BY <1>2, <1>3, InductionOver
<1>5. \A n \in 0..Depth : n \in Nat /\ n \in S
  BY <1>4, DiskJsAssumption
<1> QED BY <1>5, Zenon DEF S

-----------------------------------------------------------------------------
(* From the first byte of a tree to its last.                              *)

\* A tree, of a disk or a file, is an item that was parsed into some room.
Made(t, item) ==
  \E room \in Nat : LET r == Prs[Depth][<<item, 0, room>>]
                    IN r.ret = "SUCCESS" /\ t.at = r.at /\ t.len = r.len

\* Going through a whole tree is a walk from its first byte to its last.
LEMMA RootWalk ==
  ASSUME NEW at, NEW W, IsWalk(W, at), NEW len \in Nat \ {0},
         0 \in DOMAIN at, at[0].type \in FolderTypes, at[0].size = len,
         W[Inside(at, 0)].end = "ok"
  PROVE  /\ W[<<0, len>>].end = "ok"
         /\ ToSet(W[<<0, len>>].files)
              = Met(0, ToSet(W[Inside(at, 0)].files), {})
         /\ W[<<0, len>>].files = Twice(0, W[Inside(at, 0)].files, << >>)
<1> DEFINE in == W[Inside(at, 0)]
<1>1. /\ W[<<0, len>>] = FilesWithin(at, W, <<0, len>>)
      /\ W[<<len, len>>] = FilesWithin(at, W, <<len, len>>)
  BY DEF IsWalk
<1>2. W[<<len, len>>].end = "ok"
  <2>1. <<len, len>>[1] >= <<len, len>>[2]
    OBVIOUS
  <2>2. FilesWithin(at, W, <<len, len>>) = Walked("ok", << >>)
    BY <2>1 DEF FilesWithin
  <2> QED BY <1>1, <2>2 DEF Walked
<1>3. W[<<0, len>>].end = "ok"
  <2> DEFINE rest == W[<<0 + at[0].size, len>>]
             x    == <<0>> \o rest.files
             y    == <<0>> \o <<0>> \o in.files \o rest.files
  <2>1. rest = W[<<len, len>>]
    OBVIOUS
  <2>2. /\ ~(0 >= len) /\ <<0, len>>[1] = 0 /\ <<0, len>>[2] = len
    OBVIOUS
  <2>3. FilesWithin(at, W, <<0, len>>) =
          IF 0 >= len THEN Walked("ok", << >>)
          ELSE IF 0 \notin DOMAIN at THEN Walked("error", << >>)
          ELSE IF at[0].size = 0 THEN Walked("never", << >>)
          ELSE IF at[0].type \notin FolderTypes THEN Walked(rest.end, x)
          ELSE Walked(IF in.end = "ok" THEN rest.end ELSE in.end, y)
    BY <2>2, Zenon DEF FilesWithin
  <2> HIDE DEF rest, x, y
  <2>4. W[<<0, len>>] = Walked(rest.end, y)
    BY <1>1, <2>2, <2>3
  <2>5. W[<<0, len>>].end = rest.end
    BY <2>4 DEF Walked
  <2> QED BY <1>2, <2>1, <2>5
<1>4. W[<<len, len>>].files = << >> /\ ToSet(W[<<len, len>>].files) = {}
  BY WalkEnds
<1>5. /\ ToSet(W[<<0, len>>].files) = Met(0, ToSet(in.files), {})
      /\ W[<<0, len>>].files = Twice(0, in.files, << >>)
  <2>1. HdrSize(at[0].type) \in Nat /\ 0 < len /\ at[0].size \in Nat
    BY HdrSizeNat DEF FileTypes
  <2>2. /\ ToSet(W[<<0, len>>].files)
             = Met(0, ToSet(W[Inside(at, 0)].files),
                   ToSet(W[<<0 + at[0].size, len>>].files))
        /\ W[<<0, len>>].files
             = Twice(0, W[Inside(at, 0)].files,
                     W[<<0 + at[0].size, len>>].files)
    BY <1>3, <2>1, WalkStep
  <2>3. 0 + at[0].size = len
    OBVIOUS
  <2> QED BY <1>4, <2>2, <2>3 DEF Met
<1> QED BY <1>3, <1>5

\* The tree that was made of a description, gone through, has its files.
LEMMA MadeIsDescribed ==
  ASSUME NEW item \in Items[Depth], NEW t, Made(t, item), Walk(t).end = "ok"
  PROVE  /\ Measured[Depth][item] => t.len = Needed[Depth][item]
         /\ \E s : /\ Lists(t.at, s, 0, t.len,
                            Preorder[Depth][<<item, item.mark>>])
                   /\ ToSet(Walk(t).files) = ToSet(s)
         /\ Walk(t).files \in Seq(Nat) /\ Orderly(Walk(t).files, 0)
<1>1. PICK room \in Nat :
        LET q == Prs[Depth][<<item, 0, room>>]
        IN q.ret = "SUCCESS" /\ t.at = q.at /\ t.len = q.len
  BY DEF Made
<1> DEFINE at == t.at
           r  == Prs[Depth][<<item, 0, room>>]
           P  == Preorder[Depth][<<item, item.mark>>]
<1>2. Depth \in 0..Depth
  BY DiskJsAssumption
<1>3. /\ r.ret = "SUCCESS" /\ at = r.at /\ t.len = r.len
      /\ r.len \in Nat /\ at \in AtsTo(r.len)
      /\ r = PrsDemux(PrsSub(Depth), item, 0, room)
      /\ Measured[Depth][item] => r.len = Needed[Depth][item]
  <2>1. Facts(r, Needed[Depth][item], room, Measured[Depth][item])
    BY <1>2, PrsFacts
  <2> QED BY <1>1, <1>2, <2>1, PrsAt DEF Facts
<1> HIDE DEF r
<1>4. /\ 0 \in DOMAIN at /\ at[0].type \in FolderTypes
      /\ Walk(t) = Foreach(at) /\ Foreach(at).end = "ok"
  BY DEF Walk, Walked, FolderTypes
<1>5. item.type # "DATA"
  <2> SUFFICES ASSUME item.type = "DATA" PROVE FALSE
    OBVIOUS
  <2>1. item.type \notin FolderTypes
    BY DEF FolderTypes
  <2>2. r = PrsData(item.size, room)
    BY <1>3, <2>1 DEF PrsDemux
  <2>3. r.at = NoHeaders
    BY <2>2 DEF PrsData, Fails, TooShort, Parsed
  <2> QED BY <1>3, <1>4, <2>3 DEF NoHeaders
<1>0. ~Unsized(item)
  <2> SUFFICES ASSUME Unsized(item) PROVE FALSE
    OBVIOUS
  <2>1. r = PrsUnsized(item, 0, room)
    BY <1>3, UnsizedParsed
  <2>2. 0 \in DOMAIN r.at => r.at[0].type \notin FolderTypes
    BY <2>1 DEF PrsUnsized, Parsed, NoHeaders, Header, FolderTypes
  <2> QED BY <1>3, <1>4, <2>2
<1>6. /\ at[0].size = r.len /\ at[0].mark = item.mark /\ item.mark \in Nat
      /\ r.len # 0
  <2> DEFINE h == HdrSize(item.type)
             q == PrsParts(PrsSub(Depth), item, room - h)
  <2>1. item.type \in FileTypes /\ h \in Nat \ {0} /\ item.mark \in Nat
    BY <1>2, <1>5, ItemFacts, HdrSizeNat
  <2>2. r = File(item, 0, q.len, q.at)
    BY <1>0, <1>3, <2>1, FileParsed
  <2> HIDE DEF q
  <2>3. /\ r.len = h + q.len /\ r.at[0] = Header(item, 0, h + q.len)
        /\ 0 \in DOMAIN r.at
    BY <2>2 DEF File, Parsed, Joined
  <2>4. at[0].size = r.len /\ at[0].mark = item.mark
    BY <1>3, <2>3 DEF Header
  <2>5. r.len # 0
    <3>1. PICK D \in SUBSET (0..(r.len - 1)) : r.at \in [D -> Headers]
      BY <1>3 DEF AtsTo
    <3>2. 0 \in 0..(r.len - 1)
      BY <2>3, <3>1
    <3> QED BY <3>2
  <2> QED BY <2>1, <2>4, <2>5
<1>7. PICK W : /\ IsWalk(W, at)
               /\ Foreach(at).files = <<0>> \o W[Inside(at, 0)].files
               /\ Foreach(at).end = W[Inside(at, 0)].end
  BY <1>3, <1>4, ForeachIs
<1> HIDE DEF at
<1>8. Stands(at, r, 0, 0, item.mark)
  <2>1. \A x \in 0..(r.len - 1) : 0 + x = x
    BY <1>3
  <2>2. Holds(at, 0, r.len, r.at)
    BY <1>3, <2>1 DEF Holds
  <2> QED BY <1>3, <1>6, <2>2 DEF Stands
<1>9. Meets(at, W, 0, r.len, P)
  <2>1. Meets(at, W, 0, 0 + r.len, P)
    BY <1>2, <1>6, <1>7, <1>8, ItemsAreMet DEF LevelMeets, r
  <2> QED BY <1>3, <2>1
<1> HIDE DEF P
<1>10. /\ W[<<0, r.len>>].end = "ok"
       /\ ToSet(W[<<0, r.len>>].files)
            = Met(0, ToSet(W[Inside(at, 0)].files), {})
       /\ W[<<0, r.len>>].files = Twice(0, W[Inside(at, 0)].files, << >>)
  <2> DEFINE n == r.len
  <2>1. n \in Nat \ {0} /\ at[0].size = n
    BY <1>3, <1>6
  <2>2. W[Inside(at, 0)].end = "ok"
    BY <1>4, <1>7
  <2> HIDE DEF n
  <2>3. /\ W[<<0, n>>].end = "ok"
        /\ ToSet(W[<<0, n>>].files)
             = Met(0, ToSet(W[Inside(at, 0)].files), {})
        /\ W[<<0, n>>].files = Twice(0, W[Inside(at, 0)].files, << >>)
    BY <1>4, <1>7, <2>1, <2>2, RootWalk
  <2> QED BY <2>3 DEF n
<1>11. /\ ToSet(Foreach(at).files) = {0} \cup ToSet(W[Inside(at, 0)].files)
       /\ W[Inside(at, 0)].files \in Seq(Nat)
  <2>1. <<0>> \in Seq(Nat) /\ ToSet(<<0>>) = {0}
    BY DEF ToSet
  <2>2. W[Inside(at, 0)].files \in Seq(Nat)
    <3>1. Inside(at, 0) \in Nat \X Nat
      BY <1>3, <1>4, <1>6, HdrSizeNat DEF Inside, FileTypes
    <3> QED BY <1>7, <3>1 DEF IsWalk
  <2>3. ToSet(Foreach(at).files) = {0} \cup ToSet(W[Inside(at, 0)].files)
    BY <1>7, <2>1, <2>2, NatsJoined
  <2> QED BY <2>2, <2>3
<1>15. /\ \E s : /\ Lists(at, s, 0, r.len, P)
                 /\ ToSet(W[<<0, r.len>>].files)
                      = ToSet(s) \cup ToSet(W[<<r.len, r.len>>].files)
       /\ Orderly(W[<<r.len, r.len>>].files, r.len)
            => Orderly(W[<<0, r.len>>].files, 0)
  BY <1>3, <1>9, <1>10 DEF Meets
<1>12. PICK s : /\ Lists(at, s, 0, r.len, P)
                /\ ToSet(W[<<0, r.len>>].files)
                     = ToSet(s) \cup ToSet(W[<<r.len, r.len>>].files)
  BY <1>15
<1>13. /\ W[<<r.len, r.len>>].files = << >>
       /\ ToSet(W[<<r.len, r.len>>].files) = {}
  BY <1>3, <1>7, WalkEnds
<1>16. Walk(t).files \in Seq(Nat) /\ Orderly(Walk(t).files, 0)
  <2> DEFINE q == W[Inside(at, 0)].files
  <2>1. Orderly(<< >>, r.len)
    BY DEF Orderly
  <2>2. q \in Seq(Nat) /\ Orderly(Twice(0, q, << >>), 0)
    BY <1>10, <1>11, <1>13, <1>15, <2>1
  <2>3. Walk(t).files = Once(0, q)
    BY <1>4, <1>7 DEF Once
  <2> HIDE DEF q
  <2>4. 0 \in Nat
    OBVIOUS
  <2> QED BY <2>2, <2>3, <2>4, TwiceOnce
<1>14. ToSet(Walk(t).files) = ToSet(s)
  BY <1>4, <1>10, <1>11, <1>12, <1>13 DEF Met
<1> QED BY <1>3, <1>12, <1>14, <1>16 DEF at, P

\* So the properties of a tree are those that are described.
LEMMA FilesAreDescribed ==
  ASSUME NEW t \in 1..Len(root), js[t] \in Items[Depth],
         Made(root[t], js[t]), Walk(root[t]).end = "ok"
  PROVE  FilesOf(t) = Described(t)
<1> DEFINE at == root[t].at
           P  == Described(t)
           S  == ToSet(Walk(root[t]).files)
<1>1. PICK s : Lists(at, s, 0, root[t].len, P) /\ S = ToSet(s)
  BY MadeIsDescribed DEF Described
<1>2. /\ s \in Seq(Nat) /\ Rising(s) /\ P \in Seq(FileShown)
      /\ Len(s) = Len(P) /\ \A i \in 1..Len(s) : ShownAt(at, s[i]) = P[i]
  BY <1>1 DEF Lists
<1>3. Cardinality(S) = Len(s) /\ \A i \in 1..Len(s) : Nth(S, i) = s[i]
  <2> HIDE DEF S
  <2> QED BY <1>1, <1>2, NthIs
<1>4. \A o : Shown(t, o) = ShownAt(at, o)
  BY DEF Shown, ShownAt, ParentOffset
<1>5. FilesOf(t) = [i \in 1..Len(s) |-> Shown(t, Nth(S, i))]
  <2>1. FilesOf(t) = [i \in 1..Cardinality(S) |-> Shown(t, Nth(S, i))]
    BY DEF FilesOf
  <2> HIDE DEF S
  <2> QED BY <1>3, <2>1
<1>6. FilesOf(t) = [i \in 1..Len(P) |-> P[i]]
  <2> HIDE DEF S, P
  <2>1. \A i \in 1..Len(s) : Shown(t, Nth(S, i)) = P[i]
    BY <1>2, <1>3, <1>4
  <2> QED BY <1>2, <1>5, <2>1
<1> HIDE DEF P
<1>7. P = [i \in 1..Len(P) |-> P[i]]
  <2> DEFINE F == FileShown
  <2>1. P \in Seq(F)
    BY <1>2
  <2> HIDE DEF F
  <2> QED BY <2>1
<1> QED BY <1>6, <1>7 DEF P

-----------------------------------------------------------------------------
(* The invariant.                                                          *)

\* The trees of a disk and of a file are those of the description; between
\* calls they have been gone through.  A call that creates a disk has come to
\* the table of IDs only with all of them, and one that loads a disk saved
\* whole has them from the start.
RootMade == /\ Len(root) <= Len(js)
            /\ \A t \in 1..Len(root) : Made(root[t], js[t])
FileMade == file.exists => /\ Len(file.trees) <= Len(js)
                           /\ file.whole => Len(file.trees) = Len(js)
                           /\ \A t \in 1..Len(file.trees) :
                                Made(file.trees[t], js[t])
CreatedAll == call = "create"
              /\ (pc \in {"id", "id_fill"} \/ (pc = "idle" /\ ret = "SUCCESS"))
LoadedAll  == call = "load" /\ file.whole /\ (pc # "idle" \/ ret = "SUCCESS")
RootWhole  == /\ pc = "idle" => Indexed(Len(root))
              /\ CreatedAll \/ LoadedAll => Len(root) = Len(js)

TreesInv == RootMade /\ FileMade /\ RootWhole

\* At first there is no tree.
LEMMA TreesInitInv == DiskInit => TreesInv
<1> SUFFICES ASSUME DiskInit PROVE TreesInv
  OBVIOUS
<1>1. /\ js \in Seq(Items[Depth]) /\ root = << >> /\ ~file.exists
      /\ call = "none"
  BY DiskAssumption DEF DiskInit, NoFile
<1>2. Len(root) = 0 /\ Len(js) \in Nat /\ \A t \in 1..0 : FALSE
  BY <1>1
<1> QED BY <1>1, <1>2
       DEF TreesInv, RootMade, FileMade, RootWhole, Indexed, CreatedAll,
           LoadedAll

\* A disk that is given up has no trees.
LEMMA NothingMade ==
  ASSUME DiskInv, UNCHANGED js, root' = << >>,
         ret' # "SUCCESS", pc' = "idle"
  PROVE  RootMade' /\ RootWhole'
<1>1. Len(root') = 0 /\ Len(js') \in Nat /\ \A t \in 1..0 : FALSE
  BY DEF DiskInv, DiskTypeOK
<1> QED BY <1>1 DEF RootMade, RootWhole, Indexed, CreatedAll, LoadedAll

\* What is written of a disk.
LEMMA WrittenMade ==
  ASSUME DiskInv, RootMade, NEW n \in 0..Len(root), UNCHANGED js,
         NEW rest, NEW whole, file' = Saved(Written(n), rest, whole),
         whole => n = Len(js)
  PROVE  FileMade'
<1>1. /\ file'.trees = Written(n) /\ Len(Written(n)) = n
      /\ file'.whole = whole
      /\ Len(root) \in Nat /\ Len(js) \in Nat
      /\ \A t \in 1..n : /\ Written(n)[t].at = root[t].at
                         /\ Written(n)[t].len = root[t].len
  BY DEF Saved, Written, DiskInv, DiskTypeOK
<1>2. n <= Len(js) /\ \A t \in 1..n : Made(root[t], js[t])
  BY <1>1 DEF RootMade
<1>3. \A t \in 1..n : Made(Written(n)[t], js[t])
  BY <1>1, <1>2 DEF Made
<1> QED BY <1>1, <1>2, <1>3 DEF FileMade

\* The steps of a call that leave trees and files as they are.
LEMMA TreesKept ==
  ASSUME DiskInv, TreesInv, UNCHANGED <<js, file, root>>,
         \/ UNCHANGED <<pc, call, ret>>
         \/ pc' = "idle" /\ ret' = "ERROR" /\ pc = "idle"
         \/ pc' = "parse" /\ call' = "create"
         \/ pc' = "sid_fill" /\ pc = "sid" /\ UNCHANGED call
         \/ pc' \in {"id", "id_fill"} /\ Len(root) = Len(js)
         \/ pc' = "id_fill" /\ pc \in {"id", "id_fill"} /\ UNCHANGED call
         \/ pc = "id_fill" /\ UNCHANGED call
  PROVE  TreesInv'
<1>1. RootMade' /\ FileMade'
  BY DEF TreesInv, RootMade, FileMade
<1>2. (pc = "idle" => Indexed(Len(root)))
      /\ (pc \in {"id", "id_fill"} => Indexed(Len(root)))
  BY DEF TreesInv, RootWhole, DiskInv, Stage
<1>3. Indexed(Len(root)) => Indexed(Len(root))'
  BY DEF Indexed
<1>4. pc' = "idle" => Indexed(Len(root))
  BY <1>2
<1>5. CreatedAll' \/ LoadedAll' => Len(root) = Len(js)
  BY DEF TreesInv, RootWhole, CreatedAll, LoadedAll
<1>6. RootWhole'
  BY <1>3, <1>4, <1>5 DEF RootWhole
<1> QED BY <1>1, <1>6 DEF TreesInv

\* The calls and steps that put up trees or files.
LEMMA CreateStartTrees == DiskInv /\ TreesInv /\ CreateStart => TreesInv'
<1> SUFFICES ASSUME DiskInv, TreesInv, CreateStart PROVE TreesInv'
  OBVIOUS
<1>1. CASE root # << >> \/ lutid # NoLut
  BY <1>1, TreesKept DEF CreateStart, FailKeepingRoot, Return
<1>2. CASE ~(root # << >> \/ lutid # NoLut)
  <2>1. js = << >> => Len(root) = Len(js)
    BY <1>2
  <2> QED BY <1>2, <2>1, TreesKept DEF CreateStart
<1> QED BY <1>1, <1>2

LEMMA ParseSuccessTrees == DiskInv /\ TreesInv /\ ParseSuccess => TreesInv'
<1> SUFFICES ASSUME DiskInv, TreesInv, ParseSuccess PROVE TreesInv'
  OBVIOUS
<1> DEFINE t == Tree(Attempt.at, Attempt.len, size)
<1>1. /\ pc = "parse" /\ Attempt.ret = "SUCCESS" /\ root' = Append(root, t)
      /\ pc' = "sid" /\ UNCHANGED <<js, file>>
  BY DEF ParseSuccess
<1>2. Made(t, js[tree])
  <2>1. t.at = Attempt.at /\ t.len = Attempt.len
    BY DEF Tree
  <2>2. size \in Nat
    BY <1>1, AttemptFacts
  <2> HIDE DEF t
  <2> QED BY <1>1, <2>1, <2>2 DEF Made, Attempt
<1> HIDE DEF t
<1>3. /\ root \in Seq(Trees) /\ tree = Len(root) + 1 /\ tree <= Len(js)
      /\ Len(js) \in Nat
  BY <1>1 DEF DiskInv, DiskTypeOK, Stage
<1>4. /\ Len(root') = Len(root) + 1 /\ root'[tree] = t /\ Len(root) \in Nat
      /\ \A u \in 1..Len(root) : root'[u] = root[u]
  BY <1>1, <1>3
<1>5. \A u \in 1..Len(root') : u = tree \/ u \in 1..Len(root)
  BY <1>3, <1>4
<1>6. RootMade'
  BY <1>1, <1>2, <1>3, <1>4, <1>5 DEF TreesInv, RootMade
<1>7. FileMade'
  BY <1>1 DEF TreesInv, FileMade
<1>8. RootWhole'
  <2>1. call' = "create"
    BY <1>1 DEF DiskInv, Stage, ParseSuccess
  <2> QED BY <1>1, <2>1 DEF RootWhole, CreatedAll, LoadedAll
<1> QED BY <1>6, <1>7, <1>8 DEF TreesInv

LEMMA SidTableDoneTrees == DiskInv /\ TreesInv /\ SidTableDone => TreesInv'
<1> SUFFICES ASSUME DiskInv, TreesInv, SidTableDone PROVE TreesInv'
  OBVIOUS
<1>1. /\ pc = "sid_fill" /\ root' = [root EXCEPT ![tree].lutsid = lut]
      /\ pc' = CASE call = "create" /\ tree < Len(js) -> "parse"
                 [] call = "load" /\ tree < Len(root) -> "sid"
                 [] OTHER -> "id"
      /\ UNCHANGED <<js, file, call>>
  BY DEF SidTableDone
<1>2. /\ root \in Seq(Trees) /\ tree \in 1..Len(root) /\ Len(js) \in Nat
      /\ call = "create" => tree = Len(root)
  BY <1>1 DEF DiskInv, DiskTypeOK, Stage
<1>3. /\ Len(root') = Len(root) /\ Len(root) \in Nat
      /\ \A t \in 1..Len(root) : /\ root'[t].at = root[t].at
                                 /\ root'[t].len = root[t].len
  <2>1. /\ Len(root') = Len(root) /\ Len(root) \in Nat
        /\ \A t \in 1..Len(root) :
             root'[t] = IF t = tree THEN [root[tree] EXCEPT !.lutsid = lut]
                        ELSE root[t]
    BY <1>1, <1>2
  <2>2. \A t \in 1..Len(root) : root[t] \in Trees
    BY <1>2
  <2>3. [root[tree] EXCEPT !.lutsid = lut].at = root[tree].at
        /\ [root[tree] EXCEPT !.lutsid = lut].len = root[tree].len
    BY <1>2, <2>2 DEF Trees
  <2> QED BY <2>1, <2>3
<1>4. RootMade'
  <2>1. \A t \in 1..Len(root) : Made(root[t], js[t])
    BY DEF TreesInv, RootMade
  <2>2. \A t \in 1..Len(root) : Made(root'[t], js[t])
    BY <1>3, <2>1 DEF Made
  <2> QED BY <1>1, <1>3, <2>2 DEF TreesInv, RootMade
<1>5. FileMade'
  BY <1>1 DEF TreesInv, FileMade
<1>6. RootWhole'
  <2>1. pc' \in {"parse", "sid", "id"}
    BY <1>1
  <2>2. call = "create" /\ pc' = "id" => Len(root) = Len(js)
    <3>1. Len(root) <= Len(js)
      BY DEF TreesInv, RootMade
    <3>2. call = "create" /\ pc' = "id" => ~(tree < Len(js))
      BY <1>1
    <3> QED BY <1>2, <1>3, <3>1, <3>2
  <2>3. LoadedAll' => Len(root) = Len(js)
    BY <1>1 DEF TreesInv, RootWhole, LoadedAll
  <2> QED BY <1>1, <1>3, <2>1, <2>2, <2>3 DEF RootWhole, CreatedAll
<1> QED BY <1>4, <1>5, <1>6 DEF TreesInv

LEMMA LoadStartTrees == DiskInv /\ TreesInv /\ LoadStart => TreesInv'
<1> SUFFICES ASSUME DiskInv, TreesInv, LoadStart PROVE TreesInv'
  OBVIOUS
<1>1. UNCHANGED <<js, file>> /\ pc = "idle" /\ call' = "load"
  BY DEF LoadStart
<1>2. FileMade'
  BY <1>1 DEF TreesInv, FileMade
<1>3. CASE root # << >>
  BY <1>1, <1>3, TreesKept DEF LoadStart, FailKeepingRoot, Return
<1>4. CASE root = << >> /\ Loadable(file)
  <2>1. /\ root' = [t \in 1..Len(file.trees) |->
                      Tree(file.trees[t].at, file.trees[t].len,
                           file.trees[t].len)]
        /\ pc' = "sid" /\ file.exists
    BY <1>4 DEF LoadStart, Loadable
  <2>2. Len(file.trees) \in Nat
    BY <2>1 DEF DiskInv, DiskTypeOK
  <2>3. Len(root') = Len(file.trees)
    BY <2>1, <2>2
  <2>4. \A t \in 1..Len(file.trees) : /\ root'[t].at = file.trees[t].at
                                      /\ root'[t].len = file.trees[t].len
    BY <2>1 DEF Tree
  <2>5. \A t \in 1..Len(file.trees) : Made(root'[t], js[t])
    <3>1. \A t \in 1..Len(file.trees) : Made(file.trees[t], js[t])
      BY <2>1 DEF TreesInv, FileMade
    <3> QED BY <2>4, <3>1 DEF Made
  <2>6. RootMade'
    BY <1>1, <2>1, <2>3, <2>5 DEF RootMade, TreesInv, FileMade
  <2>7. RootWhole'
    <3>1. file.whole => Len(file.trees) = Len(js)
      BY <2>1 DEF TreesInv, FileMade
    <3> QED BY <1>1, <2>1, <2>3, <3>1 DEF RootWhole, CreatedAll, LoadedAll
  <2> QED BY <1>2, <2>6, <2>7 DEF TreesInv
<1>5. CASE root = << >> /\ ~Loadable(file)
  <2>1. root' = << >> /\ ret' = "ERROR" /\ pc' = "idle"
    BY <1>5 DEF LoadStart, Fail, Return, RootEmptied
  <2>2. RootMade' /\ RootWhole'
    BY <1>1, <2>1, NothingMade
  <2> QED BY <1>2, <2>2 DEF TreesInv
<1> QED BY <1>3, <1>4, <1>5

LEMMA SaveTrees == DiskInv /\ TreesInv /\ Save => TreesInv'
<1> SUFFICES ASSUME DiskInv, TreesInv, Save PROVE TreesInv'
  OBVIOUS
<1>1. /\ pc = "idle" /\ call' = "save" /\ UNCHANGED <<js, root, pc>>
      /\ file' = Saved(Written(Len(root)), FALSE, Len(root) = Len(js))
  BY DEF Save
<1>2. Len(root) \in 0..Len(root)
  BY DEF DiskInv, DiskTypeOK
<1>3. FileMade'
  BY <1>1, <1>2, WrittenMade DEF TreesInv
<1>4. RootMade' /\ RootWhole'
  BY <1>1 DEF TreesInv, RootMade, RootWhole, Indexed, CreatedAll, LoadedAll
<1> QED BY <1>3, <1>4 DEF TreesInv

\* The process ends, perhaps while a disk is saved, or a call fails.
LEMMA EndTrees ==
  ASSUME DiskInv, TreesInv,
         \/ Crash \/ GrowWraps \/ Unload
         \/ \E n \in 0..(Len(root) - 1), rest \in BOOLEAN : SaveCut(n, rest)
         \/ ParseError
         \/ StartSidTable /\ Walk(root[tree]).end # "ok"
         \/ StartIdTable /\ root = << >>
  PROVE  TreesInv'
<1>1. /\ UNCHANGED js /\ root' = << >> /\ pc' = "idle"
      /\ ret' \in {"ERROR", "none"}
  BY DEF Crash, GrowWraps, Unload, SaveCut, ParseError, StartSidTable,
     StartIdTable, MemoryLost, Fail, Return, RootEmptied
<1>2. RootMade' /\ RootWhole'
  BY <1>1, NothingMade
<1>3. FileMade'
  <2>1. CASE \E n \in 0..(Len(root) - 1), rest \in BOOLEAN : SaveCut(n, rest)
    <3>1. PICK n \in 0..(Len(root) - 1), rest \in BOOLEAN : SaveCut(n, rest)
      BY <2>1
    <3>2. n \in 0..Len(root)
      BY <3>1 DEF DiskInv, DiskTypeOK
    <3>3. file' = Saved(Written(n), rest, FALSE)
      BY <3>1 DEF SaveCut
    <3> QED BY <1>1, <3>2, <3>3, WrittenMade DEF TreesInv
  <2>2. CASE ~\E n \in 0..(Len(root) - 1), rest \in BOOLEAN : SaveCut(n, rest)
    <3>1. UNCHANGED file
      BY <2>2 DEF Crash, GrowWraps, Unload, ParseError, StartSidTable,
         StartIdTable
    <3> QED BY <1>1, <3>1 DEF TreesInv, FileMade
  <2> QED BY <2>1, <2>2
<1> QED BY <1>2, <1>3 DEF TreesInv

\* Every step keeps the invariant.
LEMMA TreesStepInv ==
  DiskInv /\ TreesInv /\ [DiskNext]_diskVars => TreesInv'
<1> SUFFICES ASSUME DiskInv, TreesInv, [DiskNext]_diskVars PROVE TreesInv'
  OBVIOUS
<1>1. CASE CreateStart \/ ParseSuccess \/ SidTableDone \/ LoadStart \/ Save
  BY <1>1, CreateStartTrees, ParseSuccessTrees, SidTableDoneTrees,
     LoadStartTrees, SaveTrees
<1>2. CASE \/ Crash \/ GrowWraps \/ Unload \/ ParseError
           \/ \E n \in 0..(Len(root) - 1), rest \in BOOLEAN : SaveCut(n, rest)
  BY <1>2, EndTrees
<1>3. CASE StartSidTable
  <2>1. CASE Walk(root[tree]).end = "ok"
    BY <1>3, <2>1, TreesKept DEF StartSidTable
  <2> QED BY <1>3, <2>1, EndTrees
<1>4. CASE StartIdTable
  <2>1. CASE root # << >>
    BY <1>4, <2>1, TreesKept DEF StartIdTable
  <2> QED BY <1>4, <2>1, EndTrees
<1>5. CASE Grow \/ InsertNext \/ SkipNext \/ Inserting \/ NextIdTree
  BY <1>5, TreesKept
     DEF Grow, InsertNext, SkipNext, Inserting, NextIdTree, memVars
<1>6. CASE IdTableDone
  BY <1>6, TreesKept DEF IdTableDone
<1>7. CASE UNCHANGED diskVars
  BY <1>7, TreesKept DEF diskVars, memVars
<1> QED BY <1>1, <1>2, <1>3, <1>4, <1>5, <1>6, <1>7 DEF DiskNext

\* So it holds in every state.
LEMMA TreesInvInductive == DiskSpec => []TreesInv
  BY TreesInitInv, TreesStepInv, DiskInvInductive, PTL DEF DiskSpec

(***************************************************************************)
(* The sizes and parent-relative offsets that the parsers compute make up  *)
(* the tree that is described, for every description, however deep, and    *)
(* whatever was created, saved, cut off and loaded (jsitem_prs_file_*,     *)
(* swicc_disk_file_foreach, swicc_disk_save and _load); and no tree is     *)
(* missing from a disk that was created, or loaded after it was saved      *)
(* whole.  (The length of a tree is given by a description in which no     *)
(* name is too long and no record EF is without rcrd_size.)                *)
(***************************************************************************)
THEOREM DiskTreesAreDescribed == DiskSpec => []TreesAreDescribed
<1>1. DiskInv /\ TreesInv => TreesAreDescribed
  <2> SUFFICES ASSUME DiskInv, TreesInv, pc = "idle"
               PROVE  /\ Len(root) <= Len(js)
                      /\ CreatedAll \/ LoadedAll => Len(root) = Len(js)
                      /\ \A t \in 1..Len(root) :
                           /\ FilesOf(t) = Described(t)
                           /\ Measured[Depth][js[t]] =>
                                root[t].len = Needed[Depth][js[t]]
    BY DEF TreesAreDescribed, CreatedAll, LoadedAll
  <2>1. /\ Len(root) <= Len(js)
        /\ CreatedAll \/ LoadedAll => Len(root) = Len(js)
    BY DEF TreesInv, RootMade, RootWhole
  <2>2. ASSUME NEW t \in 1..Len(root)
        PROVE  /\ FilesOf(t) = Described(t)
               /\ Measured[Depth][js[t]] =>
                    root[t].len = Needed[Depth][js[t]]
    <3>1. js[t] \in Items[Depth]
      BY <2>1 DEF DiskInv, DiskTypeOK
    <3>2. Made(root[t], js[t]) /\ Walk(root[t]).end = "ok"
      BY DEF TreesInv, RootMade, RootWhole, Indexed, Done
    <3> QED BY <3>1, <3>2, MadeIsDescribed, FilesAreDescribed
  <2> QED BY <2>1, <2>2
<1> QED BY <1>1, DiskInvInductive, TreesInvInductive, PTL

-----------------------------------------------------------------------------
(* Places: <<u, i>> is the i-th file that a walk meets in tree u.  A table *)
(* is filled place by place; for a key it finds the last that has it.      *)

\* The headers of the trees, and the files that a walk through them meets.
Ats           == [t \in 1..Len(root) |-> root[t].at]
FilesAt(A, u) == Foreach(A[u]).files

\* All of the trees from low on, k of tree t, the last.
Upto(A, low, t, k) ==
  UNION {{<<u, i>> : i \in 1..(IF u < t THEN Len(FilesAt(A, u)) ELSE k)} :
         u \in low..t}
All(A, low, t) == Upto(A, low, t, Len(FilesAt(A, t)))

HdrOf(A, p)       == A[p[1]][FilesAt(A, p[1])[p[2]]]
KeyAt(A, p, sids) == IF sids THEN HdrOf(A, p).sid ELSE HdrOf(A, p).id
PlaceOf(A, p)     == Where(p[1], FilesAt(A, p[1])[p[2]])

NotBehind(p, q) == p[1] < q[1] \/ (p[1] = q[1] /\ p[2] <= q[2])

IsLast(A, P, sids, key, q) ==
  /\ q \in P /\ KeyAt(A, q, sids) = key
  /\ \A p \in P : KeyAt(A, p, sids) = key => NotBehind(p, q)

Missing(A, P, sids, key) ==
  \A p \in P : key # 0 => KeyAt(A, p, sids) # key

\* The table l of the SIDs, or the IDs, of the places P.
FindsKey(l, A, P, sids, key) ==
  \/ LutLookup(l, key) = NoVal /\ Missing(A, P, sids, key)
  \/ key # 0 /\ \E q \in P : /\ IsLast(A, P, sids, key, q)
                             /\ LutLookup(l, key) = PlaceOf(A, q)

Finds(l, A, P, sids) == \A key \in Keys : FindsKey(l, A, P, sids, key)

LEMMA UptoNone == \A A : \A t \in Nat : Upto(A, t, t, 0) = {}
<1> TAKE A
<1> TAKE t \in Nat
<1>1. \A u \in t..t : ~(u < t)
  OBVIOUS
<1>2. \A u \in t..t :
        {<<u, i>> : i \in 1..(IF u < t THEN Len(FilesAt(A, u)) ELSE 0)} = {}
  BY <1>1
<1> QED BY <1>2 DEF Upto

\* One place more is the last.
LEMMA UptoMore ==
  ASSUME NEW A, NEW low \in Nat, NEW t \in Nat, low <= t, NEW k \in Nat \ {0}
  PROVE  /\ Upto(A, low, t, k) = Upto(A, low, t, k - 1) \cup {<<t, k>>}
         /\ \A p \in Upto(A, low, t, k - 1) : NotBehind(p, <<t, k>>)
<1> DEFINE P(u, n) == {<<u, i>> : i \in 1..(IF u < t THEN Len(FilesAt(A, u))
                                            ELSE n)}
<1>1. /\ Upto(A, low, t, k) = UNION {P(u, k) : u \in low..t}
      /\ Upto(A, low, t, k - 1) = UNION {P(u, k - 1) : u \in low..t}
  BY DEF Upto
<1>2. \A u \in low..t : u < t => P(u, k) = P(u, k - 1)
  OBVIOUS
<1>3. t \in low..t /\ ~(t < t) /\ \A u \in low..t : u < t \/ u = t
  OBVIOUS
<1>4. P(t, k) = P(t, k - 1) \cup {<<t, k>>}
  <2>1. 1..k = 1..(k - 1) \cup {k}
    OBVIOUS
  <2>2. P(t, k) = {<<t, i>> : i \in 1..k}
        /\ P(t, k - 1) = {<<t, i>> : i \in 1..(k - 1)}
    BY <1>3
  <2> QED BY <2>1, <2>2
<1>5. \A u \in low..t : \A p \in P(u, k - 1) : NotBehind(p, <<t, k>>)
  <2> TAKE u \in low..t
  <2> TAKE p \in P(u, k - 1)
  <2>1. PICK i \in 1..(IF u < t THEN Len(FilesAt(A, u)) ELSE k - 1) :
          p = <<u, i>>
    OBVIOUS
  <2>2. p[1] = u /\ p[2] = i
    BY <2>1
  <2>3. CASE u < t
    BY <2>2, <2>3 DEF NotBehind
  <2>4. CASE u = t
    <3>1. i <= k
      BY <2>4
    <3> QED BY <2>2, <2>4, <3>1 DEF NotBehind
  <2> QED BY <1>3, <2>3, <2>4
<1> HIDE DEF P
<1>6. Upto(A, low, t, k) = Upto(A, low, t, k - 1) \cup {<<t, k>>}
  BY <1>1, <1>2, <1>3, <1>4
<1> QED BY <1>1, <1>5, <1>6

\* Before the first of another tree stand all of those before it.
LEMMA UptoNext ==
  ASSUME NEW A, NEW low \in Nat, NEW t \in Nat, low <= t
  PROVE  Upto(A, low, t + 1, 0) = All(A, low, t)
<1> DEFINE n == Len(FilesAt(A, t))
           P(u, m, i) == {<<u, j>> : j \in 1..(IF u < m THEN Len(FilesAt(A, u))
                                               ELSE i)}
<1>1. /\ Upto(A, low, t + 1, 0) = UNION {P(u, t + 1, 0) : u \in low..(t + 1)}
      /\ All(A, low, t) = UNION {P(u, t, n) : u \in low..t}
  BY DEF Upto, All
<1>2. \A u \in low..t : P(u, t + 1, 0) = P(u, t, n)
  <2> TAKE u \in low..t
  <2>1. u < t + 1 /\ (u < t \/ u = t)
    OBVIOUS
  <2> QED BY <2>1
<1>3. P(t + 1, t + 1, 0) = {}
  <2>1. ~(t + 1 < t + 1) /\ 1..0 = {}
    OBVIOUS
  <2> QED BY <2>1
<1>4. low..(t + 1) = low..t \cup {t + 1}
  OBVIOUS
<1> HIDE DEF P, n
<1> QED BY <1>1, <1>2, <1>3, <1>4

\* All of the first trees, and all of one more.
LEMMA AllMore ==
  ASSUME NEW A, NEW t \in Nat
  PROVE  /\ All(A, 1, t + 1) = All(A, 1, t) \cup All(A, t + 1, t + 1)
         /\ \A p \in All(A, 1, t), q \in All(A, t + 1, t + 1) :
              NotBehind(p, q) /\ ~NotBehind(q, p)
<1> DEFINE P(u) == {<<u, j>> : j \in 1..Len(FilesAt(A, u))}
<1>1. ASSUME NEW s \in Nat, NEW n \in Nat
      PROVE  All(A, s, n) = UNION {P(u) : u \in s..n}
  <2> DEFINE X(u) == {<<u, j>> : j \in 1..(IF u < n THEN Len(FilesAt(A, u))
                                           ELSE Len(FilesAt(A, n)))}
  <2>1. All(A, s, n) = UNION {X(u) : u \in s..n}
    BY DEF All, Upto
  <2>2. \A u \in s..n : u < n \/ u = n
    OBVIOUS
  <2>3. \A u \in s..n : X(u) = P(u)
    BY <2>2
  <2> HIDE DEF X, P
  <2> QED BY <2>1, <2>3
<1>2. 1..(t + 1) = 1..t \cup (t + 1)..(t + 1)
  OBVIOUS
<1>3. \A u : \A p \in P(u) : p[1] = u
  OBVIOUS
<1> HIDE DEF P
<1>4. /\ All(A, 1, t + 1) = UNION {P(u) : u \in 1..(t + 1)}
      /\ All(A, 1, t) = UNION {P(u) : u \in 1..t}
      /\ All(A, t + 1, t + 1) = UNION {P(u) : u \in (t + 1)..(t + 1)}
  BY <1>1
<1>5. All(A, 1, t + 1) = All(A, 1, t) \cup All(A, t + 1, t + 1)
  BY <1>2, <1>4
<1>6. /\ \A p \in All(A, 1, t) : p[1] \in 1..t
      /\ \A q \in All(A, t + 1, t + 1) : q[1] = t + 1
  BY <1>3, <1>4
<1> QED BY <1>5, <1>6 DEF NotBehind

\* Places are pairs.
LEMMA PlaceIs ==
  ASSUME NEW A, NEW t \in Nat, NEW p \in All(A, t, t)
  PROVE  \E i \in 1..Len(FilesAt(A, t)) : p = <<t, i>>
<1>1. \A u \in t..t : u = t /\ ~(u < t)
  OBVIOUS
<1> QED BY <1>1 DEF All, Upto

\* The table with nothing in it.
LEMMA FindsNone ==
  ASSUME NEW A, NEW sids, NEW t \in Nat
  PROVE  Finds(EmptyLut, A, Upto(A, t, t, 0), sids)
<1>1. Upto(A, t, t, 0) = {}
  BY UptoNone
<1> QED BY <1>1, NothingFound DEF Finds, FindsKey, Missing

\* A file with a key is put into the table ...
LEMMA FindsMore ==
  ASSUME NEW A, NEW sids, NEW low \in Nat, NEW t \in Nat, low <= t,
         NEW k \in Nat \ {0}, NEW l, NEW m,
         Finds(l, A, Upto(A, low, t, k - 1), sids),
         KeyAt(A, <<t, k>>, sids) # 0,
         \A key \in Keys :
           LutLookup(m, key) = IF key = KeyAt(A, <<t, k>>, sids)
                               THEN PlaceOf(A, <<t, k>>)
                               ELSE LutLookup(l, key)
  PROVE  Finds(m, A, Upto(A, low, t, k), sids)
<1> DEFINE P == Upto(A, low, t, k - 1)
           Q == Upto(A, low, t, k)
           p == <<t, k>>
<1>1. Q = P \cup {p} /\ \A q \in P : NotBehind(q, p)
  BY UptoMore
<1>2. NotBehind(p, p)
  BY DEF NotBehind
<1> SUFFICES ASSUME NEW key \in Keys PROVE FindsKey(m, A, Q, sids, key)
  BY DEF Finds
<1>3. FindsKey(l, A, P, sids, key)
  BY DEF Finds
<1>4. LutLookup(m, key) = IF key = KeyAt(A, p, sids) THEN PlaceOf(A, p)
                          ELSE LutLookup(l, key)
  OBVIOUS
<1>5. KeyAt(A, p, sids) # 0
  OBVIOUS
<1> HIDE DEF P, Q, p
<1>6. CASE key = KeyAt(A, p, sids)
  <2>1. IsLast(A, Q, sids, key, p) /\ p \in Q
    BY <1>1, <1>2, <1>6 DEF IsLast
  <2> QED BY <1>4, <1>5, <1>6, <2>1 DEF FindsKey
<1>7. CASE key # KeyAt(A, p, sids)
  <2>1. Missing(A, P, sids, key) => Missing(A, Q, sids, key)
    BY <1>1, <1>7 DEF Missing
  <2>2. \A q \in P : IsLast(A, P, sids, key, q) =>
                       IsLast(A, Q, sids, key, q) /\ q \in Q
    BY <1>1, <1>7 DEF IsLast
  <2> QED BY <1>3, <1>4, <1>7, <2>1, <2>2 DEF FindsKey
<1> QED BY <1>6, <1>7

\* ... and one without is passed over.
LEMMA FindsSkipped ==
  ASSUME NEW A, NEW sids, NEW low \in Nat, NEW t \in Nat, low <= t,
         NEW k \in Nat \ {0}, NEW l,
         Finds(l, A, Upto(A, low, t, k - 1), sids),
         KeyAt(A, <<t, k>>, sids) = 0
  PROVE  Finds(l, A, Upto(A, low, t, k), sids)
<1> DEFINE P == Upto(A, low, t, k - 1)
           Q == Upto(A, low, t, k)
           p == <<t, k>>
<1>1. Q = P \cup {p} /\ \A q \in P : NotBehind(q, p)
  BY UptoMore
<1>2. KeyAt(A, p, sids) = 0
  OBVIOUS
<1> SUFFICES ASSUME NEW key \in Keys PROVE FindsKey(l, A, Q, sids, key)
  BY DEF Finds
<1>3. FindsKey(l, A, P, sids, key)
  BY DEF Finds
<1> HIDE DEF P, Q, p
<1>4. Missing(A, P, sids, key) => Missing(A, Q, sids, key)
  BY <1>1, <1>2 DEF Missing
<1>5. key # 0 => \A q \in P : IsLast(A, P, sids, key, q) =>
                                IsLast(A, Q, sids, key, q) /\ q \in Q
  BY <1>1, <1>2 DEF IsLast
<1> QED BY <1>3, <1>4, <1>5 DEF FindsKey

-----------------------------------------------------------------------------
(* The tables while they are filled, and when they are whole.              *)

\* The table has been filled up to a file of the tree, or, while an entry is
\* inserted, up to the one before.  k files of the tree are done.
FilledTo(A, low, sids, k) ==
  IF ins.busy
  THEN /\ k # 0 /\ ins.e.key # 0 /\ ins.e.key = KeyAt(A, <<tree, k>>, sids)
       /\ ins.e.val = PlaceOf(A, <<tree, k>>)
       /\ Finds(lut, A, Upto(A, low, tree, k - 1), sids)
  ELSE Finds(lut, A, Upto(A, low, tree, k), sids)

Left(w, k) == /\ k \in Nat /\ k + Len(todo) = Len(w)
              /\ \A i \in 1..Len(todo) : todo[i] = w[k + i]

Filled(A, low, sids) ==
  \E k \in Nat : Left(FilesAt(A, tree), k) /\ FilledTo(A, low, sids, k)

SidsFound == \A t \in 1..Len(root) :
  root[t].lutsid # NoLut => Finds(root[t].lutsid, Ats, All(Ats, t, t), TRUE)
IdsFound  == lutid # NoLut => Finds(lutid, Ats, All(Ats, 1, Len(root)), FALSE)

TablesInv ==
  /\ SidsFound /\ IdsFound
  /\ pc = "sid_fill" => Filled(Ats, tree, TRUE)
  /\ pc = "id_fill" => Filled(Ats, 1, FALSE)

\* A lookup is all that is asked of a table.
LEMMA FindsSame ==
  ASSUME NEW A, NEW P, NEW sids, NEW l, NEW m, Finds(l, A, P, sids),
         \A key \in Keys : LutLookup(m, key) = LutLookup(l, key)
  PROVE  Finds(m, A, P, sids)
BY DEF Finds, FindsKey

\* The files that a walk meets.
LEMMA FilesAtWalk ==
  ASSUME DiskInv, NEW t \in 1..Len(root), Walk(root[t]).end = "ok"
  PROVE  /\ Ats[t] = root[t].at /\ FilesAt(Ats, t) = Walk(root[t]).files
         /\ FilesAt(Ats, t) \in Seq(DOMAIN root[t].at)
<1>1. root[t] \in Trees
  BY DEF DiskInv, DiskTypeOK
<1>2. root[t].at \in AtsTo(SizeMax)
  BY <1>1 DEF Trees
<1>3. Walk(root[t]).files \in Seq(DOMAIN root[t].at)
  BY <1>2, Bounds, WalkFiles
<1>4. Walk(root[t]) = Foreach(root[t].at)
  <2> DEFINE fails == Walked("error", << >>)
  <2>1. fails.end # "ok"
    BY DEF Walked
  <2> QED BY <2>1 DEF Walk
<1>5. Ats[t] = root[t].at
  BY DEF Ats
<1> QED BY <1>3, <1>4, <1>5 DEF FilesAt

\* A table that is begun.
LEMMA BegunFilled ==
  ASSUME NEW A, NEW low, NEW sids, NEW t \in Nat, NEW S, NEW w \in Seq(S),
         tree' = t, todo' = w, FilesAt(A, t) = w, ~ins'.busy,
         Finds(lut', A, Upto(A, low, t, 0), sids)
  PROVE  Filled(A, low, sids)'
<1>1. 0 \in Nat /\ 0 + Len(w) = Len(w) /\ \A i \in 1..Len(w) : 0 + i = i
  OBVIOUS
<1>2. Left(w, 0)'
  BY <1>1 DEF Left
<1>3. FilledTo(A, low, sids, 0)'
  BY DEF FilledTo
<1> QED BY <1>1, <1>2, <1>3 DEF Filled

\* One that is complete.
LEMMA WholeFilled ==
  ASSUME NEW A, NEW low, NEW sids, Filled(A, low, sids), TreeComplete,
         NEW S, FilesAt(A, tree) \in Seq(S)
  PROVE  Finds(lut, A, All(A, low, tree), sids)
<1>1. PICK k \in Nat : /\ Left(FilesAt(A, tree), k)
                       /\ FilledTo(A, low, sids, k)
  BY DEF Filled
<1>2. Len(todo) = 0 /\ ~ins.busy
  BY DEF TreeComplete
<1>3. k = Len(FilesAt(A, tree))
  BY <1>1, <1>2 DEF Left
<1> QED BY <1>1, <1>2, <1>3 DEF FilledTo, All

\* What the next file is.
LEMMA NextFilled ==
  ASSUME DiskInv, Filling, NEW A, A = Ats, NEW sids, sids <=> pc = "sid_fill",
         Walk(root[tree]).end = "ok", NEW k \in Nat, Left(FilesAt(A, tree), k),
         todo' = Tail(todo), tree' = tree
  PROVE  /\ Left(FilesAt(A, tree), k + 1)'
         /\ NextKey = KeyAt(A, <<tree, k + 1>>, sids)
         /\ Where(tree, todo[1]) = PlaceOf(A, <<tree, k + 1>>)
<1> DEFINE w == FilesAt(A, tree)
           D == DOMAIN root[tree].at
<1>1. /\ tree \in 1..Len(root) /\ todo \in Seq(D) /\ todo # << >>
  BY DEF Filling, DiskInv, DiskTypeOK, Stage
<1>2. A[tree] = root[tree].at /\ w \in Seq(D)
  BY <1>1, FilesAtWalk
<1>3. /\ k + Len(todo) = Len(w)
      /\ \A i \in 1..Len(todo) : todo[i] = w[k + i]
  BY DEF Left
<1> HIDE DEF w, D
<1>4. /\ Len(Tail(todo)) = Len(todo) - 1 /\ Len(todo) \in Nat
      /\ 1 \in 1..Len(todo) /\ Len(w) \in Nat
      /\ \A i \in 1..(Len(todo) - 1) :
           Tail(todo)[i] = todo[i + 1] /\ i + 1 \in 1..Len(todo)
  BY <1>1, <1>2
<1>5. todo[1] = w[k + 1]
  BY <1>3, <1>4
<1>6. \A i \in 1..(Len(todo) - 1) : Tail(todo)[i] = w[(k + 1) + i]
  <2> TAKE i \in 1..(Len(todo) - 1)
  <2>1. todo[i + 1] = w[k + (i + 1)] /\ k + (i + 1) = (k + 1) + i
    BY <1>3, <1>4
  <2> QED BY <1>4, <2>1
<1>7. FilesAt(A, tree)' = w
  BY DEF w
<1>8. Left(FilesAt(A, tree), k + 1)'
  BY <1>3, <1>4, <1>6, <1>7 DEF Left
<1>9. HdrOf(A, <<tree, k + 1>>) = root[tree].at[todo[1]]
  BY <1>2, <1>5 DEF HdrOf, w
<1>10. NextKey = KeyAt(A, <<tree, k + 1>>, sids)
  BY <1>9 DEF NextKey, KeyAt
<1>11. Where(tree, todo[1]) = PlaceOf(A, <<tree, k + 1>>)
  BY <1>5 DEF PlaceOf, w
<1> QED BY <1>8, <1>10, <1>11

-----------------------------------------------------------------------------
\* A file with a key: its entry is searched a place for.
LEMMA InsertFilled ==
  ASSUME DiskInv, InsertNext, NEW A, A = Ats, NEW low, NEW sids,
         sids <=> pc = "sid_fill", Walk(root[tree]).end = "ok",
         Filled(A, low, sids)
  PROVE  Filled(A, low, sids)'
<1>1. /\ Filling /\ NextKey # 0 /\ LutInsert(NextKey, Where(tree, todo[1]))
      /\ todo' = Tail(todo) /\ tree' = tree
  BY DEF InsertNext
<1>2. PICK k \in Nat : /\ Left(FilesAt(A, tree), k)
                       /\ FilledTo(A, low, sids, k)
  BY DEF Filled
<1>3. /\ Left(FilesAt(A, tree), k + 1)'
      /\ NextKey = KeyAt(A, <<tree, k + 1>>, sids)
      /\ Where(tree, todo[1]) = PlaceOf(A, <<tree, k + 1>>)
  BY <1>1, <1>2, NextFilled
<1>4. /\ ~ins.busy /\ lut' = Grown(lut) /\ ins'.busy
      /\ ins'.e.key = NextKey /\ ins'.e.val = Where(tree, todo[1])
  BY <1>1 DEF LutInsert
<1>5. Finds(lut, A, Upto(A, low, tree, k), sids)
  BY <1>2, <1>4 DEF FilledTo
<1>6. \A key \in Keys : LutLookup(lut', key) = LutLookup(lut, key)
  <2>1. lut \in [max : Nat, ents : Seq(Entry)]
    BY DEF DiskInv, DiskTypeOK, LutInv, LutTypeOK
  <2>2. lut'.ents = lut.ents
    BY <1>4, <2>1 DEF Grown
  <2> QED BY <2>2 DEF LutLookup, Count
<1>7. Finds(lut', A, Upto(A, low, tree, k), sids)
  BY <1>5, <1>6, FindsSame
<1>8. (k + 1) - 1 = k /\ k + 1 # 0 /\ k + 1 \in Nat
  OBVIOUS
<1>9. FilledTo(A, low, sids, k + 1)'
  BY <1>1, <1>3, <1>4, <1>7, <1>8 DEF FilledTo
<1> QED BY <1>3, <1>8, <1>9 DEF Filled

\* One without is passed over.
LEMMA SkipFilled ==
  ASSUME DiskInv, SkipNext, NEW A, A = Ats, NEW low \in Nat, low <= tree,
         NEW sids, sids <=> pc = "sid_fill", Walk(root[tree]).end = "ok",
         Filled(A, low, sids)
  PROVE  Filled(A, low, sids)'
<1>1. /\ Filling /\ NextKey = 0 /\ todo' = Tail(todo) /\ tree' = tree
      /\ lut' = lut /\ ins' = ins
  BY DEF SkipNext, LutsUnmoved, lutVars
<1>2. PICK k \in Nat : /\ Left(FilesAt(A, tree), k)
                       /\ FilledTo(A, low, sids, k)
  BY DEF Filled
<1>3. /\ Left(FilesAt(A, tree), k + 1)'
      /\ NextKey = KeyAt(A, <<tree, k + 1>>, sids)
  BY <1>1, <1>2, NextFilled
<1>4. ~ins.busy
  BY <1>1 DEF Filling
<1>5. Finds(lut, A, Upto(A, low, tree, k), sids)
  BY <1>2, <1>4 DEF FilledTo
<1>6. (k + 1) - 1 = k /\ k + 1 \in Nat \ {0} /\ tree \in Nat
  BY DEF DiskInv, DiskTypeOK
<1>7. Finds(lut, A, Upto(A, low, tree, k + 1), sids)
  BY <1>1, <1>3, <1>5, <1>6, FindsSkipped
<1>8. FilledTo(A, low, sids, k + 1)'
  BY <1>1, <1>4, <1>7 DEF FilledTo
<1> QED BY <1>3, <1>6, <1>8 DEF Filled

\* The search, and the new entry.
LEMMA InsertingFilled ==
  ASSUME DiskInv, Inserting, NEW A, NEW low \in Nat, low <= tree, NEW sids,
         Filled(A, low, sids)
  PROVE  Filled(A, low, sids)'
<1>1. (LutProbe \/ LutPlace) /\ todo' = todo /\ tree' = tree
  BY DEF Inserting, memVars
<1>2. PICK k \in Nat : /\ Left(FilesAt(A, tree), k)
                       /\ FilledTo(A, low, sids, k)
  BY DEF Filled
<1>3. Left(FilesAt(A, tree), k)'
  BY <1>1, <1>2 DEF Left
<1>4. ins.busy /\ LutInv /\ tree \in Nat
  BY <1>1 DEF LutProbe, LutPlace, DiskInv, DiskTypeOK
<1>5. /\ k # 0 /\ ins.e.key # 0 /\ ins.e.key = KeyAt(A, <<tree, k>>, sids)
      /\ ins.e.val = PlaceOf(A, <<tree, k>>)
      /\ Finds(lut, A, Upto(A, low, tree, k - 1), sids)
  BY <1>2, <1>4 DEF FilledTo
<1>6. CASE LutProbe
  <2>1. lut' = lut /\ ins'.e = ins.e /\ ins'.busy
    BY <1>4, <1>6 DEF LutProbe, LutInv, LutTypeOK
  <2>2. FilledTo(A, low, sids, k)'
    BY <1>1, <1>5, <2>1 DEF FilledTo
  <2> QED BY <1>3, <2>2 DEF Filled
<1>7. CASE LutPlace
  <2>1. \A key \in Keys :
          LutLookup(lut', key) = IF key = ins.e.key THEN ins.e.val
                                 ELSE LutLookup(lut, key)
    BY <1>4, <1>7, PlaceFound
  <2>2. ~ins'.busy
    BY <1>7 DEF LutPlace, Idle
  <2>3. Finds(lut', A, Upto(A, low, tree, k), sids)
    <3>1. k \in Nat \ {0}
      BY <1>5
    <3>2. \A key \in Keys :
            LutLookup(lut', key) = IF key = KeyAt(A, <<tree, k>>, sids)
                                   THEN PlaceOf(A, <<tree, k>>)
                                   ELSE LutLookup(lut, key)
      BY <1>5, <2>1
    <3>3. KeyAt(A, <<tree, k>>, sids) # 0
      BY <1>5
    <3> QED BY <1>4, <1>5, <3>1, <3>2, <3>3, FindsMore
  <2>4. FilledTo(A, low, sids, k)'
    BY <1>1, <2>2, <2>3 DEF FilledTo
  <2> QED BY <1>3, <2>4 DEF Filled
<1> QED BY <1>1, <1>6, <1>7

-----------------------------------------------------------------------------
(* The invariant of the tables.                                            *)

LEMMA TablesInitInv == DiskInit => TablesInv
<1> SUFFICES ASSUME DiskInit PROVE TablesInv
  OBVIOUS
<1>1. root = << >> /\ lutid = NoLut /\ pc = "idle" /\ \A t \in 1..0 : FALSE
  BY DEF DiskInit
<1> QED BY <1>1 DEF TablesInv, SidsFound, IdsFound

\* Nothing is found on a disk that is not there.
LEMMA NoTables ==
  ASSUME root' = << >>, lutid' = NoLut, pc' = "idle"
  PROVE  TablesInv'
<1>1. Len(root') = 0 /\ \A t \in 1..0 : FALSE
  OBVIOUS
<1>2. SidsFound'
  BY <1>1 DEF SidsFound
<1> QED BY <1>2 DEF TablesInv, IdsFound

\* The tables there are stay.
LEMMA TablesStay ==
  ASSUME TablesInv, UNCHANGED <<root, lutid>>
  PROVE  SidsFound' /\ IdsFound' /\ Ats' = Ats
<1>1. Ats' = Ats
  BY DEF Ats
<1> QED BY <1>1 DEF TablesInv, SidsFound, IdsFound

\* Steps of a call that begin no table, and calls that leave all as it is.
LEMMA TablesKept ==
  ASSUME TablesInv, UNCHANGED <<root, lutid>>,
         \/ pc' \notin {"sid_fill", "id_fill"}
         \/ UNCHANGED <<pc, tree, todo, lut, ins>>
  PROVE  TablesInv'
<1>1. SidsFound' /\ IdsFound' /\ Ats' = Ats
  BY TablesStay
<1>2. CASE pc' \notin {"sid_fill", "id_fill"}
  BY <1>1, <1>2 DEF TablesInv
<1>3. CASE UNCHANGED <<pc, tree, todo, lut, ins>>
  <2>1. \A low, sids : Filled(Ats, low, sids) => Filled(Ats, low, sids)'
    BY <1>1, <1>3 DEF Filled, FilledTo, Left
  <2> QED BY <1>1, <1>3, <2>1 DEF TablesInv
<1> QED BY <1>2, <1>3

-----------------------------------------------------------------------------
\* A rebuild begins with no entries and all of the files.
LEMMA StartSidTableTables ==
  DiskInv /\ TablesInv /\ StartSidTable /\ Walk(root[tree]).end = "ok"
  => TablesInv'
<1> SUFFICES ASSUME DiskInv, TablesInv, StartSidTable,
                    Walk(root[tree]).end = "ok"
             PROVE  TablesInv'
  OBVIOUS
<1>1. /\ pc = "sid" /\ pc' = "sid_fill" /\ todo' = Walk(root[tree]).files
      /\ tree' = tree /\ ~ins'.busy /\ lut' = EmptyLut
      /\ UNCHANGED <<root, lutid>>
  BY DEF StartSidTable, LutClear
<1>2. tree \in 1..Len(root) /\ tree \in Nat
  BY <1>1 DEF DiskInv, DiskTypeOK, Stage
<1>3. PICK A : A = Ats
  OBVIOUS
<1>4. PICK t \in Nat : t = tree
  BY <1>2
<1>5. FilesAt(A, t) = todo' /\ FilesAt(A, t) \in Seq(DOMAIN root[tree].at)
  BY <1>1, <1>2, <1>3, <1>4, FilesAtWalk
<1>6. Finds(lut', A, Upto(A, t, t, 0), TRUE)
  BY <1>1, FindsNone
<1>7. Filled(A, t, TRUE)'
  BY <1>1, <1>4, <1>5, <1>6, BegunFilled
<1>8. SidsFound' /\ IdsFound' /\ Ats' = A
  BY <1>1, <1>3, TablesStay
<1> QED BY <1>1, <1>4, <1>7, <1>8 DEF TablesInv

LEMMA StartIdTableTables ==
  DiskInv /\ TablesInv /\ StartIdTable /\ root # << >> => TablesInv'
<1> SUFFICES ASSUME DiskInv, TablesInv, StartIdTable, root # << >>
             PROVE  TablesInv'
  OBVIOUS
<1>1. /\ pc = "id" /\ pc' = "id_fill" /\ todo' = Walk(root[1]).files
      /\ tree' = 1 /\ ~ins'.busy /\ lut' = EmptyLut
      /\ UNCHANGED <<root, lutid>>
  BY DEF StartIdTable, LutClear
<1>2. 1 \in 1..Len(root) /\ Walk(root[1]).end = "ok"
  BY <1>1 DEF DiskInv, DiskTypeOK, Stage, Indexed, Done
<1>3. PICK A : A = Ats
  OBVIOUS
<1>5. FilesAt(A, 1) = todo' /\ FilesAt(A, 1) \in Seq(DOMAIN root[1].at)
  BY <1>1, <1>2, <1>3, FilesAtWalk
<1>6. Finds(lut', A, Upto(A, 1, 1, 0), FALSE)
  BY <1>1, FindsNone
<1>7. Filled(A, 1, FALSE)'
  BY <1>1, <1>5, <1>6, BegunFilled
<1>8. SidsFound' /\ IdsFound' /\ Ats' = A
  BY <1>1, <1>3, TablesStay
<1> QED BY <1>1, <1>7, <1>8 DEF TablesInv

\* The tree that is gone through while a table is filled.
LEMMA FillingTree ==
  ASSUME DiskInv, pc \in {"sid_fill", "id_fill"}
  PROVE  /\ tree \in 1..Len(root) /\ tree \in Nat /\ 1 <= tree
         /\ Walk(root[tree]).end = "ok" /\ Len(root) \in Nat
         /\ FilesAt(Ats, tree) \in Seq(DOMAIN root[tree].at)
<1>1. tree \in 1..Len(root) /\ Walk(root[tree]).end = "ok" /\ Len(root) \in Nat
  BY DEF DiskInv, DiskTypeOK, Stage, Indexed, Done
<1> QED BY <1>1, FilesAtWalk

\* File by file it is filled.
LEMMA FillTables ==
  DiskInv /\ TablesInv /\ (InsertNext \/ SkipNext \/ Inserting) => TablesInv'
<1> SUFFICES ASSUME DiskInv, TablesInv, InsertNext \/ SkipNext \/ Inserting
             PROVE  TablesInv'
  OBVIOUS
<1>1. UNCHANGED <<root, lutid, pc, tree>>
  BY DEF InsertNext, SkipNext, Inserting, memVars
<1>2. SidsFound' /\ IdsFound' /\ Ats' = Ats
  BY <1>1, TablesStay
<1>3. PICK A : A = Ats
  OBVIOUS
<1>4. ASSUME NEW low \in Nat, low <= tree, NEW sids, sids <=> pc = "sid_fill",
             pc \in {"sid_fill", "id_fill"}, Filled(A, low, sids)
      PROVE  Filled(A, low, sids)'
  <2>1. Walk(root[tree]).end = "ok"
    BY <1>4, FillingTree
  <2>2. CASE InsertNext
    BY <1>3, <1>4, <2>1, <2>2, InsertFilled
  <2>3. CASE SkipNext
    BY <1>3, <1>4, <2>1, <2>3, SkipFilled
  <2>4. CASE Inserting
    BY <1>3, <1>4, <2>4, InsertingFilled
  <2> QED BY <2>2, <2>3, <2>4
<1>5. pc = "sid_fill" => Filled(A, tree, TRUE)'
  <2> SUFFICES ASSUME pc = "sid_fill" PROVE Filled(A, tree, TRUE)'
    OBVIOUS
  <2>1. PICK low \in Nat : low = tree
    BY FillingTree
  <2>2. Filled(A, low, TRUE)
    BY <1>3, <2>1 DEF TablesInv
  <2>3. Filled(A, low, TRUE)'
    <3>1. low <= tree
      BY <2>1
    <3> QED BY <1>4, <2>2, <3>1
  <2>4. tree' = low
    BY <1>1, <2>1
  <2> QED BY <2>3, <2>4
<1>6. pc = "id_fill" => Filled(A, 1, FALSE)'
  <2> SUFFICES ASSUME pc = "id_fill" PROVE Filled(A, 1, FALSE)'
    OBVIOUS
  <2>1. Filled(A, 1, FALSE) /\ 1 <= tree
    BY <1>3, FillingTree DEF TablesInv
  <2> QED BY <1>4, <2>1
<1> QED BY <1>1, <1>2, <1>3, <1>5, <1>6 DEF TablesInv

\* The next tree's files are behind those of the trees before.
LEMMA NextIdTreeTables == DiskInv /\ TablesInv /\ NextIdTree => TablesInv'
<1> SUFFICES ASSUME DiskInv, TablesInv, NextIdTree PROVE TablesInv'
  OBVIOUS
<1>1. /\ pc = "id_fill" /\ TreeComplete /\ tree < Len(root)
      /\ tree' = tree + 1 /\ todo' = Walk(root[tree + 1]).files
      /\ UNCHANGED <<root, lutid, pc, lut, ins>>
  BY DEF NextIdTree, LutsUnmoved, lutVars
<1>2. /\ tree \in 1..Len(root) /\ tree \in Nat /\ 1 <= tree
      /\ FilesAt(Ats, tree) \in Seq(DOMAIN root[tree].at) /\ Len(root) \in Nat
  BY <1>1, FillingTree
<1>3. tree + 1 \in 1..Len(root) /\ tree + 1 \in Nat
  BY <1>1, <1>2
<1>4. Walk(root[tree + 1]).end = "ok"
  BY <1>1, <1>3 DEF DiskInv, Stage, Indexed, Done
<1>5. PICK A : A = Ats
  OBVIOUS
<1>6. PICK t \in Nat : t = tree + 1
  BY <1>3
<1>7. FilesAt(A, t) = todo' /\ FilesAt(A, t) \in Seq(DOMAIN root[t].at)
  BY <1>1, <1>3, <1>4, <1>5, <1>6, FilesAtWalk
<1>8. Finds(lut, A, All(A, 1, tree), FALSE)
  BY <1>1, <1>2, <1>5, WholeFilled DEF TablesInv
<1>9. Upto(A, 1, t, 0) = All(A, 1, tree)
  BY <1>2, <1>6, UptoNext
<1>10. Filled(A, 1, FALSE)'
  BY <1>1, <1>6, <1>7, <1>8, <1>9, BegunFilled DEF TreeComplete
<1>11. SidsFound' /\ IdsFound' /\ Ats' = A
  BY <1>1, <1>5, TablesStay
<1> QED BY <1>1, <1>10, <1>11 DEF TablesInv

\* A table that is whole becomes one of the disk.
LEMMA IdTableDoneTables == DiskInv /\ TablesInv /\ IdTableDone => TablesInv'
<1> SUFFICES ASSUME DiskInv, TablesInv, IdTableDone PROVE TablesInv'
  OBVIOUS
<1>1. /\ pc = "id_fill" /\ TreeComplete /\ tree = Len(root)
      /\ lutid' = lut /\ pc' = "idle" /\ root' = root
  BY DEF IdTableDone, Return
<1>2. /\ tree \in Nat
      /\ FilesAt(Ats, tree) \in Seq(DOMAIN root[tree].at)
  BY <1>1, FillingTree
<1>3. Finds(lut, Ats, All(Ats, 1, tree), FALSE)
  BY <1>1, <1>2, WholeFilled DEF TablesInv
<1>4. Ats' = Ats
  BY <1>1 DEF Ats
<1>5. IdsFound'
  BY <1>1, <1>3, <1>4 DEF IdsFound
<1>6. SidsFound'
  BY <1>1, <1>4 DEF TablesInv, SidsFound
<1> QED BY <1>1, <1>5, <1>6 DEF TablesInv

-----------------------------------------------------------------------------
\* The table of a tree does not depend on the other trees.
LEMMA FindsApart ==
  ASSUME NEW A, NEW B, NEW t \in Nat, A[t] = B[t], NEW l, NEW sids,
         Finds(l, A, All(A, t, t), sids)
  PROVE  Finds(l, B, All(B, t, t), sids)
<1>1. FilesAt(A, t) = FilesAt(B, t)
  BY DEF FilesAt
<1>2. \A p : p \in All(A, t, t)
              <=> \E i \in 1..Len(FilesAt(A, t)) : p = <<t, i>>
  <2>1. \A u \in t..t : u = t /\ ~(u < t)
    OBVIOUS
  <2> QED BY <2>1 DEF All, Upto
<1>3. \A p : p \in All(B, t, t)
              <=> \E i \in 1..Len(FilesAt(B, t)) : p = <<t, i>>
  <2>1. \A u \in t..t : u = t /\ ~(u < t)
    OBVIOUS
  <2> QED BY <2>1 DEF All, Upto
<1>4. All(A, t, t) = All(B, t, t)
  BY <1>1, <1>2, <1>3
<1> DEFINE P == All(A, t, t)
<1>5. \A p \in P : p[1] = t
  BY <1>2
<1>6. \A p \in P : /\ KeyAt(A, p, sids) = KeyAt(B, p, sids)
                   /\ PlaceOf(A, p) = PlaceOf(B, p)
  BY <1>1, <1>5 DEF KeyAt, HdrOf, PlaceOf
<1> HIDE DEF P
<1>7. Finds(l, A, P, sids)
  BY DEF P
<1>8. Finds(l, B, P, sids)
  BY <1>6, <1>7 DEF Finds, FindsKey, Missing, IsLast
<1> QED BY <1>4, <1>8 DEF P

LEMMA SidTableDoneTables == DiskInv /\ TablesInv /\ SidTableDone => TablesInv'
<1> SUFFICES ASSUME DiskInv, TablesInv, SidTableDone PROVE TablesInv'
  OBVIOUS
<1>1. /\ pc = "sid_fill" /\ TreeComplete
      /\ root' = [root EXCEPT ![tree].lutsid = lut]
      /\ pc' \in {"parse", "sid", "id"} /\ lutid' = lutid
  BY DEF SidTableDone
<1>2. /\ tree \in 1..Len(root) /\ tree \in Nat /\ Len(root) \in Nat
      /\ FilesAt(Ats, tree) \in Seq(DOMAIN root[tree].at)
      /\ root \in Seq(Trees) /\ lutid = NoLut
  BY <1>1, FillingTree DEF DiskInv, DiskTypeOK, Stage
<1>3. Finds(lut, Ats, All(Ats, tree, tree), TRUE)
  BY <1>1, <1>2, WholeFilled DEF TablesInv
<1>4. /\ Len(root') = Len(root)
      /\ \A t \in 1..Len(root) :
           /\ root'[t].at = root[t].at
           /\ root'[t].lutsid = IF t = tree THEN lut ELSE root[t].lutsid
  <2>1. /\ Len(root') = Len(root)
        /\ \A t \in 1..Len(root) :
             root'[t] = IF t = tree THEN [root[tree] EXCEPT !.lutsid = lut]
                        ELSE root[t]
    BY <1>1, <1>2
  <2>2. root[tree] \in Trees
    BY <1>2
  <2>3. /\ [root[tree] EXCEPT !.lutsid = lut].at = root[tree].at
        /\ [root[tree] EXCEPT !.lutsid = lut].lutsid = lut
    BY <2>2 DEF Trees
  <2> QED BY <2>1, <2>3
<1>5. Ats' = Ats
  BY <1>4 DEF Ats
<1>6. SidsFound'
  BY <1>3, <1>4, <1>5 DEF TablesInv, SidsFound
<1>7. IdsFound'
  BY <1>1, <1>2 DEF IdsFound
<1> QED BY <1>1, <1>6, <1>7 DEF TablesInv

\* A new tree has no table.
LEMMA ParseSuccessTables == DiskInv /\ TablesInv /\ ParseSuccess => TablesInv'
<1> SUFFICES ASSUME DiskInv, TablesInv, ParseSuccess PROVE TablesInv'
  OBVIOUS
<1> DEFINE new == Tree(Attempt.at, Attempt.len, size)
<1>1. /\ pc = "parse" /\ root' = Append(root, new) /\ pc' = "sid"
      /\ lutid' = lutid
  BY DEF ParseSuccess
<1>2. root \in Seq(Trees) /\ Len(root) \in Nat /\ lutid = NoLut
  BY <1>1 DEF DiskInv, DiskTypeOK, Stage
<1>3. new.lutsid = NoLut
  BY DEF Tree
<1> HIDE DEF new
<1>4. /\ Len(root') = Len(root) + 1 /\ root'[Len(root) + 1] = new
      /\ \A t \in 1..Len(root) : root'[t] = root[t]
  BY <1>1, <1>2
<1>5. \A t \in 1..Len(root) : Ats'[t] = Ats[t]
  BY <1>2, <1>4 DEF Ats
<1>6. PICK A : A = Ats
  OBVIOUS
<1>7. PICK B : B = Ats'
  OBVIOUS
<1>8. ASSUME NEW t \in 1..Len(root'), root'[t].lutsid # NoLut
      PROVE  Finds(root'[t].lutsid, B, All(B, t, t), TRUE)
  <2>1. t \in 1..Len(root) /\ t \in Nat
    BY <1>2, <1>3, <1>4, <1>8
  <2>2. root'[t] = root[t] /\ A[t] = B[t]
    BY <1>4, <1>5, <1>6, <1>7, <2>1
  <2>3. Finds(root[t].lutsid, A, All(A, t, t), TRUE)
    BY <1>6, <1>8, <2>1, <2>2 DEF TablesInv, SidsFound
  <2> QED BY <2>1, <2>2, <2>3, FindsApart
<1>9. SidsFound'
  BY <1>7, <1>8 DEF SidsFound
<1>10. IdsFound'
  BY <1>1, <1>2 DEF IdsFound
<1> QED BY <1>1, <1>9, <1>10 DEF TablesInv

LEMMA LoadStartTables == DiskInv /\ TablesInv /\ LoadStart => TablesInv'
<1> SUFFICES ASSUME DiskInv, TablesInv, LoadStart PROVE TablesInv'
  OBVIOUS
<1>1. CASE root # << >>
  <2>1. UNCHANGED <<root, lutid>> /\ pc' = "idle"
    BY <1>1 DEF LoadStart, FailKeepingRoot, Return
  <2> QED BY <2>1, TablesKept
<1>2. CASE root = << >> /\ Loadable(file)
  <2>1. /\ root' = [t \in 1..Len(file.trees) |->
                      Tree(file.trees[t].at, file.trees[t].len,
                           file.trees[t].len)]
        /\ pc' = "sid" /\ lutid' = NoLut /\ file.exists
    BY <1>2 DEF LoadStart, Loadable
  <2>2. Len(file.trees) \in Nat
    BY <2>1 DEF DiskInv, DiskTypeOK
  <2>3. Len(root') = Len(file.trees)
    BY <2>1, <2>2
  <2>4. \A t \in 1..Len(file.trees) : root'[t].lutsid = NoLut
    BY <2>1 DEF Tree
  <2> QED BY <2>1, <2>3, <2>4 DEF TablesInv, SidsFound, IdsFound
<1>3. CASE root = << >> /\ ~Loadable(file)
  <2>1. root' = << >> /\ lutid' = NoLut /\ pc' = "idle"
    BY <1>3 DEF LoadStart, Fail, Return, RootEmptied
  <2> QED BY <2>1, NoTables
<1> QED BY <1>1, <1>2, <1>3

\* Every step keeps the invariant.
LEMMA TablesStepInv ==
  DiskInv /\ TablesInv /\ [DiskNext]_diskVars => TablesInv'
<1> SUFFICES ASSUME DiskInv, TablesInv, [DiskNext]_diskVars PROVE TablesInv'
  OBVIOUS
<1>1. CASE \/ ParseSuccess \/ SidTableDone \/ NextIdTree \/ IdTableDone
           \/ LoadStart \/ InsertNext \/ SkipNext \/ Inserting
  BY <1>1, ParseSuccessTables, SidTableDoneTables, NextIdTreeTables,
     IdTableDoneTables, LoadStartTables, FillTables
<1>2. CASE StartSidTable /\ Walk(root[tree]).end = "ok"
  BY <1>2, StartSidTableTables
<1>3. CASE StartIdTable /\ root # << >>
  BY <1>3, StartIdTableTables
<1>4. CASE \/ Crash \/ GrowWraps \/ Unload \/ ParseError
           \/ \E n \in 0..(Len(root) - 1), rest \in BOOLEAN : SaveCut(n, rest)
           \/ StartSidTable /\ Walk(root[tree]).end # "ok"
           \/ StartIdTable /\ root = << >>
  <2>1. root' = << >> /\ lutid' = NoLut /\ pc' = "idle"
    BY <1>4 DEF Crash, GrowWraps, Unload, SaveCut, ParseError, StartSidTable,
       StartIdTable, MemoryLost, Fail, Return, RootEmptied
  <2> QED BY <2>1, NoTables
<1>5. CASE CreateStart \/ Save \/ Grow \/ UNCHANGED diskVars
  <2>1. UNCHANGED <<root, lutid>>
    BY <1>5 DEF CreateStart, Save, Grow, FailKeepingRoot, diskVars, memVars
  <2>2. \/ pc' \notin {"sid_fill", "id_fill"}
        \/ UNCHANGED <<pc, tree, todo, lut, ins>>
    BY <1>5 DEF CreateStart, Save, Grow, FailKeepingRoot, Return, diskVars,
       memVars, lutVars
  <2> QED BY <2>1, <2>2, TablesKept
<1> QED BY <1>1, <1>2, <1>3, <1>4, <1>5 DEF DiskNext

\* So it holds in every state.
LEMMA TablesInvInductive == DiskSpec => []TablesInv
  BY TablesInitInv, TablesStepInv, DiskInvInductive, PTL DEF DiskSpec

-----------------------------------------------------------------------------
(* The files that are described, and the places at which they are met.     *)

KeyOf(f, sids) == IF sids THEN f.sid ELSE f.id
With(files, key, sids) ==
  {i \in DOMAIN files : key # 0 /\ KeyOf(files[i], sids) = key}

\* Of the files G, met at the places P, those with a key.
Agrees(A, P, sids, key, G) ==
  LET W == With(G, key, sids)
  IN /\ W = {} => Missing(A, P, sids, key)
     /\ W # {} => /\ key # 0 /\ \E p \in P : KeyAt(A, p, sids) = key
                  /\ \A q : IsLast(A, P, sids, key, q) =>
                              HdrOf(A, q).mark = LastMark(G, W)

\* The largest of some numbers that are bounded.
LEMMA MaxIs ==
  ASSUME NEW n \in Nat, NEW W \in SUBSET (1..n), W # {}
  PROVE  Max(W) \in W /\ \A i \in W : i <= Max(W)
<1> DEFINE T == {n - i : i \in W}
<1>1. T \in SUBSET Nat /\ T # {}
  <2>1. \A i \in W : n - i \in Nat
    OBVIOUS
  <2> QED BY <2>1
<1>2. PICK x \in T : \A y \in T : x <= y
  BY <1>1, LeastOf
<1>3. PICK m \in W : x = n - m
  BY <1>2
<1>4. \A i \in W : m >= i
  <2> TAKE i \in W
  <2>1. n - m <= n - i
    BY <1>2, <1>3
  <2> QED BY <2>1
<1>5. \E y \in W : \A i \in W : y >= i
  BY <1>4
<1>6. Max(W) = CHOOSE y \in W : \A i \in W : y >= i
  BY DEF Max
<1>7. Max(W) \in W /\ \A i \in W : Max(W) >= i
  BY <1>5, <1>6
<1>8. \A i \in W : i \in Nat
  OBVIOUS
<1> QED BY <1>7, <1>8

\* It is the only one.
LEMMA MaxOnly ==
  ASSUME NEW n \in Nat, NEW W \in SUBSET (1..n), NEW m \in W,
         \A i \in W : i <= m
  PROVE  Max(W) = m
<1>1. Max(W) \in W /\ m <= Max(W)
  BY MaxIs
<1>2. Max(W) <= m
  BY <1>1
<1>3. m \in Nat /\ Max(W) \in Nat
  <2>1. \A i \in W : i \in Nat
    OBVIOUS
  <2> QED BY <1>1, <2>1
<1> QED BY <1>1, <1>2, <1>3

\* The last in two lists is in the second, if it has any.
LEMMA LastJoined ==
  ASSUME NEW S, NEW a \in Seq(S), NEW b \in Seq(S), NEW key, NEW sids
  PROVE  LET Wa == With(a, key, sids)
             Wb == With(b, key, sids)
             W  == With(a \o b, key, sids)
         IN /\ W = {} <=> Wa = {} /\ Wb = {}
            /\ LastMark(a \o b, W) = IF Wb = {} THEN LastMark(a, Wa)
                                     ELSE LastMark(b, Wb)
<1> DEFINE c  == a \o b
           n  == Len(a)
           Wa == With(a, key, sids)
           Wb == With(b, key, sids)
           W  == With(c, key, sids)
<1>1. /\ n \in Nat /\ Len(b) \in Nat /\ DOMAIN a = 1..n
      /\ DOMAIN b = 1..Len(b) /\ DOMAIN c = 1..(n + Len(b))
  <2>1. Len(a \o b) = Len(a) + Len(b) /\ DOMAIN (a \o b) = 1..Len(a \o b)
    OBVIOUS
  <2> QED BY <2>1
<1>2. \A i \in 1..(n + Len(b)) :
        /\ i <= n => i \in 1..n /\ c[i] = a[i]
        /\ i > n => i - n \in 1..Len(b) /\ c[i] = b[i - n]
  BY <1>1
<1>3. /\ \A i \in 1..n : i \in 1..(n + Len(b)) /\ i <= n
      /\ \A i \in 1..Len(b) : /\ n + i \in 1..(n + Len(b)) /\ n + i > n
                              /\ (n + i) - n = i
  BY <1>1
<1> HIDE DEF c, n
<1>4. /\ Wa \in SUBSET (1..n) /\ Wb \in SUBSET (1..Len(b))
      /\ W \in SUBSET (1..(n + Len(b)))
  BY <1>1 DEF With
<1>5. \A i \in 1..n : i \in W <=> i \in Wa
  BY <1>1, <1>2, <1>3 DEF With
<1>6. \A i \in 1..Len(b) : n + i \in W <=> i \in Wb
  <2> TAKE i \in 1..Len(b)
  <2>1. c[n + i] = b[i] /\ n + i \in DOMAIN c /\ i \in DOMAIN b
    BY <1>1, <1>2, <1>3
  <2> QED BY <2>1 DEF With
<1> HIDE DEF W, Wa, Wb
<1>7. CASE Wb = {}
  <2>1. W = Wa
    <3>1. \A i \in W : i \in 1..n
      <4> TAKE i \in W
      <4>1. CASE i <= n
        BY <1>2, <1>4, <4>1
      <4>2. CASE i > n
        <5>1. i - n \in 1..Len(b) /\ n + (i - n) = i
          BY <1>1, <1>2, <1>4, <4>2
        <5> QED BY <1>6, <1>7, <5>1
      <4>3. i \in Nat
        BY <1>1, <1>4
      <4> QED BY <1>1, <4>1, <4>2, <4>3
    <3> QED BY <1>4, <1>5, <3>1
  <2>2. Wa # {} => LastMark(c, W) = LastMark(a, Wa)
    <3> SUFFICES ASSUME Wa # {} PROVE LastMark(c, W) = LastMark(a, Wa)
      OBVIOUS
    <3>1. Max(Wa) \in 1..n
      BY <1>1, <1>4, MaxIs
    <3>2. c[Max(Wa)] = a[Max(Wa)]
      BY <1>2, <1>3, <3>1
    <3> QED BY <2>1, <3>2 DEF LastMark
  <2>3. Wa = {} => LastMark(c, W) = LastMark(a, Wa)
    BY <2>1 DEF LastMark
  <2> QED BY <1>7, <2>1, <2>2, <2>3 DEF W, Wa, Wb, c
<1>8. CASE Wb # {}
  <2> DEFINE m == Max(Wb)
  <2>1. m \in Wb /\ \A i \in Wb : i <= m
    BY <1>1, <1>4, <1>8, MaxIs
  <2>2. m \in 1..Len(b)
    BY <1>4, <2>1
  <2>3. n + m \in W
    BY <1>6, <2>1, <2>2
  <2> HIDE DEF m
  <2>4. \A i \in W : i <= n + m
    <3> TAKE i \in W
    <3>1. CASE i <= n
      BY <1>1, <1>4, <2>2, <3>1
    <3>2. CASE i > n
      <4>1. i - n \in 1..Len(b) /\ n + (i - n) = i
        BY <1>1, <1>2, <1>4, <3>2
      <4>2. i - n \in Wb
        BY <1>6, <4>1
      <4>3. i - n <= m
        BY <2>1, <4>2
      <4> QED BY <1>1, <1>4, <2>2, <4>3
    <3>3. i \in Nat
      BY <1>1, <1>4
    <3> QED BY <1>1, <3>1, <3>2, <3>3
  <2>5. Max(W) = n + m
    <3>1. n + Len(b) \in Nat
      BY <1>1
    <3> QED BY <1>4, <2>3, <2>4, <3>1, MaxOnly
  <2>6. c[n + m] = b[m]
    BY <1>2, <1>3, <2>2
  <2>7. LastMark(c, W) = LastMark(b, Wb)
    BY <1>8, <2>3, <2>5, <2>6 DEF LastMark, m
  <2> QED BY <1>8, <2>3, <2>7 DEF W, Wa, Wb, c
<1> QED BY <1>7, <1>8

-----------------------------------------------------------------------------
\* The members of a sequence.
LEMMA ToSetHas ==
  \A s \in Seq(Nat) :
    /\ \A i \in 1..Len(s) : s[i] \in ToSet(s)
    /\ \A x \in ToSet(s) : \E i \in 1..Len(s) : x = s[i]
<1> TAKE s \in Seq(Nat)
<1>1. DOMAIN s = 1..Len(s)
  OBVIOUS
<1> QED BY <1>1 DEF ToSet

\* Files that are met behind others hide them.
LEMMA AgreesJoined ==
  ASSUME NEW A, NEW P, NEW Q, NEW sids, NEW key, NEW S,
         NEW a \in Seq(S), NEW b \in Seq(S),
         Agrees(A, P, sids, key, a), Agrees(A, Q, sids, key, b),
         \A p \in P, q \in Q : NotBehind(p, q) /\ ~NotBehind(q, p)
  PROVE  Agrees(A, P \cup Q, sids, key, a \o b)
<1> DEFINE Wa == With(a, key, sids)
           Wb == With(b, key, sids)
           W  == With(a \o b, key, sids)
           R  == P \cup Q
<1>1. /\ W = {} <=> Wa = {} /\ Wb = {}
      /\ LastMark(a \o b, W) = IF Wb = {} THEN LastMark(a, Wa)
                               ELSE LastMark(b, Wb)
  BY LastJoined
<1>2. /\ Wa = {} => Missing(A, P, sids, key)
      /\ Wa # {} => /\ key # 0 /\ \E p \in P : KeyAt(A, p, sids) = key
                    /\ \A q : IsLast(A, P, sids, key, q) =>
                                HdrOf(A, q).mark = LastMark(a, Wa)
  BY DEF Agrees
<1>3. /\ Wb = {} => Missing(A, Q, sids, key)
      /\ Wb # {} => /\ key # 0 /\ \E p \in Q : KeyAt(A, p, sids) = key
                    /\ \A q : IsLast(A, Q, sids, key, q) =>
                                HdrOf(A, q).mark = LastMark(b, Wb)
  BY DEF Agrees
<1> HIDE DEF Wa, Wb, W
<1> SUFFICES /\ W = {} => Missing(A, R, sids, key)
             /\ W # {} => /\ key # 0 /\ \E p \in R : KeyAt(A, p, sids) = key
                          /\ \A q : IsLast(A, R, sids, key, q) =>
                                      HdrOf(A, q).mark = LastMark(a \o b, W)
  BY DEF Agrees, W
<1>4. ASSUME W = {} PROVE Missing(A, R, sids, key)
  BY <1>1, <1>2, <1>3, <1>4 DEF Missing
<1>5. ASSUME W # {}
      PROVE  key # 0 /\ \E p \in R : KeyAt(A, p, sids) = key
  BY <1>1, <1>2, <1>3, <1>5
<1>6. ASSUME W # {}, NEW q, IsLast(A, R, sids, key, q)
      PROVE  HdrOf(A, q).mark = LastMark(a \o b, W)
  <2>1. key # 0
    BY <1>5, <1>6
  <2>2. CASE Wb = {}
    <3>1. q \in P
      BY <1>3, <1>6, <2>1, <2>2 DEF IsLast, Missing
    <3>2. IsLast(A, P, sids, key, q)
      BY <1>6, <3>1 DEF IsLast
    <3> QED BY <1>1, <1>2, <1>6, <2>2, <3>2
  <2>3. CASE Wb # {}
    <3>1. PICK p \in Q : KeyAt(A, p, sids) = key
      BY <1>3, <2>3
    <3>2. NotBehind(p, q)
      BY <1>6, <3>1 DEF IsLast
    <3>3. q \in Q
      BY <1>6, <3>1, <3>2 DEF IsLast
    <3>4. IsLast(A, Q, sids, key, q)
      BY <1>6, <3>3 DEF IsLast
    <3> QED BY <1>1, <1>3, <2>3, <3>4
  <2> QED BY <2>2, <2>3
<1> QED BY <1>4, <1>5, <1>6

\* The files of a tree: the headers say what the description does.
LEMMA TreeAgrees ==
  ASSUME NEW A, NEW t \in Nat, FilesAt(A, t) \in Seq(Nat),
         Orderly(FilesAt(A, t), 0), NEW s, NEW D, NEW len,
         Lists(A[t], s, 0, len, D), ToSet(FilesAt(A, t)) = ToSet(s),
         NEW sids, NEW key
  PROVE  Agrees(A, All(A, t, t), sids, key, D)
<1> DEFINE f == FilesAt(A, t)
           P == All(A, t, t)
           W == With(D, key, sids)
<1>1. /\ \A i \in 1..Len(f) : <<t, i>> \in P
      /\ \A p \in P : \E i \in 1..Len(f) : p = <<t, i>>
  <2>1. \A u \in t..t : u = t /\ ~(u < t)
    OBVIOUS
  <2>2. t \in t..t
    OBVIOUS
  <2> QED BY <2>1, <2>2 DEF All, Upto
<1>2. /\ s \in Seq(Nat) /\ Len(s) \in Nat /\ Len(D) = Len(s)
      /\ DOMAIN D = 1..Len(s) /\ f \in Seq(Nat) /\ Len(f) \in Nat
      /\ \A i \in 1..Len(s) : s[i] \in Nat
      /\ \A i \in 1..Len(f) : f[i] \in Nat
  <2>1. s \in Seq(Nat) /\ D \in Seq(FileShown) /\ Len(s) = Len(D)
    BY DEF Lists
  <2> DEFINE S == FileShown
  <2>2. D \in Seq(S)
    BY <2>1
  <2> HIDE DEF S
  <2>3. DOMAIN D = 1..Len(D)
    BY <2>2
  <2> QED BY <2>1, <2>3
<1>3. \A j \in 1..Len(s) :
        /\ A[t][s[j]].mark = D[j].mark
        /\ A[t][s[j]].id = D[j].id /\ A[t][s[j]].sid = D[j].sid
  <2> TAKE j \in 1..Len(s)
  <2>1. ShownAt(A[t], s[j]) = D[j]
    BY DEF Lists
  <2>2. /\ ShownAt(A[t], s[j]).mark = A[t][s[j]].mark
        /\ ShownAt(A[t], s[j]).id = A[t][s[j]].id
        /\ ShownAt(A[t], s[j]).sid = A[t][s[j]].sid
    BY DEF ShownAt
  <2> QED BY <2>1, <2>2
<1>4. \A i \in 1..Len(f) : \E j \in 1..Len(s) : f[i] = s[j]
  <2> TAKE i \in 1..Len(f)
  <2>1. f[i] \in ToSet(s)
    BY ToSetHas
  <2> QED BY <1>2, <2>1, ToSetHas
<1>5. \A j \in 1..Len(s) : \E i \in 1..Len(f) : f[i] = s[j]
  <2> TAKE j \in 1..Len(s)
  <2>1. s[j] \in ToSet(f)
    BY <1>2, ToSetHas
  <2> HIDE DEF f
  <2>2. \E i \in 1..Len(f) : s[j] = f[i]
    BY <1>2, <2>1, ToSetHas
  <2> QED BY <2>2
<1>6. \A i \in 1..Len(f), j \in 1..Len(s) : f[i] = s[j] =>
        /\ KeyAt(A, <<t, i>>, sids) = KeyOf(D[j], sids)
        /\ HdrOf(A, <<t, i>>).mark = D[j].mark
  BY <1>3 DEF KeyAt, KeyOf, HdrOf
<1>7. \A i, j \in 1..Len(f) : i <= j => f[i] <= f[j]
  BY <1>2 DEF Orderly
<1>8. \A i, j \in 1..Len(s) : i < j => s[i] < s[j]
  BY DEF Lists, Rising
<1>9. /\ W \in SUBSET (1..Len(s))
      /\ \A j \in 1..Len(s) :
           j \in W <=> key # 0 /\ KeyOf(D[j], sids) = key
  BY <1>2 DEF With
<1> HIDE DEF f, P, W
<1>10. ASSUME W = {} PROVE Missing(A, P, sids, key)
  <2> SUFFICES ASSUME NEW p \in P, key # 0, KeyAt(A, p, sids) = key
               PROVE  FALSE
    BY DEF Missing
  <2>1. PICK i \in 1..Len(f) : p = <<t, i>>
    BY <1>1
  <2>2. PICK j \in 1..Len(s) : f[i] = s[j]
    BY <1>4
  <2>3. j \in W
    BY <1>6, <1>9, <2>1, <2>2
  <2> QED BY <1>10, <2>3
<1>11. ASSUME W # {}
       PROVE  /\ key # 0 /\ \E p \in P : KeyAt(A, p, sids) = key
              /\ \A q : IsLast(A, P, sids, key, q) =>
                          HdrOf(A, q).mark = LastMark(D, W)
  <2> DEFINE m == Max(W)
  <2>1. m \in W /\ \A j \in W : j <= m
    BY <1>2, <1>9, <1>11, MaxIs
  <2>2. m \in 1..Len(s) /\ key # 0 /\ KeyOf(D[m], sids) = key
    BY <1>9, <2>1
  <2>3. LastMark(D, W) = D[m].mark
    BY <1>11 DEF LastMark
  <2> HIDE DEF m
  <2>4. PICK i \in 1..Len(f) : f[i] = s[m]
    BY <1>5, <2>2
  <2>5. <<t, i>> \in P /\ KeyAt(A, <<t, i>>, sids) = key
    BY <1>1, <1>6, <2>2, <2>4
  <2>6. ASSUME NEW q, IsLast(A, P, sids, key, q)
        PROVE  HdrOf(A, q).mark = D[m].mark
    <3>1. /\ q \in P /\ KeyAt(A, q, sids) = key /\ NotBehind(<<t, i>>, q)
      BY <2>5, <2>6 DEF IsLast
    <3>2. PICK k \in 1..Len(f) : q = <<t, k>>
      BY <1>1, <3>1
    <3>3. i <= k
      BY <3>1, <3>2 DEF NotBehind
    <3>4. PICK j \in 1..Len(s) : f[k] = s[j]
      BY <1>4
    <3>5. j \in W /\ j <= m
      BY <1>6, <1>9, <2>1, <2>2, <3>1, <3>2, <3>4
    <3>6. s[m] <= s[j]
      BY <1>7, <2>4, <3>3, <3>4
    <3>7. ~(j < m)
      <4>1. s[j] \in Nat /\ s[m] \in Nat
        BY <1>2, <2>2
      <4> QED BY <1>8, <2>2, <3>6, <4>1
    <3>8. j = m
      BY <1>2, <2>2, <3>5, <3>7
    <3> QED BY <1>6, <3>2, <3>4, <3>8
  <2> QED BY <2>2, <2>3, <2>5, <2>6
<1> QED BY <1>10, <1>11 DEF Agrees, W, P

-----------------------------------------------------------------------------
(* Between calls.                                                          *)

\* The walk through a tree and its description.
LEMMA TreeMet ==
  ASSUME DiskInv, TreesInv, pc = "idle", NEW t \in 1..Len(root)
  PROVE  /\ t \in Nat /\ FilesAt(Ats, t) \in Seq(Nat)
         /\ Orderly(FilesAt(Ats, t), 0) /\ Described(t) \in Seq(FileShown)
         /\ \E s : /\ Lists(Ats[t], s, 0, root[t].len, Described(t))
                   /\ ToSet(FilesAt(Ats, t)) = ToSet(s)
         /\ root[t].len \in 0..SizeMax /\ Ats[t] = root[t].at
         /\ root[t].lutsid # NoLut
<1>1. Made(root[t], js[t]) /\ Done(root[t]) /\ Len(root) <= Len(js)
  BY DEF TreesInv, RootMade, RootWhole, Indexed
<1>2. js[t] \in Items[Depth] /\ root[t] \in Trees /\ t \in Nat
  BY <1>1 DEF DiskInv, DiskTypeOK
<1>3. /\ \E s : /\ Lists(root[t].at, s, 0, root[t].len, Described(t))
                /\ ToSet(Walk(root[t]).files) = ToSet(s)
      /\ Walk(root[t]).files \in Seq(Nat) /\ Orderly(Walk(root[t]).files, 0)
  BY <1>1, <1>2, MadeIsDescribed DEF Done, Described
<1>4. Ats[t] = root[t].at /\ FilesAt(Ats, t) = Walk(root[t]).files
  BY <1>1, FilesAtWalk DEF Done
<1>5. Described(t) \in Seq(FileShown)
  BY <1>3 DEF Lists
<1>6. root[t].len \in 0..SizeMax /\ root[t].lutsid # NoLut
  BY <1>1, <1>2 DEF Trees, Done
<1> QED BY <1>2, <1>3, <1>4, <1>5, <1>6

\* What is kept of a file is enough to find it.
LEMMA PlaceKept ==
  ASSUME DiskInv, TreesInv, pc = "idle", NEW t \in 1..Len(root),
         NEW i \in 1..Len(FilesAt(Ats, t))
  PROVE  LET o == FilesAt(Ats, t)[i]
             p == <<t, i>>
         IN /\ PlaceOf(Ats, p).offset = o /\ PlaceOf(Ats, p).tree = TreeIdx(t)
            /\ PlaceOf(Ats, p) # NoVal /\ <<t, o>> # NoVal
            /\ ~(o >= root[t].len) /\ HdrOf(Ats, p) = root[t].at[o]
<1> DEFINE f == FilesAt(Ats, t)
           o == f[i]
<1>1. /\ t \in Nat /\ f \in Seq(Nat) /\ root[t].len \in 0..SizeMax
      /\ Ats[t] = root[t].at
  BY TreeMet
<1>2. PICK s : /\ Lists(Ats[t], s, 0, root[t].len, Described(t))
               /\ ToSet(f) = ToSet(s)
  BY TreeMet
<1>3. o \in ToSet(f) /\ o \in Nat
  <2>1. DOMAIN f = 1..Len(f) /\ i \in 1..Len(f)
    BY <1>1
  <2> HIDE DEF f
  <2> QED BY <1>1, <2>1 DEF ToSet
<1>4. PICK j \in 1..Len(s) : o = s[j]
  <2>1. o \in ToSet(s) /\ s \in Seq(Nat)
    BY <1>2, <1>3 DEF Lists
  <2> HIDE DEF o
  <2> QED BY <2>1 DEF ToSet
<1>5. o < root[t].len
  BY <1>2, <1>4 DEF Lists
<1>6. /\ PlaceOf(Ats, <<t, i>>) = [tree |-> TreeIdx(t), offset |-> o]
      /\ HdrOf(Ats, <<t, i>>) = root[t].at[o]
  BY <1>1 DEF PlaceOf, Where, HdrOf
<1> HIDE DEF f, o
<1>7. o \in 0..SizeMax
  BY <1>1, <1>3, <1>5, Bounds
<1>8. TreeIdx(t) \in 0..(TreeIdxMod - 1)
  <2>1. t - 1 \in Nat /\ TreeIdxMod \in Nat \ {0}
    BY DiskAssumption
  <2>2. \A a \in Nat, b \in Nat \ {0} : a % b \in 0..(b - 1)
    OBVIOUS
  <2> QED BY <2>1, <2>2 DEF TreeIdx
<1>9. PlaceOf(Ats, <<t, i>>) # NoVal
  BY <1>6, <1>7, <1>8, DiskAssumption, LutAssumption
<1>10. <<t, o>> # NoVal
  BY <1>1, <1>3, DiskAssumption
<1>11. ~(o >= root[t].len)
  BY <1>1, <1>3, <1>5
<1> QED BY <1>6, <1>9, <1>10, <1>11 DEF o, f

\* The first tree of a number is that tree, while no two have the same.
LEMMA TreeFound ==
  ASSUME Len(root) \in Nat, Len(root) <= TreeIdxMod, NEW t \in 1..Len(root)
  PROVE  TreeOf(TreeIdx(t)) = t /\ t # 0
<1>1. TreeIdxMod \in Nat \ {0}
  BY DiskAssumption
<1>2. \A u \in 1..Len(root) : TreeIdx(u) = u - 1
  <2> TAKE u \in 1..Len(root)
  <2>1. u - 1 \in 0..(TreeIdxMod - 1)
    BY <1>1
  <2>2. \A a \in Nat, b \in Nat \ {0} : a < b => a % b = a
    OBVIOUS
  <2>3. (u - 1) % TreeIdxMod = u - 1
    BY <1>1, <2>1, <2>2
  <2> QED BY <2>3 DEF TreeIdx
<1> DEFINE S == {u \in 1..Len(root) : TreeIdx(u) = TreeIdx(t)}
<1>3. S = {t}
  BY <1>2
<1>4. TreeOf(TreeIdx(t)) = IF S = {} THEN 0
                           ELSE CHOOSE u \in S : \A v \in S : u <= v
  BY DEF TreeOf
<1> HIDE DEF S
<1>5. (CHOOSE u \in S : \A v \in S : u <= v) = t
  BY <1>3
<1> QED BY <1>3, <1>4, <1>5

\* A table finds the last file that is described, or that there is none.
LEMMA FindsMark ==
  ASSUME NEW A, NEW P, NEW sids, NEW key, NEW l, NEW G,
         FindsKey(l, A, P, sids, key), Agrees(A, P, sids, key, G)
  PROVE  LET mark == LastMark(G, With(G, key, sids))
         IN \/ LutLookup(l, key) = NoVal /\ mark = Bad
            \/ \E q \in P : /\ LutLookup(l, key) = PlaceOf(A, q)
                            /\ HdrOf(A, q).mark = mark
<1> DEFINE W == With(G, key, sids)
<1>1. /\ W = {} => Missing(A, P, sids, key)
      /\ W # {} => /\ key # 0 /\ \E p \in P : KeyAt(A, p, sids) = key
                   /\ \A q : IsLast(A, P, sids, key, q) =>
                               HdrOf(A, q).mark = LastMark(G, W)
  BY DEF Agrees
<1> HIDE DEF W
<1>2. CASE LutLookup(l, key) = NoVal /\ Missing(A, P, sids, key)
  <2>1. W = {}
    BY <1>1, <1>2 DEF Missing
  <2> QED BY <1>2, <2>1 DEF LastMark, W
<1>3. CASE key # 0 /\ \E q \in P : /\ IsLast(A, P, sids, key, q)
                                   /\ LutLookup(l, key) = PlaceOf(A, q)
  <2>1. PICK q \in P : /\ IsLast(A, P, sids, key, q)
                       /\ LutLookup(l, key) = PlaceOf(A, q)
    BY <1>3
  <2>2. W # {}
    BY <1>1, <1>3, <2>1 DEF Missing, IsLast
  <2> QED BY <1>1, <2>1, <2>2 DEF W
<1> QED BY <1>2, <1>3 DEF FindsKey

\* The trees, one after the other, show what is described.
LEMMA TreesAgree ==
  ASSUME DiskInv, TreesInv, pc = "idle", NEW key
  PROVE  LET all == FlattenSeq([t \in 1..Len(root) |-> Described(t)])
         IN Agrees(Ats, All(Ats, 1, Len(root)), FALSE, key, all)
<1> DEFINE n    == Len(root)
           seqs == [t \in 1..n |-> Described(t)]
<1>1. n \in Nat
  BY DEF DiskInv, DiskTypeOK
<1>2. \A t \in 1..n : Described(t) \in Seq(FileShown)
  BY TreeMet
<1> DEFINE D == FileShown
<1>3. seqs \in Seq(Seq(D)) /\ Len(seqs) = n
  <2> HIDE DEF D
  <2>1. \A t \in 1..n : Described(t) \in Seq(D)
    BY <1>2 DEF D
  <2> QED BY <1>1, <2>1
<1> HIDE DEF D, seqs
<1>4. PICK g : /\ g[0] = << >> /\ g[Len(seqs)] = FlattenSeq(seqs)
               /\ \A k \in 1..Len(seqs) : g[k] = g[k - 1] \o seqs[k]
               /\ \A k \in 0..Len(seqs) : g[k] \in Seq(D)
  BY <1>3, FlattenIs
<1>5. PICK A : A = Ats
  OBVIOUS
<1> DEFINE C(k) == Agrees(A, All(A, 1, k), FALSE, key, g[k])
           T    == {k \in Nat : k <= n => C(k)}
<1>6. C(0)
  <2>1. All(A, 1, 0) = {}
    BY DEF All, Upto
  <2>2. With(g[0], key, FALSE) = {}
    BY <1>4 DEF With
  <2> QED BY <2>1, <2>2 DEF Agrees, Missing
<1>7. ASSUME NEW k \in Nat, k + 1 <= n, C(k) PROVE C(k + 1)
  <2>1. Agrees(A, All(A, 1, k), FALSE, key, g[k])
    BY <1>7
  <2>2. k + 1 \in 1..n /\ k \in 0..n /\ (k + 1) - 1 = k /\ k + 1 \in Nat
    BY <1>1, <1>7
  <2>3. Agrees(A, All(A, k + 1, k + 1), FALSE, key, Described(k + 1))
    <3>1. /\ FilesAt(A, k + 1) \in Seq(Nat) /\ Orderly(FilesAt(A, k + 1), 0)
          /\ \E s : /\ Lists(A[k + 1], s, 0, root[k + 1].len, Described(k + 1))
                    /\ ToSet(FilesAt(A, k + 1)) = ToSet(s)
      BY <1>5, <2>2, TreeMet
    <3> QED BY <2>2, <3>1, TreeAgrees
  <2>4. /\ seqs[k + 1] = Described(k + 1) /\ Described(k + 1) \in Seq(D)
        /\ g[k + 1] = g[k] \o seqs[k + 1] /\ g[k] \in Seq(D)
    BY <1>2, <1>3, <1>4, <2>2 DEF seqs, D
  <2>5. /\ All(A, 1, k + 1) = All(A, 1, k) \cup All(A, k + 1, k + 1)
        /\ \A p \in All(A, 1, k), q \in All(A, k + 1, k + 1) :
             NotBehind(p, q) /\ ~NotBehind(q, p)
    BY AllMore
  <2>6. Agrees(A, All(A, 1, k) \cup All(A, k + 1, k + 1), FALSE, key,
               g[k] \o Described(k + 1))
    BY <2>1, <2>3, <2>4, <2>5, AgreesJoined
  <2> QED BY <2>4, <2>5, <2>6
<1> HIDE DEF C
<1>8. \A k \in Nat : k \in T
  <2>1. 0 \in T /\ \A k \in Nat : k \in T => k + 1 \in T
    BY <1>1, <1>6, <1>7
  <2> HIDE DEF T
  <2> QED BY <2>1, InductionOver
<1>9. C(n)
  BY <1>1, <1>8
<1>10. Agrees(A, All(A, 1, n), FALSE, key, g[n])
  BY <1>9 DEF C
<1> QED BY <1>3, <1>4, <1>5, <1>10 DEF seqs

-----------------------------------------------------------------------------
\* The SIDs of a tree.
LEMMA SidFound ==
  ASSUME DiskInv, TreesInv, TablesInv, pc = "idle", NEW t \in 1..Len(root),
         NEW key \in Keys
  PROVE  FoundMark(LookupSid(t, key))
           = LastMark(Described(t), WithSid(Described(t), key))
<1> DEFINE l    == root[t].lutsid
           v    == LutLookup(l, key)
           mark == LastMark(Described(t), With(Described(t), key, TRUE))
<1>1. With(Described(t), key, TRUE) = WithSid(Described(t), key)
  BY DEF With, WithSid, KeyOf
<1>2. FindsKey(l, Ats, All(Ats, t, t), TRUE, key)
  BY TreeMet DEF TablesInv, SidsFound, Finds
<1>3. Agrees(Ats, All(Ats, t, t), TRUE, key, Described(t))
  BY TreeMet, TreeAgrees
<1>4. \/ v = NoVal /\ mark = Bad
      \/ \E q \in All(Ats, t, t) : /\ v = PlaceOf(Ats, q)
                                   /\ HdrOf(Ats, q).mark = mark
  <2>1. PICK sids : sids = TRUE
    OBVIOUS
  <2> DEFINE P == All(Ats, t, t)
             G == Described(t)
  <2>2. FindsKey(l, Ats, P, sids, key) /\ Agrees(Ats, P, sids, key, G)
    BY <1>2, <1>3, <2>1
  <2>3. mark = LastMark(G, With(G, key, sids))
    BY <2>1
  <2> HIDE DEF l, mark, P, G
  <2>4. \/ LutLookup(l, key) = NoVal /\ mark = Bad
        \/ \E q \in P : /\ LutLookup(l, key) = PlaceOf(Ats, q)
                         /\ HdrOf(Ats, q).mark = mark
    BY <2>2, <2>3, FindsMark
  <2> QED BY <2>4 DEF P
<1> HIDE DEF mark
<1>5. ASSUME v = NoVal, mark = Bad PROVE FoundMark(LookupSid(t, key)) = mark
  <2>1. LookupSid(t, key) = NoVal
    BY <1>5 DEF LookupSid
  <2> QED BY <1>5, <2>1 DEF FoundMark
<1>6. ASSUME NEW q \in All(Ats, t, t), v = PlaceOf(Ats, q),
             HdrOf(Ats, q).mark = mark
      PROVE  FoundMark(LookupSid(t, key)) = mark
  <2>1. PICK i \in 1..Len(FilesAt(Ats, t)) : q = <<t, i>>
    BY TreeMet, PlaceIs
  <2> DEFINE o == FilesAt(Ats, t)[i]
  <2>2. /\ v.offset = o /\ v # NoVal /\ <<t, o>> # NoVal
        /\ ~(o >= root[t].len) /\ HdrOf(Ats, q) = root[t].at[o]
    BY <1>6, <2>1, PlaceKept
  <2> HIDE DEF o
  <2>3. LookupSid(t, key) = <<t, o>>
    BY <2>2 DEF LookupSid
  <2> QED BY <1>6, <2>2, <2>3 DEF FoundMark
<1> QED BY <1>1, <1>4, <1>5, <1>6 DEF mark

\* The places of all trees.
LEMMA PlaceIn ==
  ASSUME NEW A, NEW n \in Nat, NEW p \in All(A, 1, n)
  PROVE  \E t \in 1..n : \E i \in 1..Len(FilesAt(A, t)) : p = <<t, i>>
<1> DEFINE P(u) == {<<u, i>> : i \in 1..(IF u < n THEN Len(FilesAt(A, u))
                                         ELSE Len(FilesAt(A, n)))}
<1>1. All(A, 1, n) = UNION {P(u) : u \in 1..n}
  BY DEF All, Upto
<1>2. PICK t \in 1..n : p \in P(t)
  <2> HIDE DEF P
  <2> QED BY <1>1
<1>3. t < n \/ t = n
  OBVIOUS
<1> QED BY <1>2, <1>3

\* The IDs of a disk.
LEMMA IdFound ==
  ASSUME DiskInv, TreesInv, TablesInv, pc = "idle", Len(root) <= TreeIdxMod,
         NEW key \in Keys
  PROVE  LET all == FlattenSeq([t \in 1..Len(root) |-> Described(t)])
         IN FoundMark(LookupId(key)) = LastMark(all, WithId(all, key))
<1> DEFINE all  == FlattenSeq([t \in 1..Len(root) |-> Described(t)])
           v    == LutLookup(lutid, key)
           mark == LastMark(all, With(all, key, FALSE))
<1>1. With(all, key, FALSE) = WithId(all, key)
  BY DEF With, WithId, KeyOf
<1>2. Len(root) \in Nat
  BY DEF DiskInv, DiskTypeOK
<1>3. Agrees(Ats, All(Ats, 1, Len(root)), FALSE, key, all)
  BY TreesAgree
<1>4. FindsKey(lutid, Ats, All(Ats, 1, Len(root)), FALSE, key)
  <2>1. CASE lutid # NoLut
    BY <2>1 DEF TablesInv, IdsFound, Finds
  <2>2. CASE lutid = NoLut
    <3>1. root = << >>
      BY <2>2 DEF DiskInv, Stage, UsableOrAbsent
    <3>2. All(Ats, 1, Len(root)) = {}
      BY <3>1 DEF All, Upto
    <3>3. LutLookup(lutid, key) = NoVal
      BY <2>2 DEF LutLookup, NoLut, Count
    <3> QED BY <3>2, <3>3 DEF FindsKey, Missing
  <2> QED BY <2>1, <2>2
<1> HIDE DEF all
<1>5. \/ v = NoVal /\ mark = Bad
      \/ \E q \in All(Ats, 1, Len(root)) : /\ v = PlaceOf(Ats, q)
                                           /\ HdrOf(Ats, q).mark = mark
  <2>1. PICK sids : sids = FALSE
    OBVIOUS
  <2> DEFINE P == All(Ats, 1, Len(root))
  <2>2. FindsKey(lutid, Ats, P, sids, key) /\ Agrees(Ats, P, sids, key, all)
    BY <1>3, <1>4, <2>1
  <2>3. mark = LastMark(all, With(all, key, sids))
    BY <2>1
  <2> HIDE DEF mark, P
  <2>4. \/ LutLookup(lutid, key) = NoVal /\ mark = Bad
        \/ \E q \in P : /\ LutLookup(lutid, key) = PlaceOf(Ats, q)
                         /\ HdrOf(Ats, q).mark = mark
    BY <2>2, <2>3, FindsMark
  <2> QED BY <2>4 DEF P
<1> HIDE DEF mark
<1>6. ASSUME v = NoVal, mark = Bad PROVE FoundMark(LookupId(key)) = mark
  <2>1. LookupId(key) = NoVal
    BY <1>6 DEF LookupId
  <2> QED BY <1>6, <2>1 DEF FoundMark
<1>7. ASSUME NEW q \in All(Ats, 1, Len(root)), v = PlaceOf(Ats, q),
             HdrOf(Ats, q).mark = mark
      PROVE  FoundMark(LookupId(key)) = mark
  <2>0. PICK t \in 1..Len(root) :
          \E i \in 1..Len(FilesAt(Ats, t)) : q = <<t, i>>
    BY <1>2, PlaceIn
  <2>1. PICK i \in 1..Len(FilesAt(Ats, t)) : q = <<t, i>>
    BY <2>0
  <2> DEFINE o == FilesAt(Ats, t)[i]
  <2>2. /\ v.offset = o /\ v.tree = TreeIdx(t) /\ v # NoVal /\ <<t, o>> # NoVal
        /\ ~(o >= root[t].len) /\ HdrOf(Ats, q) = root[t].at[o]
    BY <1>7, <2>1, PlaceKept
  <2> HIDE DEF o
  <2>3. TreeOf(v.tree) = t /\ t # 0
    BY <1>2, <2>2, TreeFound
  <2>4. LookupId(key) = <<t, o>>
    BY <2>2, <2>3 DEF LookupId
  <2> QED BY <1>7, <2>2, <2>4 DEF FoundMark
<1> QED BY <1>1, <1>5, <1>6, <1>7 DEF mark, all

(***************************************************************************)
(* Every file of a disk is found by its ID, and by its SID in its tree; of *)
(* several with the same, the last in the description: for all             *)
(* descriptions, and after all saves and loads (lut_insert,                *)
(* swicc_disk_lutid_rebuild, swicc_disk_lutid_lookup and those of SIDs).   *)
(***************************************************************************)
THEOREM DiskFilesAreFound == DiskSpec => []FilesAreFound
<1>1. DiskInv /\ TreesInv /\ TablesInv => FilesAreFound
  BY SidFound, IdFound DEF FilesAreFound
<1> QED BY <1>1, DiskInvInductive, TreesInvInductive, TablesInvInductive, PTL
=============================================================================
