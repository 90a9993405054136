------------------------ MODULE ResponseChainProofs ------------------------
(***************************************************************************)
(* The chaining buffer for every capacity, every byte alphabet and every   *)
(* order of calls, as checked in MCApduRc; and response chaining for every *)
(* limit of P3, any responses, any proprietary handler and any interface,  *)
(* as checked in MCResponseChain.                                          *)
(***************************************************************************)
EXTENDS ResponseChain, TLAPS

-----------------------------------------------------------------------------
(* Substrings.                                                             *)

\* A substring that ends inside of the string, with its length and elements.
LEMMA Substring ==
  ASSUME NEW s \in Seq(Byte), NEW m \in Nat, NEW n \in Nat,
         m <= n, n <= Len(s)
  PROVE  /\ SubSeq(s, m + 1, n) \in Seq(Byte)
         /\ Len(SubSeq(s, m + 1, n)) = n - m
         /\ \A i \in 1..(n - m) : SubSeq(s, m + 1, n)[i] = s[m + i]
  OBVIOUS

\* The elements of a concatenation.
LEMMA Joined ==
  ASSUME NEW f \in Seq(Byte), NEW g \in Seq(Byte)
  PROVE  /\ f \o g \in Seq(Byte) /\ Len(f \o g) = Len(f) + Len(g)
         /\ \A i \in 1..Len(f) : (f \o g)[i] = f[i]
         /\ \A i \in 1..Len(g) : (f \o g)[Len(f) + i] = g[i]
  OBVIOUS

\* Two strings of one length with the same elements.
LEMMA SameString ==
  ASSUME NEW f \in Seq(Byte), NEW g \in Seq(Byte), Len(f) = Len(g),
         \A i \in 1..Len(f) : f[i] = g[i]
  PROVE  f = g
  OBVIOUS

\* Cutting a substring in two and putting it together again.
LEMMA CutAndJoin ==
  ASSUME NEW s \in Seq(Byte), NEW m \in Nat, NEW k \in Nat, NEW n \in Nat,
         m <= k, k <= n, n <= Len(s)
  PROVE  SubSeq(s, m + 1, k) \o SubSeq(s, k + 1, n) = SubSeq(s, m + 1, n)
<1> DEFINE f == SubSeq(s, m + 1, k)
           g == SubSeq(s, k + 1, n)
           h == SubSeq(s, m + 1, n)
<1>1. /\ f \in Seq(Byte) /\ Len(f) = k - m
      /\ \A i \in 1..(k - m) : f[i] = s[m + i]
  BY Substring
<1>2. /\ g \in Seq(Byte) /\ Len(g) = n - k
      /\ \A i \in 1..(n - k) : g[i] = s[k + i]
  <2>1. k <= n /\ n <= Len(s)
    OBVIOUS
  <2>2. QED
    BY <2>1, Substring
<1>3. /\ h \in Seq(Byte) /\ Len(h) = n - m
      /\ \A i \in 1..(n - m) : h[i] = s[m + i]
  <2>1. m <= n /\ n <= Len(s)
    OBVIOUS
  <2>2. QED
    BY <2>1, Substring
<1> HIDE DEF f, g, h
<1>4. /\ f \o g \in Seq(Byte) /\ Len(f \o g) = Len(h)
      /\ \A i \in 1..Len(f) : (f \o g)[i] = f[i]
      /\ \A i \in 1..Len(g) : (f \o g)[Len(f) + i] = g[i]
  <2>1. /\ f \o g \in Seq(Byte) /\ Len(f \o g) = Len(f) + Len(g)
        /\ \A i \in 1..Len(f) : (f \o g)[i] = f[i]
        /\ \A i \in 1..Len(g) : (f \o g)[Len(f) + i] = g[i]
    BY <1>1, <1>2, Joined
  <2>2. Len(f) + Len(g) = Len(h)
    BY <1>1, <1>2, <1>3
  <2>3. QED
    BY <2>1, <2>2, Zenon
<1>5. ASSUME NEW i \in 1..Len(f \o g) PROVE (f \o g)[i] = h[i]
  <2>1. i \in 1..(n - m) /\ h[i] = s[m + i]
    BY <1>3, <1>4
  <2>2. CASE i <= k - m
    <3>1. i \in 1..(k - m)
      BY <2>1, <2>2
    <3>2. (f \o g)[i] = f[i] /\ f[i] = s[m + i]
      BY <1>1, <1>4, <3>1
    <3>3. QED
      BY <2>1, <3>2
  <2>3. CASE i > k - m
    <3>1. PICK j \in 1..(n - k) : i = (k - m) + j
      <4>1. i - (k - m) \in 1..(n - k) /\ i = (k - m) + (i - (k - m))
        BY <2>1, <2>3
      <4>2. QED
        BY <4>1
    <3>2. (f \o g)[(k - m) + j] = g[j] /\ g[j] = s[k + j]
      BY <1>1, <1>2, <1>4
    <3>3. k + j = m + i
      BY <3>1
    <3>4. QED
      BY <2>1, <3>1, <3>2, <3>3
  <2>4. QED
    BY <2>1, <2>2, <2>3
<1>6. f \o g = h
  BY <1>3, <1>4, <1>5, SameString
<1>7. QED
  BY <1>6 DEF f, g, h

\* What is added behind a string leaves the front of its rest as it was.
LEMMA PutBehind ==
  ASSUME NEW s \in Seq(Byte), NEW buf \in Seq(Byte), NEW m \in Nat,
         m <= Len(s)
  PROVE  LET p == SubSeq(s, m + 1, Len(s))
             r == SubSeq(s \o buf, m + 1, Len(s \o buf))
         IN  Len(p) <= Len(r) /\ SubSeq(r, 1, Len(p)) = p
<1> DEFINE t == s \o buf
           p == SubSeq(s, m + 1, Len(s))
           r == SubSeq(t, m + 1, Len(t))
<1>1. /\ t \in Seq(Byte) /\ Len(t) = Len(s) + Len(buf)
      /\ \A i \in 1..Len(s) : t[i] = s[i]
  BY Joined
<1> HIDE DEF t
<1>2. Len(s) \in Nat /\ Len(buf) \in Nat /\ Len(t) \in Nat /\ m <= Len(t)
  BY <1>1
<1>3. /\ p \in Seq(Byte) /\ Len(p) = Len(s) - m
      /\ \A i \in 1..(Len(s) - m) : p[i] = s[m + i]
  BY <1>2, Substring
<1>4. /\ r \in Seq(Byte) /\ Len(r) = Len(t) - m
      /\ \A i \in 1..(Len(t) - m) : r[i] = t[m + i]
  BY <1>1, <1>2, Substring
<1> HIDE DEF p, r
<1>5. Len(p) <= Len(r) /\ Len(p) \in Nat
  BY <1>1, <1>2, <1>3, <1>4
<1>6. /\ SubSeq(r, 1, Len(p)) \in Seq(Byte)
      /\ Len(SubSeq(r, 1, Len(p))) = Len(p)
      /\ \A i \in 1..Len(p) : SubSeq(r, 1, Len(p))[i] = r[i]
  BY <1>4, <1>5
<1>7. ASSUME NEW i \in 1..Len(p) PROVE r[i] = p[i]
  <2>1. /\ i \in 1..(Len(s) - m) /\ i \in 1..(Len(t) - m)
        /\ m + i \in 1..Len(s)
    BY <1>1, <1>2, <1>3
  <2>2. p[i] = s[m + i] /\ r[i] = t[m + i] /\ t[m + i] = s[m + i]
    BY <1>1, <1>3, <1>4, <2>1
  <2>3. QED
    BY <2>2
<1>8. SubSeq(r, 1, Len(p)) = p
  BY <1>3, <1>6, <1>7, SameString
<1>9. QED
  BY <1>5, <1>8 DEF p, r, t

-----------------------------------------------------------------------------
(***************************************************************************)
(* Neither subtraction of the offset from the length wraps around, and the *)
(* memcpy of swicc_apdu_rc_enq stays inside of the buffer.                 *)
(***************************************************************************)
THEOREM RcTypeCorrect == RcSpec => []RcTypeOK
<1>1. RcInit => RcTypeOK
  <2>1. << >> \in Seq(Byte) /\ Len(<< >>) = 0
    OBVIOUS
  <2>2. QED
    BY <2>1, RcAssumption DEF RcInit, RcTypeOK, RcEmpty
<1>2. RcTypeOK /\ [RcNext]_rcVars => RcTypeOK'
  <2> SUFFICES ASSUME RcTypeOK, [RcNext]_rcVars PROVE RcTypeOK'
    OBVIOUS
  <2> USE DEF RcTypeOK
  <2>1. << >> \in Seq(Byte) /\ Len(<< >>) = 0
    OBVIOUS
  <2>2. CASE RcReset
    BY <2>1, <2>2, RcAssumption DEF RcReset, RcEmpty
  <2>3. ASSUME NEW buf \in Chunks, RcEnq(buf) PROVE RcTypeOK'
    <3>1. /\ buf \in Seq(Byte) /\ rc.b \o buf \in Seq(Byte)
          /\ Len(rc.b \o buf) = Len(rc.b) + Len(buf)
      BY RcAssumption
    <3>2. CASE rc' = rc
      BY <2>1, <2>3, <3>2 DEF RcEnq
    <3>3. CASE EnqFits(rc, buf) /\ rc' = Enq(rc, buf)
      <4>1. rc' = [b |-> rc.b \o buf, offset |-> rc.offset]
        BY <3>3 DEF Enq
      <4>2. rc' \in [b : Seq(Byte), offset : Nat]
        BY <3>1, <4>1
      <4>3. rc'.offset <= Len(rc'.b) /\ Len(rc'.b) <= DataMax
        BY <3>1, <3>3, <4>1, RcAssumption DEF EnqFits
      <4>4. QED
        BY <2>1, <2>3, <4>2, <4>3 DEF RcEnq
    <3>4. QED
      BY <2>3, <3>2, <3>3 DEF RcEnq
  <2>4. ASSUME NEW n \in 0..DataMax + 1, RcDeq(n) PROVE RcTypeOK'
    <3>1. CASE rc' = rc /\ out' = << >>
      BY <2>1, <3>1
    <3>2. CASE DeqFits(rc, n) /\ rc' = Deq(rc, n) /\ out' = DeqBytes(rc, n)
      <4>1. /\ rc' = [b |-> rc.b, offset |-> rc.offset + n]
            /\ rc.offset + n <= Len(rc.b) /\ rc.offset + n \in Nat
        BY <3>2, RcAssumption DEF Deq, DeqFits, RcLenRem
      <4>2. out' \in Seq(Byte)
        <5>1. SubSeq(rc.b, rc.offset + 1, rc.offset + n) \in Seq(Byte)
          BY <4>1, Substring
        <5>2. QED
          BY <3>2, <5>1 DEF DeqBytes
      <4>3. QED
        BY <4>1, <4>2
    <3>3. QED
      BY <2>4, <3>1, <3>2 DEF RcDeq
  <2>5. CASE UNCHANGED rcVars
    BY <2>5 DEF rcVars
  <2>6. QED
    BY <2>2, <2>3, <2>4, <2>5 DEF RcNext
<1>3. QED
  BY <1>1, <1>2, PTL DEF RcSpec

(***************************************************************************)
(* The buffer implements the byte queue: swicc_apdu_rc_deq hands out the   *)
(* front of what swicc_apdu_rc_enq put in, in order and each byte once.    *)
(***************************************************************************)
THEOREM RcIsQueue == RcSpec => IsQueue
<1>1. RcInit => Queue!Init
  BY DEF RcInit, RcEmpty, Queue!Init, Pending
<1>2. RcTypeOK /\ [RcNext]_rcVars => [Queue!Next]_Queue!vars
  <2> SUFFICES ASSUME RcTypeOK, [RcNext]_rcVars
               PROVE  [Queue!Next]_Queue!vars
    OBVIOUS
  <2>1. /\ rc.b \in Seq(Byte) /\ rc.offset \in Nat
        /\ rc.offset <= Len(rc.b) /\ Len(rc.b) \in Nat
    BY DEF RcTypeOK
  <2>2. CASE RcReset
    BY <2>2 DEF RcReset, RcEmpty, Pending, Queue!Next, Queue!Clear
  <2>3. ASSUME rc' = rc, out' = << >> PROVE Queue!Next
    <3>1. Pending \in Seq(Byte) /\ << >> \o Pending = Pending
      BY <2>1, Substring DEF Pending
    <3>2. Pending' = Pending
      BY <2>3 DEF Pending
    <3>3. QED
      BY <2>3, <3>1, <3>2 DEF Queue!Next, Queue!Take
  <2>4. ASSUME NEW buf \in Chunks, EnqFits(rc, buf), rc' = Enq(rc, buf),
               out' = << >>
        PROVE  Queue!Next
    <3>1. /\ rc'.b = rc.b \o buf /\ rc'.offset = rc.offset
          /\ buf \in Seq(Byte)
      BY <2>4, RcAssumption DEF Enq, RcTypeOK
    <3>2. /\ Len(Pending) <= Len(Pending')
          /\ SubSeq(Pending', 1, Len(Pending)) = Pending
      <4>1. /\ Len(SubSeq(rc.b, rc.offset + 1, Len(rc.b)))
                 <= Len(SubSeq(rc.b \o buf, rc.offset + 1, Len(rc.b \o buf)))
            /\ SubSeq(SubSeq(rc.b \o buf, rc.offset + 1, Len(rc.b \o buf)), 1,
                      Len(SubSeq(rc.b, rc.offset + 1, Len(rc.b))))
               = SubSeq(rc.b, rc.offset + 1, Len(rc.b))
        BY <2>1, <3>1, PutBehind, Zenon
      <4>2. Pending' = SubSeq(rc.b \o buf, rc.offset + 1, Len(rc.b \o buf))
        BY <3>1, Zenon DEF Pending
      <4>3. QED
        BY <4>1, <4>2, Zenon DEF Pending
    <3>3. QED
      BY <2>4, <3>2 DEF Queue!Next, Queue!Put
  <2>5. ASSUME NEW n \in 0..DataMax + 1, DeqFits(rc, n), rc' = Deq(rc, n),
               out' = DeqBytes(rc, n)
        PROVE  Queue!Next
    <3>1. n \in Nat /\ rc.offset + n \in Nat /\ rc.offset + n <= Len(rc.b)
      BY <2>1, <2>5, RcAssumption DEF DeqFits, RcLenRem
    <3>2. rc'.b = rc.b /\ rc'.offset = rc.offset + n
      BY <2>5 DEF Deq, RcTypeOK
    <3>3. out' \o Pending' = Pending
      <4> DEFINE k == rc.offset + n
      <4>1. SubSeq(rc.b, rc.offset + 1, k) \o SubSeq(rc.b, k + 1, Len(rc.b))
            = SubSeq(rc.b, rc.offset + 1, Len(rc.b))
        <5>1. /\ k \in Nat /\ rc.offset <= k /\ k <= Len(rc.b)
              /\ Len(rc.b) <= Len(rc.b)
          BY <2>1, <3>1
        <5> HIDE DEF k
        <5>2. QED
          BY <2>1, <5>1, CutAndJoin, Zenon
      <4>2. QED
        BY <2>5, <3>2, <4>1 DEF Pending, DeqBytes
    <3>4. QED
      BY <3>3 DEF Queue!Next, Queue!Take
  <2>6. CASE UNCHANGED rcVars
    BY <2>6 DEF rcVars, Queue!vars, Pending
  <2>7. QED
    BY <2>2, <2>3, <2>4, <2>5, <2>6 DEF RcNext, RcEnq, RcDeq
<1>3. QED
  BY <1>1, <1>2, RcTypeCorrect, PTL DEF RcSpec, IsQueue, Queue!Spec

-----------------------------------------------------------------------------
(* The use of the buffer.                                                  *)

\* The history is what the buffer holds, and how much of it was handed out.
Tracks == chain = rc.b /\ received = SubSeq(rc.b, 1, rc.offset)

\* A command that interrupted a fetch has not been handled yet.
Interrupts ==
  stale = "interindustry" =>
    cmd \in Command /\ sw = "none" /\ ResetsChain(cmd)

CmdTypeOK == cmd \in Command \cup {NoCommand} /\ sw \in Answers

ChainInv ==
  /\ RcTypeOK /\ CmdTypeOK
  /\ Tracks /\ AnnouncedIsThere /\ Interrupts

-----------------------------------------------------------------------------
(* What the handlers do to the buffer.                                     *)

\* The empty string, and what is before its first byte.
LEMMA EmptyString ==
  /\ << >> \in Seq(Byte) /\ Len(<< >>) = 0
  /\ \A s \in Seq(Byte) : SubSeq(s, 1, 0) = << >>
  OBVIOUS

\* An empty buffer.
LEMMA EmptyBuffer ==
  /\ RcEmpty \in [b : Seq(Byte), offset : Nat]
  /\ RcEmpty.b = << >> /\ RcEmpty.offset = 0
  /\ Len(RcEmpty.b) = 0 /\ SubSeq(RcEmpty.b, 1, RcEmpty.offset) = << >>
  BY EmptyString DEF RcEmpty

\* What is added behind a string leaves its front alone.
LEMMA FrontKept ==
  ASSUME NEW s \in Seq(Byte), NEW buf \in Seq(Byte), NEW m \in Nat,
         m <= Len(s)
  PROVE  SubSeq(s \o buf, 1, m) = SubSeq(s, 1, m)
<1> DEFINE t == s \o buf
           p == SubSeq(s, 1, m)
           r == SubSeq(t, 1, m)
<1>1. /\ t \in Seq(Byte) /\ Len(t) = Len(s) + Len(buf)
      /\ \A i \in 1..Len(s) : t[i] = s[i]
  BY Joined
<1> HIDE DEF t
<1>2. Len(s) \in Nat /\ Len(buf) \in Nat /\ m <= Len(t)
  BY <1>1
<1>3. p \in Seq(Byte) /\ Len(p) = m /\ \A i \in 1..m : p[i] = s[i]
  OBVIOUS
<1>4. r \in Seq(Byte) /\ Len(r) = m /\ \A i \in 1..m : r[i] = t[i]
  BY <1>1, <1>2
<1> HIDE DEF p, r
<1>5. \A i \in 1..m : r[i] = p[i]
  BY <1>1, <1>2, <1>3, <1>4
<1>6. r = p
  BY <1>3, <1>4, <1>5, SameString
<1>7. QED
  BY <1>6 DEF p, r, t

\* A handler that adds nothing.
LEMMA LeaveTracks ==
  ASSUME RcTypeOK, Tracks, NEW q \in {rc, RcEmpty}, Leave(q)
  PROVE  /\ RcTypeOK' /\ Tracks' /\ out' = << >>
         /\ stale' = stale \/ stale' = "no"
         /\ q = RcEmpty => stale' = "no"
<1>1. rc' = q /\ out' = << >> /\ out' \in Seq(Byte)
  BY EmptyString DEF Leave
<1>2. RcTypeOK'
  BY <1>1, EmptyBuffer, RcAssumption DEF RcTypeOK
<1>3. CASE q = RcEmpty
  <2>1. chain' = << >> /\ received' = << >> /\ stale' = "no"
    BY <1>3 DEF Leave
  <2>2. QED
    BY <1>1, <1>2, <1>3, <2>1, EmptyBuffer DEF Tracks
<1>4. CASE q # RcEmpty
  <2>1. UNCHANGED <<chain, received, stale>> /\ rc' = rc
    BY <1>1, <1>4 DEF Leave, histVars
  <2>2. QED
    BY <1>1, <1>2, <1>4, <2>1 DEF Tracks
<1>5. QED
  BY <1>3, <1>4

\* A handler that enqueues a response.
LEMMA RespondTracks ==
  ASSUME RcTypeOK, Tracks, NEW q \in {rc, RcEmpty}, NEW buf \in Chunks,
         EnqFits(q, buf), Respond(q, buf)
  PROVE  /\ RcTypeOK' /\ Tracks' /\ out' = << >> /\ stale' = "no"
         /\ Len(buf) \in Nat \ {0} /\ Len(buf) <= RcLenRem(rc')
         /\ RcLenRem(rc') \in Nat /\ rc' = Enq(q, buf)
<1>1. /\ q \in [b : Seq(Byte), offset : Nat]
      /\ q.offset <= Len(q.b) /\ Len(q.b) \in Nat /\ q.b \in Seq(Byte)
  BY EmptyBuffer DEF RcTypeOK
<1>2. buf \in Seq(Byte) /\ Len(buf) \in Nat /\ Len(buf) # 0
  BY RcAssumption, ChainAssumption
<1>3. /\ q.b \o buf \in Seq(Byte)
      /\ Len(q.b \o buf) = Len(q.b) + Len(buf)
  BY <1>1, <1>2
<1>4. rc' = Enq(q, buf) /\ out' = << >> /\ stale' = "no"
  BY DEF Respond
<1>5. /\ rc' \in [b : Seq(Byte), offset : Nat]
      /\ rc'.b = q.b \o buf /\ rc'.offset = q.offset
  BY <1>1, <1>3, <1>4 DEF Enq
<1>6. RcTypeOK'
  BY <1>1, <1>2, <1>3, <1>4, <1>5, EmptyString DEF RcTypeOK, EnqFits
<1>7. Len(buf) <= RcLenRem(rc') /\ RcLenRem(rc') \in Nat
  BY <1>1, <1>2, <1>3, <1>5 DEF RcLenRem
<1>8. SubSeq(q.b \o buf, 1, q.offset) = SubSeq(q.b, 1, q.offset)
  BY <1>1, <1>2, FrontKept
<1>9. CASE q = RcEmpty
  <2>1. chain' = buf /\ received' = << >>
    BY <1>9 DEF Respond
  <2>2. q.b \o buf = buf
    BY <1>2, <1>9, EmptyBuffer
  <2>3. Tracks'
    BY <1>5, <1>8, <1>9, <2>1, <2>2, EmptyBuffer DEF Tracks
  <2>4. QED
    BY <1>2, <1>4, <1>6, <1>7, <2>3
<1>10. CASE q # RcEmpty
  <2>1. q = rc /\ chain' = chain \o buf /\ received' = received
    BY <1>10 DEF Respond
  <2>2. Tracks'
    BY <1>5, <1>8, <2>1 DEF Tracks
  <2>3. QED
    BY <1>2, <1>4, <1>6, <1>7, <2>2
<1>11. QED
  BY <1>9, <1>10

\* GET RESPONSE hands out the next n bytes.
LEMMA FetchTracks ==
  ASSUME RcTypeOK, Tracks, NEW n \in Nat, DeqFits(rc, n),
         rc' = Deq(rc, n), out' = DeqBytes(rc, n),
         received' = received \o out', chain' = chain
  PROVE  /\ RcTypeOK' /\ Tracks' /\ RcLenRem(rc') \in Nat
         /\ RcLenRem(rc') = 0 => received' = chain'
<1> DEFINE s == rc.b
           m == rc.offset
<1>1. s \in Seq(Byte) /\ m \in Nat /\ Len(s) \in Nat /\ m + n \in Nat
      /\ m + n <= Len(s) /\ m <= Len(s)
  BY DEF RcTypeOK, DeqFits, RcLenRem
<1>2. /\ rc' \in [b : Seq(Byte), offset : Nat]
      /\ rc'.b = s /\ rc'.offset = m + n
  BY <1>1 DEF RcTypeOK, Deq
<1>3. out' = SubSeq(s, m + 1, m + n) /\ out' \in Seq(Byte)
  <2>1. m <= m + n
    BY <1>1
  <2>2. SubSeq(s, m + 1, m + n) \in Seq(Byte)
    BY <1>1, <2>1, Substring
  <2>3. QED
    BY <2>2 DEF DeqBytes
<1>4. RcTypeOK'
  BY <1>1, <1>2, <1>3 DEF RcTypeOK
<1>5. received' = SubSeq(s, 1, m + n)
  <2>1. SubSeq(s, 0 + 1, m) \o SubSeq(s, m + 1, m + n)
          = SubSeq(s, 0 + 1, m + n)
    <3>1. 0 \in Nat /\ 0 <= m /\ m <= m + n
      BY <1>1
    <3> HIDE DEF s, m
    <3>2. QED
      BY <1>1, <3>1, CutAndJoin
  <2>2. 0 + 1 = 1
    OBVIOUS
  <2>3. QED
    BY <1>3, <2>1, <2>2 DEF Tracks
<1>6. Tracks'
  BY <1>2, <1>5 DEF Tracks
<1>7. RcLenRem(rc') = Len(s) - (m + n)
  BY <1>2 DEF RcLenRem
<1>8. ASSUME RcLenRem(rc') = 0 PROVE received' = chain'
  <2>1. m + n = Len(s)
    BY <1>1, <1>7, <1>8
  <2>2. SubSeq(s, 1, Len(s)) = s
    BY <1>1
  <2>3. QED
    BY <1>5, <2>1, <2>2 DEF Tracks
<1>9. QED
  BY <1>1, <1>4, <1>6, <1>7, <1>8

-----------------------------------------------------------------------------
(* The handlers.                                                           *)

\* What any handler may make of the buffer q that it is given.
Handled(q) ==
  /\ RcTypeOK' /\ CmdTypeOK' /\ Tracks' /\ AnnouncedIsThere'
  /\ stale' = stale \/ stale' = "no"
  /\ q = RcEmpty => stale' = "no"
  /\ out' # << >> => IsChaining(cmd) /\ (sw' = "9000" => received' = chain')

\* An announcement of n bytes, as 61xx makes it.
LEMMA Announced ==
  ASSUME NEW n \in Nat \ {0}
  PROVE  Announce(n) \in 1..P3Max /\ Announce(n) <= n
  BY ChainAssumption DEF Announce

\* A procedure byte, or the status of a command that adds nothing.
LEMMA Answered ==
  ASSUME ChainInv, NEW q \in {rc, RcEmpty}, Leave(q), NEW n,
         \/ Ack(n)
         \/ \E s \in Answers \ {"61"} : Status(s, n)
  PROVE  Handled(q)
<1>1. /\ RcTypeOK' /\ Tracks' /\ out' = << >>
      /\ stale' = stale \/ stale' = "no"
      /\ q = RcEmpty => stale' = "no"
  BY LeaveTracks DEF ChainInv
<1>2. sw' \in Answers \ {"61"} /\ cmd' \in {cmd, NoCommand}
  BY DEF Ack, Status, Answers
<1>3. CmdTypeOK' /\ AnnouncedIsThere'
  BY <1>2 DEF ChainInv, CmdTypeOK, AnnouncedIsThere
<1>4. QED
  BY <1>1, <1>3 DEF Handled

\* A response, announced with a length n that the buffer holds.
LEMMA Responded ==
  ASSUME ChainInv, NEW q \in {rc, RcEmpty}, NEW buf \in Chunks,
         EnqFits(q, buf), Respond(q, buf), NEW n, Status("61", n),
         n \in {Len(buf), Announce(RcLenRem(Enq(q, buf)))},
         n = Len(buf) => Len(buf) <= P3Max
  PROVE  Handled(q)
<1>1. /\ RcTypeOK' /\ Tracks' /\ out' = << >> /\ stale' = "no"
      /\ Len(buf) \in Nat \ {0} /\ Len(buf) <= RcLenRem(rc')
      /\ RcLenRem(rc') \in Nat /\ rc' = Enq(q, buf)
  BY RespondTracks DEF ChainInv
<1>2. sw' = "61" /\ sw2' = n /\ cmd' = NoCommand
  BY DEF Status
<1>3. n \in 1..P3Max /\ n <= RcLenRem(rc')
  <2>1. CASE n = Len(buf)
    BY <1>1, <2>1, ChainAssumption
  <2>2. CASE n = Announce(RcLenRem(rc'))
    <3>1. RcLenRem(rc') \in Nat \ {0}
      BY <1>1
    <3>2. QED
      BY <2>2, <3>1, Announced
  <2>3. QED
    BY <1>1, <2>1, <2>2
<1>4. CmdTypeOK' /\ AnnouncedIsThere'
  BY <1>2, <1>3 DEF CmdTypeOK, AnnouncedIsThere, Answers, RcLenRem
<1>5. QED
  BY <1>1, <1>4 DEF Handled

LEMMA GetResponseStep ==
  ASSUME ChainInv, cmd \in Command, IsChaining(cmd), GetResponse(rc)
  PROVE  Handled(rc)
<1>1. CASE /\ DeqFits(rc, cmd.p3) /\ cmd.p3 > 0
           /\ rc' = Deq(rc, cmd.p3) /\ out' = DeqBytes(rc, cmd.p3)
           /\ received' = received \o out'
           /\ LET rem == RcLenRem(rc')
              IN IF rem > 0 THEN Status("61", Announce(rem))
                 ELSE Status("9000", 0)
           /\ UNCHANGED <<chain, stale>>
  <2> DEFINE rem == RcLenRem(rc')
  <2>1. cmd.p3 \in Nat
    BY ChainAssumption DEF Command
  <2>2. /\ RcTypeOK' /\ Tracks' /\ rem \in Nat
        /\ rem = 0 => received' = chain'
    BY <1>1, <2>1, FetchTracks DEF ChainInv
  <2>3. rc # RcEmpty
    BY <1>1, <2>1, EmptyBuffer DEF DeqFits, RcLenRem
  <2>4. CASE rem > 0
    <3>1. sw' = "61" /\ sw2' = Announce(rem) /\ cmd' = NoCommand
      BY <1>1, <2>4 DEF Status
    <3>2. Announce(rem) \in 1..P3Max /\ Announce(rem) <= rem
      BY <2>2, <2>4, Announced
    <3>3. CmdTypeOK' /\ AnnouncedIsThere'
      BY <3>1, <3>2 DEF CmdTypeOK, AnnouncedIsThere, Answers, RcLenRem
    <3>4. QED
      BY <1>1, <2>2, <2>3, <3>1, <3>3 DEF Handled
  <2>5. CASE ~(rem > 0)
    <3>1. sw' = "9000" /\ cmd' = NoCommand
      BY <1>1, <2>5 DEF Status
    <3>2. CmdTypeOK' /\ AnnouncedIsThere'
      BY <3>1 DEF CmdTypeOK, AnnouncedIsThere, Answers
    <3>3. rem = 0
      BY <2>2, <2>5
    <3>4. QED
      BY <1>1, <2>2, <2>3, <3>2, <3>3 DEF Handled
  <2>6. QED
    BY <2>4, <2>5
<1>2. CASE /\ Leave(rc)
           /\ \/ Ack(0)
              \/ \E s \in {"6701", "6A86", "9000", "6282"} : Status(s, 0)
  BY <1>2, Answered DEF Answers
<1>3. QED
  BY <1>1, <1>2 DEF GetResponse

LEMMA SelectStep ==
  ASSUME ChainInv, NEW q \in {rc, RcEmpty}, Select(q)
  PROVE  Handled(q)
<1>1. CASE /\ Leave(q)
           /\ \/ Ack(cmd.p3)
              \/ \E s \in {"6A86", "6702", "error", "9000"} : Status(s, 0)
  BY <1>1, Answered DEF Answers
<1>2. ASSUME NEW buf \in Chunks, Len(buf) <= P3Max, EnqFits(q, buf),
             Status("61", Len(buf)), Respond(q, buf)
      PROVE  Handled(q)
  BY <1>2, Responded
<1>3. QED
  BY <1>1, <1>2 DEF Select

LEMMA OtherStep ==
  ASSUME ChainInv, NEW q \in {rc, RcEmpty}, Other(q)
  PROVE  Handled(q)
<1>1. PICK n : \/ Ack(n)
               \/ \E s \in {"9000", "error", "6D00"} : Status(s, n)
  BY DEF Other
<1>2. Leave(q)
  BY DEF Other
<1>3. QED
  BY <1>1, <1>2, Answered DEF Answers

\* It is given a buffer and may empty it.
LEMMA ProprietaryStep ==
  ASSUME ChainInv, NEW q \in {rc, RcEmpty}, Proprietary(q)
  PROVE  Handled(q)
<1>1. ASSUME NEW r \in {q, RcEmpty}, Handled(r) PROVE Handled(q)
  BY <1>1 DEF Handled
<1>2. CASE Ack(cmd.p3) /\ Leave(q)
  BY <1>2, Answered
<1>3. ASSUME NEW s \in {"9000", "6D00", "error"}, NEW r \in {q, RcEmpty},
             Status(s, 0), Leave(r)
      PROVE  Handled(q)
  <2>1. r \in {rc, RcEmpty} /\ s \in Answers \ {"61"}
    BY DEF Answers
  <2>2. Handled(r)
    BY <1>3, <2>1, Answered
  <2>3. QED
    BY <1>1, <2>2
<1>4. ASSUME NEW r \in {q, RcEmpty}, NEW buf \in Chunks, EnqFits(r, buf),
             Status("61", Announce(RcLenRem(Enq(r, buf)))), Respond(r, buf)
      PROVE  Handled(q)
  <2> DEFINE n == Announce(RcLenRem(Enq(r, buf)))
  <2>1. r \in {rc, RcEmpty}
    OBVIOUS
  <2>2. rc' = Enq(r, buf) /\ RcLenRem(rc') \in Nat \ {0}
    <3>1. /\ Len(buf) \in Nat \ {0} /\ Len(buf) <= RcLenRem(rc')
          /\ RcLenRem(rc') \in Nat /\ rc' = Enq(r, buf)
      BY <1>4, <2>1, RespondTracks DEF ChainInv
    <3>2. QED
      BY <3>1
  <2>3. n \in 1..P3Max
    BY <2>2, Announced
  <2>4. n = Len(buf) => Len(buf) <= P3Max
    BY <2>3, ChainAssumption
  <2>5. Handled(r)
    BY <1>4, <2>1, <2>4, Responded
  <2>6. QED
    BY <1>1, <2>5
<1>5. QED
  BY <1>2, <1>3, <1>4 DEF Proprietary

\* One call of the demultiplexer.
LEMMA HandlerStep ==
  ASSUME ChainInv, RunHandler
  PROVE  /\ ChainInv'
         /\ out' # << >> => /\ IsChaining(cmd)
                            /\ sw' = "9000" => received' = chain'
<1> DEFINE q == IF ResetsChain(cmd) THEN RcEmpty ELSE rc
<1>1. q \in {rc, RcEmpty} /\ cmd \in Command
  BY DEF RunHandler, ChainInv, CmdTypeOK
<1>2. Handled(q)
  <2>1. CASE cmd.cla = "rfu"
    <3>1. Status("6E00", 0) /\ Leave(q)
      BY <2>1 DEF RunHandler
    <3>2. QED
      BY <1>1, <3>1, Answered DEF Answers
  <2>2. CASE cmd.cla = "proprietary"
    <3>1. CASE Status("6D00", 0) /\ Leave(q)
      BY <1>1, <3>1, Answered DEF Answers
    <3>2. CASE Proprietary(q)
      BY <1>1, <3>2, ProprietaryStep
    <3>3. QED
      BY <2>2, <3>1, <3>2 DEF RunHandler
  <2>3. CASE cmd.cla = "interindustry"
    <3>1. CASE Proprietary(q)
      BY <1>1, <3>1, ProprietaryStep
    <3>2. CASE cmd.ins = "GET_RESPONSE" /\ GetResponse(q)
      <4>1. q = rc /\ IsChaining(cmd)
        BY <2>3, <3>2 DEF ResetsChain, IsChaining
      <4>2. QED
        BY <1>1, <3>2, <4>1, GetResponseStep
    <3>3. CASE Select(q)
      BY <1>1, <3>3, SelectStep
    <3>4. CASE Other(q)
      BY <1>1, <3>4, OtherStep
    <3>5. QED
      BY <2>3, <3>1, <3>2, <3>3, <3>4 DEF RunHandler
  <2>4. QED
    BY <1>1, <2>1, <2>2, <2>3, ChainAssumption DEF Command
<1>3. Interrupts'
  <2>1. CASE stale = "interindustry"
    BY <1>2, <2>1 DEF ChainInv, Interrupts, Handled
  <2>2. CASE stale # "interindustry"
    BY <1>2, <2>2 DEF Interrupts, Handled
  <2>3. QED
    BY <2>1, <2>2
<1>4. QED
  BY <1>2, <1>3 DEF ChainInv, Handled

-----------------------------------------------------------------------------
(* The interface.                                                          *)

LEMMA SendStep ==
  ASSUME ChainInv, NEW c \in Command, StartCommand(c)
  PROVE  ChainInv' /\ out' = << >>
<1>1. /\ cmd = NoCommand /\ cmd' = c /\ sw' = "none" /\ out' = << >>
      /\ rc' = rc /\ chain' = chain /\ received' = received
      /\ stale' = IF IsChaining(c) \/ chain = << >> THEN stale ELSE c.cla
  BY DEF StartCommand
<1>2. stale # "interindustry"
  <2>1. NoCommand \notin Command
    BY DEF NoCommand, Command, Instructions
  <2>2. QED
    BY <1>1, <2>1 DEF ChainInv, Interrupts
<1>3. RcTypeOK' /\ CmdTypeOK' /\ Tracks' /\ AnnouncedIsThere'
  BY <1>1, EmptyString
     DEF ChainInv, RcTypeOK, CmdTypeOK, Tracks, AnnouncedIsThere, Answers
<1>4. Interrupts'
  BY <1>1, <1>2 DEF Interrupts, IsChaining, ResetsChain
<1>5. QED
  BY <1>1, <1>3, <1>4 DEF ChainInv

LEMMA DataStep ==
  ASSUME ChainInv, NEW n, ReceiveData(n)
  PROVE  ChainInv' /\ out' = << >>
<1>1. /\ sw = "ACK" /\ sw' = "none" /\ out' = << >>
      /\ rc' = rc /\ cmd' = cmd /\ chain' = chain /\ received' = received
      /\ stale' = stale
  BY DEF ReceiveData, histVars
<1>2. RcTypeOK' /\ CmdTypeOK' /\ Tracks' /\ AnnouncedIsThere' /\ Interrupts'
  BY <1>1, EmptyString
     DEF ChainInv, RcTypeOK, CmdTypeOK, Tracks, AnnouncedIsThere, Answers,
         Interrupts
<1>3. QED
  BY <1>1, <1>2 DEF ChainInv

\* The start, and a reset in the middle of anything.
LEMMA FreshChain ==
  ASSUME rc = RcEmpty, out = << >>, cmd = NoCommand, sw = "none",
         chain = << >>, received = << >>, stale = "no"
  PROVE  ChainInv
<1>1. RcTypeOK
  BY EmptyString, EmptyBuffer, RcAssumption DEF RcTypeOK
<1>2. CmdTypeOK /\ AnnouncedIsThere /\ Interrupts
  BY DEF CmdTypeOK, AnnouncedIsThere, Interrupts, Answers
<1>3. Tracks
  BY EmptyBuffer DEF Tracks
<1>4. QED
  BY <1>1, <1>2, <1>3 DEF ChainInv

LEMMA ResetStep ==
  ASSUME CardReset
  PROVE  ChainInv' /\ out' = << >>
<1>1. RcTypeOK' /\ out' = << >>
  BY EmptyString, EmptyBuffer, RcAssumption DEF RcTypeOK, CardReset
<1>2. CmdTypeOK' /\ AnnouncedIsThere' /\ Interrupts'
  BY DEF CmdTypeOK, AnnouncedIsThere, Interrupts, Answers, CardReset
<1>3. Tracks'
  BY EmptyBuffer DEF Tracks, CardReset
<1>4. QED
  BY <1>1, <1>2, <1>3 DEF ChainInv

\* Every step keeps the invariant, and gives out only what is its due.
LEMMA ChainStep ==
  ASSUME ChainInv, ChainNext
  PROVE  /\ ChainInv'
         /\ out' # << >> => /\ cmd \in Command /\ IsChaining(cmd)
                            /\ sw' = "9000" => received' = chain'
<1>1. CASE SendCommand
  BY <1>1, SendStep DEF SendCommand
<1>2. CASE SendData
  BY <1>2, DataStep DEF SendData
<1>3. CASE RunHandler
  <2>1. cmd \in Command
    BY <1>3 DEF RunHandler, ChainInv, CmdTypeOK
  <2>2. QED
    BY <1>3, <2>1, HandlerStep
<1>4. CASE CardReset
  BY <1>4, ResetStep
<1>5. QED
  BY <1>1, <1>2, <1>3, <1>4 DEF ChainNext

LEMMA ChainInvariant == ChainSpec => []ChainInv
<1>1. ChainInit => ChainInv
  BY FreshChain DEF ChainInit, RcInit
<1>2. ChainInv /\ [ChainNext]_chainVars => ChainInv'
  <2> SUFFICES ASSUME ChainInv, [ChainNext]_chainVars PROVE ChainInv'
    OBVIOUS
  <2>1. CASE ChainNext
    BY <2>1, ChainStep
  <2>2. CASE UNCHANGED chainVars
    BY <2>2 DEF chainVars, rcVars, cmdVars, histVars, ChainInv, RcTypeOK,
                CmdTypeOK, Tracks, AnnouncedIsThere, Interrupts, RcLenRem
  <2>3. QED
    BY <2>1, <2>2
<1>3. QED
  BY <1>1, <1>2, PTL DEF ChainSpec

-----------------------------------------------------------------------------
(***************************************************************************)
(* Whatever is fetched, refused or interrupted, what GET RESPONSE has      *)
(* handed out and what is left are what was enqueued (apduh_res_get).      *)
(***************************************************************************)
THEOREM AlwaysInOrder == ChainSpec => []ReceivedInOrder
<1>1. ChainInv => ReceivedInOrder
  <2> SUFFICES ASSUME ChainInv PROVE ReceivedInOrder
    OBVIOUS
  <2> DEFINE s == rc.b
             m == rc.offset
  <2>1. s \in Seq(Byte) /\ m \in Nat /\ m <= Len(s) /\ Len(s) \in Nat
    BY DEF ChainInv, RcTypeOK
  <2>2. SubSeq(s, 0 + 1, m) \o SubSeq(s, m + 1, Len(s))
          = SubSeq(s, 0 + 1, Len(s))
    <3>1. 0 \in Nat /\ 0 <= m /\ Len(s) <= Len(s)
      BY <2>1
    <3> HIDE DEF s, m
    <3>2. QED
      BY <2>1, <3>1, CutAndJoin
  <2>3. SubSeq(s, 0 + 1, Len(s)) = s /\ 0 + 1 = 1
    BY <2>1
  <2>4. QED
    BY <2>2, <2>3 DEF ReceivedInOrder, Pending, ChainInv, Tracks
<1>2. QED
  BY <1>1, ChainInvariant, PTL

(***************************************************************************)
(* The bytes that 61xx announces are in the buffer until they are fetched  *)
(* or another command comes (apduh_res_get, apduh_select).                 *)
(***************************************************************************)
THEOREM AlwaysThere == ChainSpec => []AnnouncedIsThere
<1>1. ChainInv => AnnouncedIsThere
  BY DEF ChainInv
<1>2. QED
  BY <1>1, ChainInvariant, PTL

(***************************************************************************)
(* 9000 with data comes only with the last bytes (apduh_res_get).          *)
(***************************************************************************)
THEOREM AlwaysMeansAll == ChainSpec => DoneMeansAll
<1>1. ChainInv /\ [ChainNext]_chainVars
        => [out' # << >> /\ sw' = "9000" => received' = chain]_chainVars
  <2> SUFFICES ASSUME ChainInv, ChainNext, out' # << >>, sw' = "9000"
               PROVE  received' = chain
    OBVIOUS
  <2>1. received' = chain' /\ IsChaining(cmd) /\ cmd \in Command
    BY ChainStep
  <2>2. chain' = chain
    <3>1. CASE RunHandler
      <4>1. GetResponse(rc) \/ Proprietary(rc)
        BY <2>1, <3>1 DEF RunHandler, IsChaining, ResetsChain
      <4>2. QED
        BY <4>1 DEF GetResponse, Proprietary, Leave, Respond
    <3>2. CASE ~RunHandler
      BY <3>2 DEF ChainNext, SendCommand, StartCommand, SendData,
                  ReceiveData, CardReset
    <3>3. QED
      BY <3>1, <3>2
  <2>3. QED
    BY <2>1, <2>2
<1>2. QED
  BY <1>1, ChainInvariant, PTL DEF ChainSpec, DoneMeansAll

(***************************************************************************)
(* Nothing of a response is given out after another interindustry command  *)
(* (swicc_apduh_demux resets the buffer before it runs a handler).  Of     *)
(* commands of other classes this says nothing: GET RESPONSE resumes after *)
(* them.                                                                   *)
(***************************************************************************)
THEOREM InterruptedNeverDoes == ChainSpec => InterruptedNeverResumes
<1>1. ChainInv /\ [ChainNext]_chainVars
        => [stale = "interindustry" => out' = << >>]_chainVars
  <2> SUFFICES ASSUME ChainInv, ChainNext, stale = "interindustry",
                      out' # << >>
               PROVE  FALSE
    OBVIOUS
  <2>1. IsChaining(cmd)
    BY ChainStep
  <2>2. ResetsChain(cmd)
    BY DEF ChainInv, Interrupts
  <2>3. QED
    BY <2>1, <2>2 DEF IsChaining, ResetsChain
<1>2. QED
  BY <1>1, ChainInvariant, PTL DEF ChainSpec, InterruptedNeverResumes
=============================================================================
