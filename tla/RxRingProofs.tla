---------------------------- MODULE RxRingProofs ----------------------------
(* Proofs about RxRing for any number of descriptors and buffers and any   *)
(* lengths of frames.                                                      *)
EXTENDS RxRing, FiniteSetTheorems, WellFoundedInduction, TLAPS

(* The descriptors as seen by the proofs: those with a buffer, those that  *)
(* are done, and what the fields of each hold.                             *)
NbufOf(m) == {d \in Descs : m[d].nbuf}
DoneOf(m) == {d \in Descs : m[d].done}
LinkOf(m) == [d \in Descs |-> m[d].link]
DataOf(m) == [d \in Descs |-> m[d].data]
LenOf(m)  == [d \in Descs |-> m[d].len]

TypeInv ==
    /\ sc \in [rxdesc : Seq(Descs), idle : Seq(Descs), held : DescOrNull,
               rxlink : DescOrNull, pool : Nat]
    /\ desc \in [Descs -> RxDescs]
    /\ ready \in Seq(Seq(Nbufs)) /\ up \in Seq(Seq(Nbufs))
    /\ loc \in [at : Places, ds : DescOrNull, head : DescOrNull, tail : DescOrNull,
                cnt : Nat, bf : Nat, frame : Seq(Nbufs), frags : Nat]
    /\ hw \in [rxdp : DescOrNull, rxe : BOOLEAN, isr : BOOLEAN, seg : SegsOrNone, frames : 0 .. MaxFrames]
    /\ on \in BOOLEAN /\ cut \in BOOLEAN /\ starts \in 0 .. MaxStarts /\ sent \in Nat

(* Every descriptor is once in one of the two lists.                       *)
Lists(q, idle) ==
    /\ \A i, j \in 1 .. Len(q) : q[i] = q[j] => i = j
    /\ \A i, j \in 1 .. Len(idle) : idle[i] = idle[j] => i = j
    /\ \A i \in 1 .. Len(q), j \in 1 .. Len(idle) : q[i] # idle[j]
    /\ \A d \in Descs : (\E i \in 1 .. Len(q) : d = q[i]) \/ (\E i \in 1 .. Len(idle) : d = idle[i])

(* Descriptors without a buffer have no length, and idle ones have no      *)
(* buffer.                                                                 *)
Bare(idle, B, N) ==
    /\ \A d \in Descs : d \notin B => N[d] = NoLen
    /\ \A i \in 1 .. Len(idle) : idle[i] \notin B

(* The first z descriptors of the list are linked, all but the last of the *)
(* list have a buffer, and the first w of these are done.                  *)
Ring(q, z, w, B, D, L) ==
    /\ z \in 1 .. Len(q) - 1 /\ w \in 0 .. z
    /\ \A i \in 1 .. z : L[q[i]] = IF i < z THEN q[i + 1] ELSE NoDesc
    /\ \A i \in 1 .. Len(q) - 1 : q[i] \in B /\ (q[i] \in D <=> i <= w)
    /\ q[Len(q)] \notin B

Follows(a, b) ==
    IF a[2] = a[3] THEN b[2] = 1 /\ b[1] > a[1] ELSE b = <<a[1], a[2] + 1, a[3]>>

(* They hold the segments of frames numbered from lo to hi, in order; k    *)
(* segments of the first frame have been taken.                            *)
Contents(q, w, A, k, lo, hi) ==
    /\ \A i \in 1 .. w : /\ A[q[i]] \in Segs /\ A[q[i]][2] <= A[q[i]][3]
                         /\ lo < A[q[i]][1] /\ A[q[i]][1] <= hi
    /\ \A i \in 1 .. w - 1 : Follows(A[q[i]], A[q[i + 1]])
    /\ \A i, j \in 1 .. w : i <= j => A[q[i]][1] <= A[q[j]][1]
    /\ w >= 1 => A[q[1]][2] = k + 1

(* A length, once set, is that of the segment.                             *)
Lengths(q, w, A, N, c) ==
    \A i \in 1 .. Len(q) - 1 :
        c \/ N[q[i]] = NoLen \/ (i <= w /\ N[q[i]] = <<A[q[i]]>>)

(* Where the MAC is.  When reception is off it does not move.              *)
MacOn(h, q, z, w, A, link) ==
    /\ z = Len(q) - 1 /\ link = q[z]
    /\ \E p \in 1 .. z : h.rxdp = q[p] /\ w \in {p - 1, p}
    /\ h.seg = IF w >= 1 /\ A[q[w]][2] # A[q[w]][3] THEN A[q[w]] ELSE NoSeg
    /\ h.seg # NoSeg => h.seg[1] = h.frames

MacStill(h, D, link) == h.seg = NoSeg /\ (h.rxe \/ link # NoDesc => h.rxdp \notin D)

MacOff(h, q, z, D, link) ==
    MacStill(h, D, link) /\ (link = NoDesc \/ (link = q[Len(q) - 1] /\ z < Len(q) - 1))

(* The first c descriptors hold the segments of one frame that come after  *)
(* the first k of all, and the MAC has left them.                          *)
Scanned(q, c, w, A, N, k, all, h, o, ct) ==
    /\ c <= w
    /\ \A i \in 1 .. c : A[q[i]] = <<A[q[1]][1], k + i, all>> /\ (ct \/ N[q[i]] = <<A[q[i]]>>)
    /\ o => \A i \in 1 .. c : h.rxdp # q[i]

ScanAt(l, q, z, w, A, N, h, o, ct) ==
    /\ l.head = q[1] /\ l.cnt < z /\ l.ds = q[l.cnt + 1] /\ l.frame = << >> /\ l.frags = 0
    /\ \E all \in 1 .. MaxSegs : l.cnt < all /\ Scanned(q, l.cnt, w, A, N, 0, all, h, o, ct)

TakeAt(l, q, z, w, A, N, h, o, ct) ==
    /\ l.head = q[1] /\ l.cnt = 0 /\ l.frags = 0
    /\ \E t \in 1 .. z - 1 :
         LET all == Len(l.frame) + t
         IN  /\ l.tail = q[t] /\ l.ds = q[t + 1] /\ all <= MaxSegs
             /\ Scanned(q, t, w, A, N, Len(l.frame), all, h, o, ct)
             /\ \A j \in 1 .. Len(l.frame) :
                    /\ l.frame[j].data = <<A[q[1]][1], j, all>>
                    /\ ct \/ l.frame[j].len = <<l.frame[j].data>>

At(l, s, rd, z, w, A, N, h, o, ct) ==
    /\ l.at \in {"poll", "scan", "take", "tasklet", "complete"}
    /\ l.at = "poll" => l = Polling
    /\ l.at = "scan" => ScanAt(l, s.rxdesc, z, w, A, N, h, o, ct)
    /\ l.at = "take" => TakeAt(l, s.rxdesc, z, w, A, N, h, o, ct)
    /\ l.at \in {"scan", "take", "tasklet"} => l.bf = Len(rd) + 1
    /\ l.at \in {"tasklet", "complete"} => l.frame = << >>
    /\ l.at = "tasklet" => l.frags = 0 /\ l.cnt <= MaxSegs
    /\ l.at = "complete" => l.ds = First(s.idle) /\ l.frags <= MaxSegs /\ l.cnt = 0 /\ l.bf = 1
    /\ l.at \in {"poll", "complete"} => rd = << >>

(* The last frame that is ready or has been sent.                          *)
LastOf(rd, st) == IF rd = << >> THEN st ELSE FrameId(rd[Len(rd)])

Running(z, w) ==
    LET B == NbufOf(desc)  D == DoneOf(desc)  L == LinkOf(desc)
        A == DataOf(desc)  N == LenOf(desc)   q == sc.rxdesc
    IN  /\ starts >= 1
        /\ Ring(q, z, w, B, D, L) /\ sc.held = q[Len(q)]
        /\ Contents(q, w, A, Len(loc.frame), LastOf(ready, sent), hw.frames)
        /\ Lengths(q, w, A, N, cut)
        /\ IF on THEN MacOn(hw, q, z, w, A, sc.rxlink) ELSE MacOff(hw, q, z, D, sc.rxlink)
        /\ At(loc, sc, ready, z, w, A, N, hw, on, cut)

(* ath_startrecv has handed in the first k descriptors.                    *)
BuildRing(q, k, B, D, L, N, ct) ==
    /\ k \in 0 .. Len(q) /\ Len(q) >= 2
    /\ \A i \in 1 .. k - 1 : /\ L[q[i]] = IF i < k - 1 THEN q[i + 1] ELSE NoDesc
                             /\ q[i] \in B /\ q[i] \notin D
    /\ q[Len(q)] \notin B
    /\ \A i \in 1 .. Len(q) : ct \/ N[q[i]] = NoLen

Building(k) ==
    LET q == sc.rxdesc
    IN  /\ loc.at = "start" /\ ~on /\ starts >= 1
        /\ BuildRing(q, k, NbufOf(desc), DoneOf(desc), LinkOf(desc), LenOf(desc), cut)
        /\ loc.ds = IF k < Len(q) THEN q[k + 1] ELSE NoDesc
        /\ sc.held = IF k = 0 THEN NoDesc ELSE q[k]
        /\ sc.rxlink = IF k <= 1 THEN NoDesc ELSE q[k - 1]
        /\ MacStill(hw, DoneOf(desc), sc.rxlink)
        /\ loc.frame = << >> /\ loc.frags = 0 /\ loc.cnt = 0 /\ loc.bf = 1 /\ ready = << >>
        /\ starts > 1 => \A i \in 1 .. Len(q) - 1 : q[i] \in NbufOf(desc)

(* Before the first start.                                                 *)
Fresh ==
    /\ starts = 0 /\ ~on /\ loc = Polling /\ ready = << >> /\ up = << >>
    /\ Len(sc.rxdesc) >= 2 /\ NbufOf(desc) = {} /\ hw.isr = FALSE /\ hw.rxe = FALSE /\ hw.seg = NoSeg

(* The frames on their way to the host.                                    *)
RightFrame(fr, ct) ==
    /\ Len(fr) \in 1 .. MaxSegs /\ FrameId(fr) \in 1 .. MaxFrames
    /\ \A j \in 1 .. Len(fr) : fr[j].data = <<FrameId(fr), j, Len(fr)>> /\ (ct \/ fr[j].len = <<fr[j].data>>)

Passing(u, rd, st, ct, n) ==
    /\ st <= n
    /\ \A i \in 1 .. Len(u) : RightFrame(u[i], ct) /\ FrameId(u[i]) <= st
    /\ \A i \in 1 .. Len(rd) : RightFrame(rd[i], ct) /\ FrameId(rd[i]) > st /\ FrameId(rd[i]) <= n
    /\ \A i \in 2 .. Len(u) : FrameId(u[i - 1]) < FrameId(u[i])
    /\ \A i \in 2 .. Len(rd) : FrameId(rd[i - 1]) < FrameId(rd[i])

(* Where the buffers are.  In the first start none has been lost.          *)
BuffersIn(rd, u, l) ==
    Len(FlattenSeq(rd)) + Len(FlattenSeq(u)) + l.frags
    + (IF l.at = "take" THEN Len(l.frame) ELSE 0)

Balanced(pool, idle, B, n, st, place) ==
    /\ pool + Cardinality(B) + n \in {NumDescs - 1, NumDescs}
    /\ st = 0 \/ (st = 1 /\ place = "start") => pool + Cardinality(B) = NumDescs /\ idle = << >>
    /\ idle = << >> \/ pool = 0

IInv ==
    /\ TypeInv
    /\ Lists(sc.rxdesc, sc.idle) /\ Bare(sc.idle, NbufOf(desc), LenOf(desc))
    /\ \/ Fresh
       \/ \E k \in Nat : Building(k)
       \/ \E z, w \in Nat : Running(z, w)
    /\ Passing(up, ready, sent, cut, hw.frames)
    /\ Balanced(sc.pool, sc.idle, NbufOf(desc), BuffersIn(ready, up, loc), starts, loc.at)
-----------------------------------------------------------------------------
(* Sequences.                                                              *)

(* A set of naturals has a least element.                                  *)
LEMMA LeastOf ==
    ASSUME NEW T \in SUBSET Nat, T # {}
    PROVE  \E x \in T : \A y \in T : x <= y
<1> DEFINE R == OpToRel(<, Nat)
<1>1. IsWellFoundedOn(R, Nat)
  BY NatLessThanWellFounded
<1> HIDE DEF R
<1>2. T \subseteq Nat
  OBVIOUS
<1>3. PICK x \in T : \A y \in T : ~(<<y, x>> \in R)
  BY <1>1, <1>2, WFMin
<1>4. ASSUME NEW y \in T
      PROVE  x <= y
  <2>1. ~(<<y, x>> \in R)
    BY <1>3
  <2>2. ~(y < x)
    BY <2>1 DEF R, OpToRel
  <2> QED BY <2>2
<1> QED BY <1>3, <1>4

(* Induction over the naturals, for a set.                                 *)
LEMMA SetInduction ==
    ASSUME NEW M, 0 \in M, \A n \in Nat : n \in M => n + 1 \in M
    PROVE  \A n \in Nat : n \in M
<1> DEFINE T == {n \in Nat : n \notin M}
<1> SUFFICES ASSUME T # {} PROVE FALSE
  OBVIOUS
<1>1. PICK x \in T : \A y \in T : x <= y
  BY LeastOf
<1>2. x # 0 /\ x \in Nat /\ x \notin M
  OBVIOUS
<1>3. x - 1 \in Nat /\ x - 1 \notin T
  BY <1>1, <1>2
<1>4. x - 1 \in M
  BY <1>3
<1> QED BY <1>2, <1>3, <1>4

(* Head and tail of a sequence.                                            *)
LEMMA TailIs ==
    ASSUME NEW S, NEW s \in Seq(S), Len(s) >= 1
    PROVE  /\ Head(s) = s[1] /\ s[1] \in S
           /\ Tail(s) \in Seq(S) /\ Len(Tail(s)) = Len(s) - 1
           /\ \A i \in 1 .. Len(s) - 1 : Tail(s)[i] = s[i + 1]
OBVIOUS

(* Appending an element.                                                   *)
LEMMA AppendIs ==
    ASSUME NEW S, NEW s \in Seq(S), NEW x \in S
    PROVE  /\ Append(s, x) \in Seq(S) /\ Len(Append(s, x)) = Len(s) + 1
           /\ \A i \in 1 .. Len(s) : Append(s, x)[i] = s[i]
           /\ Append(s, x)[Len(s) + 1] = x
OBVIOUS

(* Taking the first descriptor out of a list leaves its tail.              *)
LEMMA WithoutFirst ==
    ASSUME NEW q \in Seq(Descs), Len(q) >= 1, \A i, j \in 1 .. Len(q) : q[i] = q[j] => i = j
    PROVE  Without(q, q[1]) = Tail(q)
<1> DEFINE d == q[1]
           I == {i \in 1 .. Len(q) : q[i] = d}
<1>1. I = {1} /\ I # {}
  OBVIOUS
<1>2. Without(q, d) = RemoveAt(q, SelectInSeq(q, LAMBDA v : v = d))
  BY DEF Without, RemoveFirst
<1>3. SelectInSeq(q, LAMBDA v : v = d) = Min(I)
  BY <1>1 DEF SelectInSeq
<1>4. Min(I) = 1
  BY <1>1 DEF Min
<1>5. RemoveAt(q, 1) = SubSeq(q, 1, 0) \o SubSeq(q, 2, Len(q))
  BY DEF RemoveAt
<1>6. SubSeq(q, 2, Len(q)) = Tail(q)
  OBVIOUS
<1>7. SubSeq(q, 1, 0) \o Tail(q) = Tail(q)
  OBVIOUS
<1> QED BY <1>2, <1>3, <1>4, <1>5, <1>6, <1>7

(* The descriptor after the one at place k.                                *)
LEMMA NextInAt ==
    ASSUME NEW q \in Seq(Descs), \A i, j \in 1 .. Len(q) : q[i] = q[j] => i = j,
           NEW k \in 1 .. Len(q)
    PROVE  NextIn(q, q[k]) = IF k < Len(q) THEN q[k + 1] ELSE NoDesc
<1> DEFINE after == {i \in 2 .. Len(q) : q[i - 1] = q[k]}
<1>1. \A i \in after : i = k + 1
  OBVIOUS
<1>2. CASE k < Len(q)
  <2>1. k + 1 \in after
    BY <1>2
  <2>2. after = {k + 1}
    BY <1>1, <2>1
  <2>3. (CHOOSE i \in after : TRUE) = k + 1
    BY <2>2
  <2> QED BY <1>2, <2>2, <2>3 DEF NextIn
<1>3. CASE ~(k < Len(q))
  <2>1. after = {}
    BY <1>1, <1>3
  <2> QED BY <1>3, <2>1 DEF NextIn
<1> QED BY <1>2, <1>3

(* The first of a list.                                                    *)
LEMMA FirstIs ==
    ASSUME NEW q \in Seq(Descs)
    PROVE  First(q) = IF Len(q) >= 1 THEN q[1] ELSE NoDesc
BY DEF First
-----------------------------------------------------------------------------
(* How many buffers a list of frames has.                                  *)

(* The buffers of the first i frames of s are c[i].                        *)
Counts(s, c) ==
    /\ c \in [0 .. Len(s) -> Nat] /\ c[0] = 0
    /\ \A i \in 1 .. Len(s) : c[i] = c[i - 1] + Len(s[i])

Flat(f, s) == [i \in 1 .. Len(s) |-> IF i = 1 THEN s[i] ELSE f[i - 1] \o s[i]]

(* The recursion of FlattenSeq.                                            *)
LEMMA FlattenIs ==
    ASSUME NEW s, Len(s) # 0
    PROVE  FlattenSeq(s) = (CHOOSE f : f = Flat(f, s))[Len(s)]
BY DEF FlattenSeq, Flat

(* It has a solution.                                                      *)
LEMMA FlatExists ==
    ASSUME NEW S, NEW s \in Seq(Seq(S))
    PROVE  \E f : f = Flat(f, s)
<1> DEFINE n == Len(s)
           Sol(k, f) == \A i \in 1 .. k : f[i] = IF i = 1 THEN s[i] ELSE f[i - 1] \o s[i]
           M == {k \in Nat : k <= n => \E f \in [1 .. k -> Seq(S)] : Sol(k, f)}
<1>1. n \in Nat /\ \A i \in 1 .. n : s[i] \in Seq(S)
  OBVIOUS
<1> HIDE DEF n
<1>2. 0 \in M
  <2>1. [i \in 1 .. 0 |-> s] \in [1 .. 0 -> Seq(S)] /\ Sol(0, [i \in 1 .. 0 |-> s])
    OBVIOUS
  <2> QED BY <2>1
<1>3. ASSUME NEW k \in Nat, k \in M, k + 1 <= n
      PROVE  \E f \in [1 .. k + 1 -> Seq(S)] : Sol(k + 1, f)
  <2>1. PICK f \in [1 .. k -> Seq(S)] : Sol(k, f)
    BY <1>1, <1>3
  <2> DEFINE x == IF k = 0 THEN s[1] ELSE f[k] \o s[k + 1]
             g == [i \in 1 .. k + 1 |-> IF i <= k THEN f[i] ELSE x]
  <2>2. x \in Seq(S)
    BY <1>1, <1>3, <2>1
  <2>3. g \in [1 .. k + 1 -> Seq(S)]
    BY <2>1, <2>2
  <2>4. ASSUME NEW i \in 1 .. k + 1
        PROVE  g[i] = IF i = 1 THEN s[i] ELSE g[i - 1] \o s[i]
    <3>1. CASE i <= k
      <4>1. g[i] = f[i] /\ (i # 1 => g[i - 1] = f[i - 1])
        BY <3>1
      <4>2. f[i] = IF i = 1 THEN s[i] ELSE f[i - 1] \o s[i]
        <5>1. i \in 1 .. k
          BY <3>1
        <5> HIDE DEF g, x
        <5> QED BY <2>1, <5>1, Zenon
      <4> QED BY <4>1, <4>2
    <3>2. CASE i = k + 1 /\ k = 0
      BY <3>2
    <3>3. CASE i = k + 1 /\ k # 0
      <4>0. x = f[k] \o s[i]
        BY <3>3
      <4> HIDE DEF x
      <4>1. ~(i <= k) /\ i - 1 = k /\ i - 1 \in 1 .. k + 1 /\ i - 1 <= k /\ i # 1
        BY <3>3
      <4>2. g[i] = x /\ g[i - 1] = f[i - 1]
        BY <4>1
      <4> HIDE DEF g
      <4>3. g[i] = g[i - 1] \o s[i]
        BY <4>0, <4>1, <4>2
      <4> QED BY <4>1, <4>3
    <3> QED BY <3>1, <3>2, <3>3
  <2> QED BY <2>3, <2>4
<1>4. \A k \in Nat : k \in M => k + 1 \in M
  BY <1>3, <1>1
<1>5. n \in M
  <2> HIDE DEF M
  <2> QED BY <1>1, <1>2, <1>4, SetInduction
<1>6. PICK f \in [1 .. n -> Seq(S)] : Sol(n, f)
  BY <1>5, <1>1
<1>7. f = Flat(f, s)
  BY <1>6 DEF Flat, n
<1> QED BY <1>7

(* Its solution counts the buffers.                                        *)
LEMMA FlatCounts ==
    ASSUME NEW S, NEW s \in Seq(Seq(S))
    PROVE  \E c : Counts(s, c) /\ Len(FlattenSeq(s)) = c[Len(s)]
<1> DEFINE n == Len(s)
           F == CHOOSE f : f = Flat(f, s)
           c == [i \in 0 .. n |-> IF i = 0 THEN 0 ELSE Len(F[i])]
<1>1. n \in Nat /\ \A i \in 1 .. n : s[i] \in Seq(S) /\ Len(s[i]) \in Nat
  OBVIOUS
<1>2. F = Flat(F, s)
  BY FlatExists
<1> HIDE DEF F
<1>3. \A i \in 1 .. n : F[i] = IF i = 1 THEN s[i] ELSE F[i - 1] \o s[i]
  BY <1>2 DEF Flat
<1>4. n # 0 => FlattenSeq(s) = F[n]
  BY FlattenIs DEF F
<1>5. n = 0 => Len(FlattenSeq(s)) = 0
  BY DEF FlattenSeq
<1> HIDE DEF n
<1> DEFINE M == {k \in Nat : k \in 1 .. n => F[k] \in Seq(S)}
<1>6. \A i \in 1 .. n : F[i] \in Seq(S)
  <2>1. 0 \in M
    OBVIOUS
  <2>2. ASSUME NEW k \in Nat, k \in M, k + 1 \in 1 .. n
        PROVE  F[k + 1] \in Seq(S)
    <3>1. CASE k = 0
      BY <1>1, <1>3, <2>2, <3>1
    <3>2. CASE k # 0
      <4>1. F[k] \in Seq(S) /\ F[k + 1] = F[k] \o s[k + 1] /\ s[k + 1] \in Seq(S)
        <5>1. k + 1 \in 1 .. n /\ k \in 1 .. n /\ (k + 1) - 1 = k /\ k + 1 # 1
          BY <1>1, <2>2, <3>2
        <5>2. F[k] \in Seq(S) /\ s[k + 1] \in Seq(S)
          BY <5>1, <1>1, <2>2
        <5>3. F[k + 1] = F[(k + 1) - 1] \o s[k + 1]
          BY <5>1, <1>3, Zenon
        <5> QED BY <5>1, <5>2, <5>3
      <4> QED BY <4>1
    <3> QED BY <3>1, <3>2
  <2>3. \A k \in Nat : k \in M => k + 1 \in M
    BY <2>2
  <2>4. \A k \in Nat : k \in M
    <3> HIDE DEF M
    <3> QED BY <2>1, <2>3, SetInduction
  <2> QED BY <2>4
<1>7. c \in [0 .. n -> Nat] /\ c[0] = 0
  BY <1>6, <1>1
<1>8. ASSUME NEW i \in 1 .. n
      PROVE  c[i] = c[i - 1] + Len(s[i])
  <2>1. CASE i = 1
    <3>1. c[i] = Len(s[i]) /\ c[i - 1] = 0
      BY <1>1, <1>3, <2>1
    <3> QED BY <3>1, <1>1
  <2>2. CASE i # 1
    <3>1. F[i] = F[i - 1] \o s[i] /\ F[i - 1] \in Seq(S) /\ s[i] \in Seq(S)
      <4>1. F[i] = F[i - 1] \o s[i]
        BY <1>3, <2>2, Zenon
      <4>2. F[i - 1] \in Seq(S) /\ s[i] \in Seq(S)
        BY <1>1, <1>6, <2>2
      <4> QED BY <4>1, <4>2
    <3>2. Len(F[i]) = Len(F[i - 1]) + Len(s[i])
      BY <3>1
    <3>3. c[i] = Len(F[i]) /\ c[i - 1] = Len(F[i - 1])
      BY <1>1, <2>2
    <3> QED BY <3>2, <3>3
  <2> QED BY <2>1, <2>2
<1>9. Counts(s, c)
  BY <1>7, <1>8 DEF Counts, n
<1>10. Len(FlattenSeq(s)) = c[n]
  BY <1>1, <1>4, <1>5
<1> HIDE DEF c
<1> QED BY <1>9, <1>10 DEF n

(* There is one count.                                                     *)
LEMMA CountOnce ==
    ASSUME NEW S, NEW s \in Seq(Seq(S)), NEW c, NEW e, Counts(s, c), Counts(s, e)
    PROVE  c[Len(s)] = e[Len(s)] /\ c[Len(s)] \in Nat
<1> DEFINE n == Len(s)
           M == {k \in Nat : k <= n => c[k] = e[k]}
<1>1. n \in Nat
  OBVIOUS
<1> HIDE DEF n
<1>2. 0 \in M
  BY DEF Counts
<1>3. ASSUME NEW k \in Nat, k \in M, k + 1 <= n
      PROVE  c[k + 1] = e[k + 1]
  <2>1. c[k + 1] = c[(k + 1) - 1] + Len(s[k + 1]) /\ e[k + 1] = e[(k + 1) - 1] + Len(s[k + 1])
    BY <1>1, <1>3 DEF Counts, n
  <2>2. c[k] = e[k] /\ (k + 1) - 1 = k
    BY <1>1, <1>3
  <2> QED BY <2>1, <2>2
<1>4. \A k \in Nat : k \in M => k + 1 \in M
  BY <1>1, <1>3
<1>5. n \in M
  <2> HIDE DEF M
  <2> QED BY <1>1, <1>2, <1>4, SetInduction
<1> QED BY <1>1, <1>5 DEF Counts, n

(* So whatever counts the buffers of a list is the length of its frames    *)
(* put together.                                                           *)
LEMMA FlatLen ==
    ASSUME NEW S, NEW s \in Seq(Seq(S)), NEW c, Counts(s, c)
    PROVE  Len(FlattenSeq(s)) = c[Len(s)] /\ Len(FlattenSeq(s)) \in Nat
BY FlatCounts, CountOnce

(* No frames have no buffers.                                              *)
LEMMA FlatEmpty == Len(FlattenSeq(<< >>)) = 0
BY DEF FlattenSeq

(* A frame at the end.                                                     *)
LEMMA FlatAppend ==
    ASSUME NEW S, NEW s \in Seq(Seq(S)), NEW x \in Seq(S)
    PROVE  Len(FlattenSeq(Append(s, x))) = Len(FlattenSeq(s)) + Len(x)
<1> DEFINE n == Len(s)
           t == Append(s, x)
<1>1. n \in Nat /\ Len(x) \in Nat
  OBVIOUS
<1>2. t \in Seq(Seq(S)) /\ Len(t) = n + 1 /\ t[n + 1] = x /\ \A i \in 1 .. n : t[i] = s[i]
  OBVIOUS
<1>3. PICK c : Counts(s, c) /\ Len(FlattenSeq(s)) = c[n]
  BY FlatCounts
<1>4. /\ c \in [0 .. n -> Nat] /\ c[0] = 0
      /\ \A i \in 1 .. n : c[i] = c[i - 1] + Len(s[i])
  BY <1>3 DEF Counts
<1> HIDE DEF n, t
<1> DEFINE e == [i \in 0 .. n + 1 |-> IF i <= n THEN c[i] ELSE c[n] + Len(x)]
<1>5. e \in [0 .. n + 1 -> Nat] /\ e[0] = 0 /\ e[n + 1] = c[n] + Len(x)
  BY <1>1, <1>4
<1>6. ASSUME NEW i \in 1 .. n + 1
      PROVE  e[i] = e[i - 1] + Len(t[i])
  <2>1. CASE i <= n
    <3>1. i \in 1 .. n
      BY <2>1, <1>1
    <3>2. t[i] = s[i] /\ c[i] = c[i - 1] + Len(s[i])
      BY <3>1, <1>2, <1>4
    <3> QED BY <2>1, <3>2, <1>1
  <2>2. CASE i = n + 1
    BY <2>2, <1>1, <1>2
  <2> QED BY <2>1, <2>2, <1>1
<1>7. Counts(t, e)
  BY <1>2, <1>5, <1>6 DEF Counts
<1> HIDE DEF e
<1>8. Len(FlattenSeq(t)) = e[n + 1]
  BY <1>2, <1>7, FlatLen
<1> QED BY <1>3, <1>5, <1>8 DEF t

(* The first frame.                                                        *)
LEMMA FlatTail ==
    ASSUME NEW S, NEW s \in Seq(Seq(S)), s # << >>
    PROVE  Len(FlattenSeq(s)) = Len(Head(s)) + Len(FlattenSeq(Tail(s)))
<1> DEFINE n == Len(s)
           t == Tail(s)
<1>1. n \in Nat /\ n >= 1 /\ s[1] \in Seq(S) /\ Len(s[1]) \in Nat /\ Head(s) = s[1]
  OBVIOUS
<1>2. t \in Seq(Seq(S)) /\ Len(t) = n - 1 /\ \A i \in 1 .. n - 1 : t[i] = s[i + 1]
  OBVIOUS
<1>3. PICK c : Counts(t, c) /\ Len(FlattenSeq(t)) = c[Len(t)]
  BY <1>2, FlatCounts
<1>4. /\ c \in [0 .. n - 1 -> Nat] /\ c[0] = 0
      /\ \A i \in 1 .. n - 1 : c[i] = c[i - 1] + Len(t[i])
  BY <1>2, <1>3 DEF Counts
<1> DEFINE e == [i \in 0 .. n |-> IF i = 0 THEN 0 ELSE Len(s[1]) + c[i - 1]]
<1>7. Counts(s, e)
  <2> HIDE DEF t, n
  <2>1. e \in [0 .. n -> Nat] /\ e[0] = 0
    BY <1>1, <1>4
  <2>2. ASSUME NEW i \in 1 .. n
        PROVE  e[i] = e[i - 1] + Len(s[i])
    <3>1. CASE i = 1
      BY <3>1, <1>1, <1>4
    <3>2. CASE i # 1
      <4> DEFINE j == i - 1
      <4>1. j \in 1 .. n - 1 /\ i = j + 1
        BY <3>2, <1>1
      <4> HIDE DEF j
      <4>2. e[i] = Len(s[1]) + c[j] /\ e[j] = Len(s[1]) + c[j - 1]
        BY <4>1, <1>1
      <4>3. c[j] = c[j - 1] + Len(s[j + 1]) /\ c[j] \in Nat /\ c[j - 1] \in Nat
        <5>1. c[j] = c[j - 1] + Len(t[j]) /\ c[j] \in Nat /\ c[j - 1] \in Nat
          BY <4>1, <1>1, <1>4
        <5>2. t[j] = s[j + 1]
          BY <4>1, <1>2
        <5> QED BY <5>1, <5>2
      <4>4. i - 1 = j
        BY <4>1
      <4>5. Len(s[i]) = Len(s[j + 1])
        BY <4>1
      <4> HIDE DEF e
      <4> DEFINE a == Len(s[1])  b == Len(s[i])
      <4>6. a \in Nat /\ c[j] = c[j - 1] + b /\ e[i] = a + c[j] /\ e[i - 1] = a + c[j - 1]
        BY <4>2, <4>3, <4>4, <4>5, <1>1
      <4>7. b \in Nat
        BY <1>1, <4>1 DEF n
      <4> HIDE DEF a, b
      <4>8. e[i] = e[i - 1] + b
        BY <4>3, <4>6, <4>7
      <4> QED BY <4>8 DEF b
    <3> QED BY <3>1, <3>2
  <2> HIDE DEF e
  <2> QED BY <2>1, <2>2 DEF Counts, n
<1>8. Len(FlattenSeq(s)) = e[n]
  <2> HIDE DEF e
  <2> QED BY <1>7, FlatLen
<1>9. e[n] = Len(s[1]) + c[n - 1]
  BY <1>1
<1> QED BY <1>1, <1>2, <1>3, <1>8, <1>9

(* Two lists of frames.                                                    *)
LEMMA FlatConcat ==
    ASSUME NEW S, NEW s \in Seq(Seq(S)), NEW r \in Seq(Seq(S))
    PROVE  Len(FlattenSeq(s \o r)) = Len(FlattenSeq(s)) + Len(FlattenSeq(r))
<1> DEFINE n == Len(s)
           k == Len(r)
           t == s \o r
<1>1. n \in Nat /\ k \in Nat
  OBVIOUS
<1>2. /\ t \in Seq(Seq(S)) /\ Len(t) = n + k
      /\ \A i \in 1 .. n : t[i] = s[i]
      /\ \A i \in 1 .. n + k : i > n => t[i] = r[i - n]
  OBVIOUS
<1>3. PICK c : Counts(s, c) /\ Len(FlattenSeq(s)) = c[n]
  BY FlatCounts
<1>4. PICK d : Counts(r, d) /\ Len(FlattenSeq(r)) = d[k]
  BY FlatCounts
<1>5. /\ c \in [0 .. n -> Nat] /\ c[0] = 0
      /\ \A i \in 1 .. n : c[i] = c[i - 1] + Len(s[i])
  BY <1>3 DEF Counts
<1>6. /\ d \in [0 .. k -> Nat] /\ d[0] = 0
      /\ \A i \in 1 .. k : d[i] = d[i - 1] + Len(r[i])
  BY <1>4 DEF Counts
<1>7. \A i \in 1 .. k : Len(r[i]) \in Nat
  OBVIOUS
<1> HIDE DEF n, k, t
<1> DEFINE e == [i \in 0 .. n + k |-> IF i <= n THEN c[i] ELSE c[n] + d[i - n]]
<1>8. e \in [0 .. n + k -> Nat] /\ e[0] = 0 /\ e[n + k] = c[n] + d[k]
  BY <1>1, <1>5, <1>6
<1>9. ASSUME NEW i \in 1 .. n + k
      PROVE  e[i] = e[i - 1] + Len(t[i])
  <2>1. CASE i <= n
    BY <2>1, <1>1, <1>2, <1>5
  <2>2. CASE i > n
    <3> DEFINE j == i - n
    <3>1. j \in 1 .. k /\ i = j + n
      BY <2>2, <1>1
    <3>2. t[i] = r[j]
      BY <2>2, <1>2
    <3>3. e[i] = c[n] + d[j] /\ e[i - 1] = c[n] + d[j - 1]
      <4>1. i \in 0 .. n + k /\ i - 1 \in 0 .. n + k /\ ~(i <= n)
        BY <2>2, <1>1
      <4>2. e[i] = c[n] + d[j]
        BY <4>1
      <4>3. CASE i - 1 <= n
        <5>1. i - 1 = n /\ j - 1 = 0
          BY <4>3, <2>2, <1>1
        <5>2. e[i - 1] = c[n] /\ c[n] \in Nat
          BY <4>1, <4>3, <5>1, <1>1, <1>5
        <5> QED BY <4>2, <5>1, <5>2, <1>6
      <4>4. CASE ~(i - 1 <= n)
        <5>1. (i - 1) - n = j - 1
          BY <1>1
        <5>2. e[i - 1] = c[n] + d[(i - 1) - n]
          BY <4>1, <4>4
        <5> QED BY <4>2, <5>1, <5>2
      <4> QED BY <4>3, <4>4
    <3>4. d[j] = d[j - 1] + Len(r[j]) /\ d[j - 1] \in Nat /\ c[n] \in Nat /\ Len(r[j]) \in Nat
      BY <3>1, <1>1, <1>5, <1>6, <1>7
    <3> HIDE DEF e, j
    <3> DEFINE b == Len(r[j])
    <3>5. d[j] = d[j - 1] + b /\ b \in Nat
      BY <3>4
    <3>6. Len(t[i]) = b
      BY <3>2
    <3> HIDE DEF b
    <3> QED BY <3>3, <3>4, <3>5, <3>6
  <2> QED BY <2>1, <2>2, <1>1
<1>10. Counts(t, e)
  BY <1>2, <1>8, <1>9 DEF Counts
<1> HIDE DEF e
<1>11. Len(FlattenSeq(t)) = e[n + k]
  BY <1>2, <1>10, FlatLen
<1> QED BY <1>3, <1>4, <1>8, <1>11 DEF t
-----------------------------------------------------------------------------
(* What the operations do to the descriptors.                              *)

(* No segment and no descriptor stand for none.                            *)
LEMMA NoneApart ==
    /\ NoDesc \notin Descs /\ NoDesc \in DescOrNull /\ NoSeg \in SegsOrNone /\ NoLen \in Lens
    /\ \A g \in Segs : g # NoSeg /\ g \in SegsOrNone /\ <<g>> \in Lens
<1>1. NoDesc \notin Descs
  BY RxAssumption DEF NoDesc, Descs
<1>2. ASSUME NEW g \in Segs
      PROVE  g # NoSeg
  <2>1. PICK f \in 1 .. MaxFrames, i \in 1 .. MaxSegs, n \in 1 .. MaxSegs : g = <<f, i, n>>
    BY DEF Segs
  <2>2. Len(<<f, i, n>>) = 3 /\ Len(<< >>) = 0
    OBVIOUS
  <2>3. <<f, i, n>> # << >>
    BY <2>2
  <2> QED BY <2>1, <2>3 DEF NoSeg
<1> QED BY <1>1, <1>2 DEF DescOrNull, SegsOrNone, Lens

(* The parts of a segment.                                                 *)
LEMMA SegParts ==
    /\ \A g \in Segs : /\ g[1] \in 1 .. MaxFrames /\ g[2] \in 1 .. MaxSegs /\ g[3] \in 1 .. MaxSegs
                       /\ g = <<g[1], g[2], g[3]>>
    /\ \A f \in 1 .. MaxFrames, i \in 1 .. MaxSegs, n \in 1 .. MaxSegs : <<f, i, n>> \in Segs
BY DEF Segs

(* The fields of a descriptor have their types.                            *)
LEMMA DescFields ==
    ASSUME NEW m \in [Descs -> RxDescs], NEW d \in Descs
    PROVE  /\ m[d].link \in DescOrNull /\ m[d].data \in SegsOrNone /\ m[d].len \in Lens
           /\ m[d].nbuf \in BOOLEAN /\ m[d].done \in BOOLEAN
<1>1. m[d] \in RxDescs
  OBVIOUS
<1> QED BY <1>1 DEF RxDescs

(* The views of the descriptors have their types and agree with the        *)
(* fields.                                                                 *)
LEMMA ViewTypes ==
    ASSUME NEW m \in [Descs -> RxDescs]
    PROVE  /\ NbufOf(m) \subseteq Descs /\ DoneOf(m) \subseteq Descs
           /\ \A d \in Descs : /\ LinkOf(m)[d] = m[d].link /\ DataOf(m)[d] = m[d].data
                               /\ LenOf(m)[d] = m[d].len
                               /\ LinkOf(m)[d] \in DescOrNull /\ DataOf(m)[d] \in SegsOrNone
                               /\ LenOf(m)[d] \in Lens
BY DescFields DEF NbufOf, DoneOf, LinkOf, DataOf, LenOf

(* ath_rxdesc_init sets up h and links it behind k.                        *)
InitViews(m, r, h, k) ==
    /\ r \in [Descs -> RxDescs]
    /\ \A e : e \in NbufOf(r) <=> e \in NbufOf(m) \/ e = h
    /\ \A e : e \in DoneOf(r) <=> e \in DoneOf(m) /\ e # h
    /\ \A e \in Descs :
         /\ LinkOf(r)[e] = IF e = h THEN NoDesc ELSE IF e = k THEN h ELSE LinkOf(m)[e]
         /\ DataOf(r)[e] = IF e = h THEN NoSeg ELSE DataOf(m)[e]
         /\ LenOf(r)[e] = IF e = h /\ h \notin NbufOf(m) THEN NoLen ELSE LenOf(m)[e]

(* ath_rxdesc_init leaves the descriptors so.                              *)
LEMMA InitDescViews ==
    ASSUME NEW s, s.held \in Descs, NEW m \in [Descs -> RxDescs]
    PROVE  InitViews(m, InitDesc(s, m), s.held, s.rxlink)
<1> DEFINE h == s.held
           r == InitDesc(s, m)
<1>1. h # NoDesc /\ h \in Descs
  BY NoneApart
<1>2. r = [e \in Descs |-> IF e = h THEN SetUp(m[e])
                           ELSE IF e = s.rxlink THEN [m[e] EXCEPT !.link = h] ELSE m[e]]
  BY <1>1 DEF InitDesc
<1> HIDE DEF r
<1>3. /\ r[h].link = NoDesc /\ r[h].nbuf = TRUE /\ r[h].done = FALSE /\ r[h].data = NoSeg
      /\ r[h].len = IF m[h].nbuf THEN m[h].len ELSE NoLen
      /\ r[h] \in RxDescs
  <2>1. r[h] = SetUp(m[h])
    BY <1>1, <1>2
  <2>2. (IF m[h].nbuf THEN m[h].len ELSE NoLen) \in Lens
    BY <1>1, DescFields, NoneApart
  <2> QED BY <2>1, <2>2, NoneApart DEF SetUp, RxDescs
<1>4. ASSUME NEW e \in Descs, e # h
      PROVE  /\ r[e].link = IF e = s.rxlink THEN h ELSE m[e].link
             /\ r[e].nbuf = m[e].nbuf /\ r[e].done = m[e].done
             /\ r[e].data = m[e].data /\ r[e].len = m[e].len /\ r[e] \in RxDescs
  <2>1. m[e] \in RxDescs
    OBVIOUS
  <2>2. CASE e = s.rxlink
    <3>1. r[e] = [m[e] EXCEPT !.link = h]
      BY <1>2, <1>4, <2>2
    <3>2. h \in DescOrNull
      BY DEF DescOrNull
    <3> QED BY <3>1, <3>2, <2>1, <2>2 DEF RxDescs
  <2>3. CASE e # s.rxlink
    <3>1. r[e] = m[e]
      BY <1>2, <1>4, <2>3
    <3> QED BY <3>1, <2>1, <2>3
  <2> QED BY <2>2, <2>3
<1>5. r \in [Descs -> RxDescs]
  BY <1>2, <1>3, <1>4
<1>6. ASSUME NEW e
      PROVE  /\ e \in NbufOf(r) <=> e \in NbufOf(m) \/ e = h
             /\ e \in DoneOf(r) <=> e \in DoneOf(m) /\ e # h
  <2>1. CASE e \in Descs /\ e # h
    BY <1>4, <2>1, Zenon DEF NbufOf, DoneOf
  <2>2. CASE e \notin Descs
    BY <1>1, <2>2 DEF NbufOf, DoneOf
  <2>3. CASE e = h
    BY <1>3, <2>3, <1>1, Zenon DEF NbufOf, DoneOf
  <2> QED BY <2>1, <2>2, <2>3
<1>7. ASSUME NEW e \in Descs
      PROVE  /\ LinkOf(r)[e] = IF e = h THEN NoDesc ELSE IF e = s.rxlink THEN h ELSE LinkOf(m)[e]
             /\ DataOf(r)[e] = IF e = h THEN NoSeg ELSE DataOf(m)[e]
             /\ LenOf(r)[e] = IF e = h /\ h \notin NbufOf(m) THEN NoLen ELSE LenOf(m)[e]
  <2>0. /\ LinkOf(r)[e] = r[e].link /\ DataOf(r)[e] = r[e].data /\ LenOf(r)[e] = r[e].len
        /\ LinkOf(m)[e] = m[e].link /\ DataOf(m)[e] = m[e].data /\ LenOf(m)[e] = m[e].len
    BY <1>5, ViewTypes
  <2>1. CASE e # h
    BY <1>4, <2>1, <2>0
  <2>2. CASE e = h
    <3>1. h \in NbufOf(m) <=> m[h].nbuf
      BY <1>1 DEF NbufOf
    <3> QED BY <1>3, <2>2, <2>0, <3>1
  <2> QED BY <2>1, <2>2
<1> HIDE DEF h
<1>8. InitViews(m, r, h, s.rxlink)
  BY <1>5, <1>6, <1>7, Zenon DEF InitViews
<1> QED BY <1>8 DEF h, r

(* Nothing happens when there is no held descriptor.                       *)
LEMMA InitDescNone ==
    ASSUME NEW s, s.held = NoDesc, NEW m \in [Descs -> RxDescs]
    PROVE  InitDesc(s, m) = m
BY NoneApart DEF InitDesc

(* The buffer of d is taken away.                                          *)
StripViews(m, r, d) ==
    /\ r \in [Descs -> RxDescs]
    /\ \A e : e \in NbufOf(r) <=> e \in NbufOf(m) /\ e # d
    /\ \A e : e \in DoneOf(r) <=> e \in DoneOf(m)
    /\ \A e \in Descs :
         /\ LinkOf(r)[e] = LinkOf(m)[e]
         /\ e # d => DataOf(r)[e] = DataOf(m)[e] /\ LenOf(r)[e] = LenOf(m)[e]
    /\ LenOf(r)[d] = NoLen

(* Taking the buffer out of a descriptor leaves them so.                   *)
LEMMA Stripped ==
    ASSUME NEW m \in [Descs -> RxDescs], NEW d \in Descs,
           NEW r, r = [m EXCEPT ![d] = [@ EXCEPT !.nbuf = FALSE, !.data = NoSeg, !.len = NoLen]]
    PROVE  StripViews(m, r, d)
<1>1. m[d] \in RxDescs
  OBVIOUS
<1>2. r[d] = [m[d] EXCEPT !.nbuf = FALSE, !.data = NoSeg, !.len = NoLen]
  OBVIOUS
<1>3. /\ r[d].nbuf = FALSE /\ r[d].done = m[d].done /\ r[d].link = m[d].link
      /\ r[d].len = NoLen /\ r[d] \in RxDescs
  BY <1>1, <1>2, NoneApart DEF RxDescs
<1>4. \A e \in Descs : e # d => r[e] = m[e]
  OBVIOUS
<1>5. r \in [Descs -> RxDescs]
  BY <1>3
<1>6. ASSUME NEW e
      PROVE  /\ e \in NbufOf(r) <=> e \in NbufOf(m) /\ e # d
             /\ e \in DoneOf(r) <=> e \in DoneOf(m)
  <2>1. CASE e \in Descs /\ e # d
    BY <1>4, <2>1, Zenon DEF NbufOf, DoneOf
  <2>2. CASE e \notin Descs
    BY <2>2 DEF NbufOf, DoneOf
  <2>3. CASE e = d
    BY <1>3, <2>3, Zenon DEF NbufOf, DoneOf
  <2> QED BY <2>1, <2>2, <2>3
<1>7. ASSUME NEW e \in Descs
      PROVE  /\ LinkOf(r)[e] = LinkOf(m)[e]
             /\ e # d => DataOf(r)[e] = DataOf(m)[e] /\ LenOf(r)[e] = LenOf(m)[e]
  <2>0. /\ LinkOf(r)[e] = r[e].link /\ DataOf(r)[e] = r[e].data /\ LenOf(r)[e] = r[e].len
        /\ LinkOf(m)[e] = m[e].link /\ DataOf(m)[e] = m[e].data /\ LenOf(m)[e] = m[e].len
    BY Zenon DEF LinkOf, DataOf, LenOf
  <2> QED BY <1>3, <1>4, <2>0
<1>8. LenOf(r)[d] = NoLen
  BY <1>3, <1>5, ViewTypes
<1> QED BY <1>5, <1>6, <1>7, <1>8, Zenon DEF StripViews

(* The length of the buffer of d is set.                                   *)
PutTailViews(m, r, d) ==
    /\ r \in [Descs -> RxDescs]
    /\ \A e : e \in NbufOf(r) <=> e \in NbufOf(m)
    /\ \A e : e \in DoneOf(r) <=> e \in DoneOf(m)
    /\ \A e \in Descs :
         /\ LinkOf(r)[e] = LinkOf(m)[e] /\ DataOf(r)[e] = DataOf(m)[e]
         /\ LenOf(r)[e] = IF e = d /\ LenOf(m)[e] = NoLen THEN <<DataOf(m)[e]>> ELSE LenOf(m)[e]

(* Setting the length of a buffer leaves them so.                          *)
LEMMA TailPut ==
    ASSUME NEW m \in [Descs -> RxDescs], NEW d \in Descs, DataOf(m)[d] \in Segs,
           NEW r, r = [m EXCEPT ![d] = [m[d] EXCEPT !.len = IF m[d].len = NoLen THEN <<m[d].data>> ELSE m[d].len]]
    PROVE  PutTailViews(m, r, d)
<1>1. m[d] \in RxDescs /\ m[d].data \in Segs
  BY ViewTypes
<1> DEFINE l == IF m[d].len = NoLen THEN <<m[d].data>> ELSE m[d].len
<1>2. r[d] = [m[d] EXCEPT !.len = l]
  OBVIOUS
<1>2a. l \in Lens
  BY <1>1, NoneApart, DescFields
<1>2b. l = IF m[d].len = NoLen THEN <<m[d].data>> ELSE m[d].len
  OBVIOUS
<1> HIDE DEF l
<1>3. /\ r[d].nbuf = m[d].nbuf /\ r[d].done = m[d].done /\ r[d].link = m[d].link
      /\ r[d].data = m[d].data /\ r[d].len = l /\ r[d] \in RxDescs
  BY <1>1, <1>2, <1>2a DEF RxDescs
<1>4. \A e \in Descs : e # d => r[e] = m[e]
  OBVIOUS
<1>5. r \in [Descs -> RxDescs]
  BY <1>3
<1>6. ASSUME NEW e
      PROVE  /\ e \in NbufOf(r) <=> e \in NbufOf(m)
             /\ e \in DoneOf(r) <=> e \in DoneOf(m)
  <2>1. CASE e \in Descs /\ e # d
    BY <1>4, <2>1, Zenon DEF NbufOf, DoneOf
  <2>2. CASE e \notin Descs
    BY <2>2 DEF NbufOf, DoneOf
  <2>3. CASE e = d
    BY <1>3, <2>3, Zenon DEF NbufOf, DoneOf
  <2> QED BY <2>1, <2>2, <2>3
<1>7. ASSUME NEW e \in Descs
      PROVE  /\ LinkOf(r)[e] = LinkOf(m)[e] /\ DataOf(r)[e] = DataOf(m)[e]
             /\ LenOf(r)[e] = IF e = d /\ LenOf(m)[e] = NoLen THEN <<DataOf(m)[e]>> ELSE LenOf(m)[e]
  <2>0. /\ LinkOf(r)[e] = r[e].link /\ DataOf(r)[e] = r[e].data /\ LenOf(r)[e] = r[e].len
        /\ LinkOf(m)[e] = m[e].link /\ DataOf(m)[e] = m[e].data /\ LenOf(m)[e] = m[e].len
    <3>1. LinkOf(r)[e] = r[e].link /\ DataOf(r)[e] = r[e].data /\ LenOf(r)[e] = r[e].len
      BY <1>5 DEF LinkOf, DataOf, LenOf
    <3>2. LinkOf(m)[e] = m[e].link /\ DataOf(m)[e] = m[e].data /\ LenOf(m)[e] = m[e].len
      BY DEF LinkOf, DataOf, LenOf
    <3> QED BY <3>1, <3>2
  <2> QED BY <1>3, <1>4, <1>2b, <2>0
<1> QED BY <1>5, <1>6, <1>7, Zenon DEF PutTailViews

(* The MAC has put segment g into d.                                       *)
ReceiveViews(m, r, d, g) ==
    /\ r \in [Descs -> RxDescs]
    /\ \A e : e \in NbufOf(r) <=> e \in NbufOf(m)
    /\ \A e : e \in DoneOf(r) <=> e \in DoneOf(m) \/ e = d
    /\ \A e \in Descs :
         /\ LinkOf(r)[e] = LinkOf(m)[e] /\ LenOf(r)[e] = LenOf(m)[e]
         /\ DataOf(r)[e] = IF e = d THEN g ELSE DataOf(m)[e]

(* The MAC leaves the descriptors so.                                      *)
LEMMA SegReceived ==
    ASSUME NEW m \in [Descs -> RxDescs], NEW d \in Descs, NEW g \in Segs,
           NEW r, r = [m EXCEPT ![d] = [@ EXCEPT !.done = TRUE, !.data = g]]
    PROVE  ReceiveViews(m, r, d, g)
<1>1. m[d] \in RxDescs /\ g \in SegsOrNone
  BY NoneApart
<1>2. r[d] = [m[d] EXCEPT !.done = TRUE, !.data = g]
  OBVIOUS
<1>3. /\ r[d].nbuf = m[d].nbuf /\ r[d].done = TRUE /\ r[d].link = m[d].link
      /\ r[d].data = g /\ r[d].len = m[d].len /\ r[d] \in RxDescs
  BY <1>1, <1>2 DEF RxDescs
<1>4. \A e \in Descs : e # d => r[e] = m[e]
  OBVIOUS
<1>5. r \in [Descs -> RxDescs]
  BY <1>3
<1>6. ASSUME NEW e
      PROVE  /\ e \in NbufOf(r) <=> e \in NbufOf(m)
             /\ e \in DoneOf(r) <=> e \in DoneOf(m) \/ e = d
  <2>1. CASE e \in Descs /\ e # d
    BY <1>4, <2>1, Zenon DEF NbufOf, DoneOf
  <2>2. CASE e \notin Descs
    BY <2>2 DEF NbufOf, DoneOf
  <2>3. CASE e = d
    BY <1>3, <2>3, Zenon DEF NbufOf, DoneOf
  <2> QED BY <2>1, <2>2, <2>3
<1>7. ASSUME NEW e \in Descs
      PROVE  /\ LinkOf(r)[e] = LinkOf(m)[e] /\ LenOf(r)[e] = LenOf(m)[e]
             /\ DataOf(r)[e] = IF e = d THEN g ELSE DataOf(m)[e]
  <2>0. /\ LinkOf(r)[e] = r[e].link /\ DataOf(r)[e] = r[e].data /\ LenOf(r)[e] = r[e].len
        /\ LinkOf(m)[e] = m[e].link /\ DataOf(m)[e] = m[e].data /\ LenOf(m)[e] = m[e].len
    BY Zenon DEF LinkOf, DataOf, LenOf
  <2> QED BY <1>3, <1>4, <2>0
<1> QED BY <1>5, <1>6, <1>7, Zenon DEF ReceiveViews
-----------------------------------------------------------------------------
(* The lists.                                                              *)

(* Two lists of known lengths.                                             *)
LEMMA ListsOf ==
    ASSUME NEW r, NEW s, NEW a, NEW b, Len(r) = a, Len(s) = b,
           \A i, j \in 1 .. a : r[i] = r[j] => i = j,
           \A i, j \in 1 .. b : s[i] = s[j] => i = j,
           \A i \in 1 .. a, j \in 1 .. b : r[i] # s[j],
           \A d \in Descs : (\E i \in 1 .. a : d = r[i]) \/ (\E i \in 1 .. b : d = s[i])
    PROVE  Lists(r, s)
BY DEF Lists

(* The first descriptor goes to the end of the list.                       *)
Turned(q, r) == Len(q) >= 1 /\ r = Append(Tail(q), q[1])

(* Every descriptor is still once in one of the lists when the first of    *)
(* the ring has become the last.                                           *)
LEMMA TurnList ==
    ASSUME NEW q \in Seq(Descs), NEW idle \in Seq(Descs), Lists(q, idle), NEW r, Turned(q, r)
    PROVE  /\ r \in Seq(Descs) /\ Len(r) = Len(q) /\ r[Len(q)] = q[1]
           /\ \A i \in 1 .. Len(q) - 1 : r[i] = q[i + 1]
           /\ Lists(r, idle)
<1>0. Len(q) >= 1 /\ r = Append(Tail(q), q[1])
  BY DEF Turned
<1> USE <1>0
<1> DEFINE n == Len(q)
<1>1. n \in Nat /\ n >= 1 /\ \A i \in 1 .. n : q[i] \in Descs
  OBVIOUS
<1>2. r \in Seq(Descs) /\ Len(r) = n /\ r[n] = q[1] /\ \A i \in 1 .. n - 1 : r[i] = q[i + 1]
  <2>1. Tail(q) \in Seq(Descs) /\ Len(Tail(q)) = n - 1 /\ \A i \in 1 .. n - 1 : Tail(q)[i] = q[i + 1]
    BY TailIs
  <2> QED BY <1>1, <2>1, AppendIs
<1> HIDE DEF n
<1>3. /\ \A i, j \in 1 .. n : q[i] = q[j] => i = j
      /\ \A i, j \in 1 .. Len(idle) : idle[i] = idle[j] => i = j
      /\ \A i \in 1 .. n, j \in 1 .. Len(idle) : q[i] # idle[j]
      /\ \A d \in Descs : (\E i \in 1 .. n : d = q[i]) \/ (\E i \in 1 .. Len(idle) : d = idle[i])
  BY DEF Lists, n
<1>4. \A i \in 1 .. n : r[i] = q[IF i = n THEN 1 ELSE i + 1]
  BY <1>1, <1>2
<1>5. \A i, j \in 1 .. n : r[i] = r[j] => i = j
  <2> TAKE i \in 1 .. n, j \in 1 .. n
  <2> DEFINE a == IF i = n THEN 1 ELSE i + 1
             b == IF j = n THEN 1 ELSE j + 1
  <2>1. a \in 1 .. n /\ b \in 1 .. n /\ (a = b => i = j)
    BY <1>1
  <2>2. r[i] = q[a] /\ r[j] = q[b]
    BY <1>4
  <2> HIDE DEF a, b
  <2> QED BY <2>1, <2>2, <1>3
<1>6. \A i \in 1 .. n, j \in 1 .. Len(idle) : r[i] # idle[j]
  <2> TAKE i \in 1 .. n, j \in 1 .. Len(idle)
  <2> DEFINE a == IF i = n THEN 1 ELSE i + 1
  <2>0. a \in 1 .. n
    BY <1>1
  <2>1. a \in 1 .. n /\ r[i] = q[a]
    BY <2>0, <1>4
  <2> HIDE DEF a
  <2> QED BY <2>1, <1>3
<1>7. ASSUME NEW d \in Descs, NEW i \in 1 .. n, d = q[i]
      PROVE  \E j \in 1 .. n : d = r[j]
  <2>1. CASE i = 1
    BY <2>1, <1>1, <1>2, <1>7
  <2>2. CASE i # 1
    <3>1. i - 1 \in 1 .. n - 1 /\ i - 1 \in 1 .. n /\ (i - 1) + 1 = i
      BY <2>2, <1>1
    <3>2. r[i - 1] = q[(i - 1) + 1]
      BY <3>1, <1>2
    <3> QED BY <3>1, <3>2, <1>7
  <2> QED BY <2>1, <2>2
<1>8. \A d \in Descs : (\E i \in 1 .. n : d = r[i]) \/ (\E i \in 1 .. Len(idle) : d = idle[i])
  BY <1>3, <1>7
<1>9. Lists(r, idle)
  BY <1>2, <1>3, <1>5, <1>6, <1>8 DEF Lists
<1> QED BY <1>2, <1>9 DEF n

(* The first descriptor becomes idle.                                      *)
Dropped(q, idle, r, s) ==
    /\ Len(q) >= 1 /\ Len(r) = Len(q) - 1 /\ (\A i \in 1 .. Len(q) - 1 : r[i] = q[i + 1])
    /\ Len(s) = Len(idle) + 1 /\ s[Len(idle) + 1] = q[1]
    /\ \A i \in 1 .. Len(idle) : s[i] = idle[i]

(* The same when the first of the ring has gone to the idle list.          *)
LEMMA DropList ==
    ASSUME NEW q \in Seq(Descs), NEW idle \in Seq(Descs), Lists(q, idle),
           NEW r, NEW s, Dropped(q, idle, r, s)
    PROVE  Lists(r, s)
<1>0. /\ Len(q) >= 1 /\ Len(r) = Len(q) - 1 /\ (\A i \in 1 .. Len(q) - 1 : r[i] = q[i + 1])
      /\ Len(s) = Len(idle) + 1 /\ s[Len(idle) + 1] = q[1]
      /\ \A i \in 1 .. Len(idle) : s[i] = idle[i]
  BY DEF Dropped
<1> USE <1>0
<1> DEFINE n == Len(q)
           k == Len(idle)
<1>1. n \in Nat /\ n >= 1 /\ k \in Nat /\ \A i \in 1 .. n : q[i] \in Descs
  OBVIOUS
<1>2. Len(r) = n - 1 /\ \A i \in 1 .. n - 1 : r[i] = q[i + 1]
  OBVIOUS
<1>3. Len(s) = k + 1 /\ s[k + 1] = q[1] /\ \A i \in 1 .. k : s[i] = idle[i]
  OBVIOUS
<1> HIDE DEF n, k
<1>4. /\ \A i, j \in 1 .. n : q[i] = q[j] => i = j
      /\ \A i, j \in 1 .. k : idle[i] = idle[j] => i = j
      /\ \A i \in 1 .. n, j \in 1 .. k : q[i] # idle[j]
      /\ \A d \in Descs : (\E i \in 1 .. n : d = q[i]) \/ (\E i \in 1 .. k : d = idle[i])
  BY DEF Lists, n, k
<1>5. \A i, j \in 1 .. n - 1 : r[i] = r[j] => i = j
  <2> TAKE i \in 1 .. n - 1, j \in 1 .. n - 1
  <2>1. r[i] = q[i + 1] /\ r[j] = q[j + 1] /\ i + 1 \in 1 .. n /\ j + 1 \in 1 .. n
    BY <1>1, <1>2
  <2>2. q[i + 1] = q[j + 1] => i + 1 = j + 1
    BY <2>1, <1>4
  <2> QED BY <2>1, <2>2
<1>6. \A i, j \in 1 .. k + 1 : s[i] = s[j] => i = j
  BY <1>1, <1>3, <1>4
<1>7. \A i \in 1 .. n - 1, j \in 1 .. k + 1 : r[i] # s[j]
  <2> TAKE i \in 1 .. n - 1, j \in 1 .. k + 1
  <2>1. r[i] = q[i + 1] /\ i + 1 \in 1 .. n /\ i + 1 # 1 /\ 1 \in 1 .. n
    BY <1>1, <1>2
  <2>2. CASE j = k + 1
    BY <2>1, <2>2, <1>3, <1>4
  <2>3. CASE j # k + 1
    <3>1. j \in 1 .. k
      BY <2>3, <1>1
    <3>2. s[j] = idle[j] /\ q[i + 1] # idle[j]
      BY <3>1, <2>1, <1>3, <1>4
    <3> QED BY <3>2, <2>1
  <2> QED BY <2>2, <2>3
<1>8. ASSUME NEW d \in Descs
      PROVE  (\E i \in 1 .. n - 1 : d = r[i]) \/ (\E i \in 1 .. k + 1 : d = s[i])
  <2>1. CASE \E i \in 1 .. k : d = idle[i]
    BY <2>1, <1>1, <1>3
  <2>2. CASE \E i \in 1 .. n : d = q[i]
    <3>1. PICK i \in 1 .. n : d = q[i]
      BY <2>2
    <3>2. CASE i = 1
      BY <3>1, <3>2, <1>1, <1>3
    <3>3. CASE i # 1
      <4>1. i - 1 \in 1 .. n - 1 /\ (i - 1) + 1 = i
        BY <3>3, <1>1
      <4>2. r[i - 1] = q[(i - 1) + 1]
        BY <4>1, <1>2
      <4> QED BY <4>1, <4>2, <3>1
    <3> QED BY <3>2, <3>3
  <2> QED BY <2>1, <2>2, <1>4
<1>9. Lists(r, s)
  <2>1. Len(r) = n - 1 /\ Len(s) = k + 1
    BY <1>2, <1>3
  <2>2. \A d \in Descs : (\E i \in 1 .. n - 1 : d = r[i]) \/ (\E i \in 1 .. k + 1 : d = s[i])
    BY <1>8
  <2> DEFINE a == n - 1
             b == k + 1
  <2>3. /\ Len(r) = a /\ Len(s) = b
        /\ \A i, j \in 1 .. a : r[i] = r[j] => i = j
        /\ \A i, j \in 1 .. b : s[i] = s[j] => i = j
        /\ \A i \in 1 .. a, j \in 1 .. b : r[i] # s[j]
        /\ \A d \in Descs : (\E i \in 1 .. a : d = r[i]) \/ (\E i \in 1 .. b : d = s[i])
    BY <2>1, <2>2, <1>5, <1>6, <1>7
  <2> HIDE DEF a, b
  <2> QED BY <2>3, ListsOf, SMTT(60)
<1> QED BY <1>9

(* The first idle descriptor comes back to the list.                       *)
Backed(q, idle, r, s) ==
    /\ Len(idle) >= 1 /\ Len(r) = Len(q) + 1 /\ r[Len(q) + 1] = idle[1]
    /\ \A i \in 1 .. Len(q) : r[i] = q[i]
    /\ Len(s) = Len(idle) - 1 /\ \A i \in 1 .. Len(idle) - 1 : s[i] = idle[i + 1]

(* The same when the first idle descriptor has come back to the ring.      *)
LEMMA BackList ==
    ASSUME NEW q \in Seq(Descs), NEW idle \in Seq(Descs), Lists(q, idle),
           NEW r, NEW s, Backed(q, idle, r, s)
    PROVE  Lists(r, s)
<1>0. /\ Len(idle) >= 1 /\ Len(r) = Len(q) + 1 /\ r[Len(q) + 1] = idle[1]
      /\ \A i \in 1 .. Len(q) : r[i] = q[i]
      /\ Len(s) = Len(idle) - 1 /\ \A i \in 1 .. Len(idle) - 1 : s[i] = idle[i + 1]
  BY DEF Backed
<1> DEFINE n == Len(q)
           k == Len(idle)
<1>1. n \in Nat /\ k >= 1 /\ k \in Nat /\ idle[1] \in Descs
  BY <1>0
<1>2. Len(r) = n + 1 /\ r[n + 1] = idle[1] /\ \A i \in 1 .. n : r[i] = q[i]
  BY <1>0
<1>3. Len(s) = k - 1 /\ \A i \in 1 .. k - 1 : s[i] = idle[i + 1]
  BY <1>0
<1> HIDE DEF n, k
<1>4. /\ \A i, j \in 1 .. n : q[i] = q[j] => i = j
      /\ \A i, j \in 1 .. k : idle[i] = idle[j] => i = j
      /\ \A i \in 1 .. n, j \in 1 .. k : q[i] # idle[j]
      /\ \A d \in Descs : (\E i \in 1 .. n : d = q[i]) \/ (\E i \in 1 .. k : d = idle[i])
  BY DEF Lists, n, k
<1>5. \A i, j \in 1 .. k - 1 : s[i] = s[j] => i = j
  BY <1>1, <1>3, <1>4
<1>6. \A i, j \in 1 .. n + 1 : r[i] = r[j] => i = j
  BY <1>1, <1>2, <1>4
<1>7. \A i \in 1 .. n + 1, j \in 1 .. k - 1 : r[i] # s[j]
  <2> TAKE i \in 1 .. n + 1, j \in 1 .. k - 1
  <2>1. s[j] = idle[j + 1] /\ j + 1 \in 1 .. k /\ j + 1 # 1 /\ 1 \in 1 .. k
    BY <1>1, <1>3
  <2>2. CASE i = n + 1
    BY <2>1, <2>2, <1>2, <1>4
  <2>3. CASE i # n + 1
    <3>1. i \in 1 .. n
      BY <2>3, <1>1
    <3>2. r[i] = q[i] /\ q[i] # idle[j + 1]
      BY <3>1, <2>1, <1>2, <1>4
    <3> QED BY <3>2, <2>1
  <2> QED BY <2>2, <2>3
<1>8. ASSUME NEW d \in Descs
      PROVE  (\E i \in 1 .. n + 1 : d = r[i]) \/ (\E i \in 1 .. k - 1 : d = s[i])
  <2>1. CASE \E i \in 1 .. n : d = q[i]
    BY <2>1, <1>1, <1>2
  <2>2. CASE \E i \in 1 .. k : d = idle[i]
    <3>1. PICK i \in 1 .. k : d = idle[i]
      BY <2>2
    <3>2. CASE i = 1
      BY <3>1, <3>2, <1>1, <1>2
    <3>3. CASE i # 1
      <4>1. i - 1 \in 1 .. k - 1 /\ (i - 1) + 1 = i
        BY <3>3, <1>1
      <4>2. s[i - 1] = idle[(i - 1) + 1]
        BY <4>1, <1>3
      <4> QED BY <4>1, <4>2, <3>1
    <3> QED BY <3>2, <3>3
  <2> QED BY <2>1, <2>2, <1>4
<1>9. Lists(r, s)
  <2>1. Len(r) = n + 1 /\ Len(s) = k - 1
    BY <1>2, <1>3
  <2>2. \A d \in Descs : (\E i \in 1 .. n + 1 : d = r[i]) \/ (\E i \in 1 .. k - 1 : d = s[i])
    BY <1>8
  <2> QED BY <2>1, <2>2, <1>5, <1>6, <1>7, ListsOf
<1> QED BY <1>9
-----------------------------------------------------------------------------
(* The ring without its first descriptor.                                  *)

(* What is behind the last segment of a frame belongs to later frames.     *)
LEMMA NextFrames ==
    ASSUME NEW q, NEW w \in Nat, w >= 1, NEW A, NEW k, NEW lo, NEW hi, Contents(q, w, A, k, lo, hi),
           A[q[1]][2] = A[q[1]][3]
    PROVE  /\ w >= 2 => A[q[2]][2] = 1
           /\ \A i \in 2 .. w : A[q[1]][1] < A[q[i]][1]
<1>1. ASSUME w >= 2 PROVE A[q[2]][2] = 1 /\ A[q[2]][1] > A[q[1]][1]
  <2>1. Follows(A[q[1]], A[q[1 + 1]])
    BY <1>1 DEF Contents
  <2> QED BY <2>1 DEF Follows
<1>2. ASSUME NEW i \in 2 .. w
      PROVE  A[q[1]][1] < A[q[i]][1]
  <2>1. A[q[2]][1] <= A[q[i]][1]
    BY <1>2 DEF Contents
  <2>2. A[q[1]] \in Segs /\ A[q[2]] \in Segs /\ A[q[i]] \in Segs
    BY <1>2 DEF Contents
  <2>3. A[q[1]][1] \in Nat /\ A[q[2]][1] \in Nat /\ A[q[i]][1] \in Nat
    BY <2>2, SegParts, RxAssumption
  <2> QED BY <1>1, <2>1, <2>3
<1> QED BY <1>1, <1>2

(* Without its first descriptor the ring holds the segments that come      *)
(* after.                                                                  *)
LEMMA ShiftContents ==
    ASSUME NEW q, NEW r, NEW w \in Nat, w >= 1, NEW A, NEW C,
           \A i \in 1 .. w - 1 : r[i] = q[i + 1] /\ C[q[i + 1]] = A[q[i + 1]],
           NEW k, NEW lo, NEW hi, Contents(q, w, A, k, lo, hi),
           NEW j, NEW l, w >= 2 => A[q[2]][2] = j + 1, \A i \in 2 .. w : l < A[q[i]][1]
    PROVE  Contents(r, w - 1, C, j, l, hi)
<1>1. \A i \in 1 .. w - 1 : C[r[i]] = A[q[i + 1]] /\ i + 1 \in 1 .. w /\ i + 1 \in 2 .. w
  OBVIOUS
<1>2. \A i \in 1 .. w - 1 : /\ C[r[i]] \in Segs /\ C[r[i]][2] <= C[r[i]][3]
                            /\ l < C[r[i]][1] /\ C[r[i]][1] <= hi
  BY <1>1 DEF Contents
<1>3. ASSUME NEW i \in 1 .. (w - 1) - 1
      PROVE  Follows(C[r[i]], C[r[i + 1]])
  <2>1. i + 1 \in 1 .. w - 1 /\ i \in 1 .. w - 1
    OBVIOUS
  <2>2. Follows(A[q[i + 1]], A[q[(i + 1) + 1]])
    BY <2>1 DEF Contents
  <2>3. C[r[i]] = A[q[i + 1]] /\ C[r[i + 1]] = A[q[(i + 1) + 1]]
    BY <1>1, <2>1
  <2> QED BY <2>2, <2>3
<1>4. ASSUME NEW i \in 1 .. w - 1, NEW m \in 1 .. w - 1, i <= m
      PROVE  C[r[i]][1] <= C[r[m]][1]
  <2>1. A[q[i + 1]][1] <= A[q[m + 1]][1]
    BY <1>1, <1>4 DEF Contents
  <2> QED BY <1>1, <2>1
<1>5. w - 1 >= 1 => C[r[1]][2] = j + 1
  <2> HAVE w - 1 >= 1
  <2>1. 1 \in 1 .. w - 1 /\ w >= 2
    OBVIOUS
  <2>2. C[r[1]] = A[q[1 + 1]]
    BY <1>1, <2>1
  <2> QED BY <2>1, <2>2
<1> QED BY <1>2, <1>3, <1>4, <1>5 DEF Contents

(* The lengths of the others are still those of their segments.            *)
LEMMA ShiftLengths ==
    ASSUME NEW q, NEW r, NEW n \in Nat, Len(q) = n, Len(r) \in {n - 1, n}, NEW w \in Nat, w <= n - 1,
           NEW A, NEW N, NEW C, NEW M, NEW c, Lengths(q, w, A, N, c),
           \A i \in 1 .. n - 2 : r[i] = q[i + 1] /\ C[q[i + 1]] = A[q[i + 1]] /\ M[q[i + 1]] = N[q[i + 1]],
           Len(r) = n => M[r[n - 1]] = NoLen
    PROVE  Lengths(r, w - 1, C, M, c)
<1> SUFFICES ASSUME NEW i \in 1 .. Len(r) - 1
             PROVE  c \/ M[r[i]] = NoLen \/ (i <= w - 1 /\ M[r[i]] = <<C[r[i]]>>)
  BY DEF Lengths
<1>1. CASE i \in 1 .. n - 2
  <2>1. i + 1 \in 1 .. n - 1
    BY <1>1
  <2>2. c \/ N[q[i + 1]] = NoLen \/ (i + 1 <= w /\ N[q[i + 1]] = <<A[q[i + 1]]>>)
    BY <2>1 DEF Lengths
  <2>3. r[i] = q[i + 1] /\ C[r[i]] = A[q[i + 1]] /\ M[r[i]] = N[q[i + 1]]
    BY <1>1
  <2>4. i + 1 <= w => i <= w - 1
    OBVIOUS
  <2> QED BY <2>2, <2>3, <2>4
<1>2. CASE i = n - 1 /\ Len(r) = n
  BY <1>2
<1> QED BY <1>1, <1>2

(* The others the handler has looked at are still those of its frame.      *)
LEMMA ShiftScanned ==
    ASSUME NEW q, NEW r, NEW t \in Nat, NEW w \in Nat, t >= 2, NEW A, NEW N, NEW C, NEW M,
           \A i \in 1 .. t - 1 : r[i] = q[i + 1] /\ C[q[i + 1]] = A[q[i + 1]] /\ M[q[i + 1]] = N[q[i + 1]],
           NEW k \in Nat, NEW all, NEW h, NEW g, NEW o, NEW ct, o => g.rxdp = h.rxdp,
           Scanned(q, t, w, A, N, k, all, h, o, ct)
    PROVE  Scanned(r, t - 1, w - 1, C, M, k + 1, all, g, o, ct)
<1>1. /\ t <= w
      /\ \A i \in 1 .. t : A[q[i]] = <<A[q[1]][1], k + i, all>> /\ (ct \/ N[q[i]] = <<A[q[i]]>>)
      /\ o => \A i \in 1 .. t : h.rxdp # q[i]
  BY DEF Scanned
<1>2. C[r[1]][1] = A[q[1]][1]
  <2>1. C[r[1]] = A[q[1 + 1]]
    OBVIOUS
  <2>2. A[q[2]] = <<A[q[1]][1], k + 2, all>>
    BY <1>1
  <2> QED BY <2>1, <2>2
<1>3. ASSUME NEW i \in 1 .. t - 1
      PROVE  /\ C[r[i]] = <<C[r[1]][1], (k + 1) + i, all>> /\ (ct \/ M[r[i]] = <<C[r[i]]>>)
             /\ o => g.rxdp # r[i]
  <2>1. i + 1 \in 1 .. t
    OBVIOUS
  <2>2. r[i] = q[i + 1] /\ C[r[i]] = A[q[i + 1]] /\ M[r[i]] = N[q[i + 1]]
    OBVIOUS
  <2>3. A[q[i + 1]] = <<A[q[1]][1], k + (i + 1), all>> /\ (ct \/ N[q[i + 1]] = <<A[q[i + 1]]>>)
    BY <1>1, <2>1
  <2>4. k + (i + 1) = (k + 1) + i
    OBVIOUS
  <2>5. o => h.rxdp # q[i + 1]
    BY <1>1, <2>1
  <2> QED BY <1>2, <2>2, <2>3, <2>4, <2>5
<1>4. t - 1 <= w - 1
  BY <1>1
<1> QED BY <1>3, <1>4 DEF Scanned

(* The MAC stands where it stood, one descriptor nearer to the first.      *)
LEMMA ShiftMac ==
    ASSUME NEW q, NEW r, NEW n \in Nat, Len(q) = n, Len(r) \in {n - 1, n}, NEW z \in Nat, z >= 2,
           NEW w \in Nat, w >= 1, w <= z, NEW A, NEW C,
           \A i \in 1 .. n - 1 : r[i] = q[i + 1],
           \A i \in 2 .. w : C[q[i]] = A[q[i]],
           NEW h, NEW g, g.rxdp = h.rxdp, g.seg = h.seg, g.frames = h.frames,
           NEW k, NEW l, MacOn(h, q, z, w, A, k), h.rxdp # q[1], l = r[Len(r) - 1],
           w = 1 => A[q[1]][2] = A[q[1]][3]
    PROVE  MacOn(g, r, Len(r) - 1, w - 1, C, l)
<1>1. PICK p \in 1 .. z : h.rxdp = q[p] /\ w \in {p - 1, p}
  BY DEF MacOn
<1>2. z = n - 1
  BY DEF MacOn
<1>3. p # 1
  BY <1>1
<1>4. p - 1 \in 1 .. Len(r) - 1 /\ p - 1 \in 1 .. n - 1 /\ w - 1 \in {(p - 1) - 1, p - 1}
  BY <1>1, <1>2, <1>3
<1>5. g.rxdp = r[p - 1]
  <2>1. r[p - 1] = q[(p - 1) + 1] /\ (p - 1) + 1 = p
    BY <1>4
  <2> QED BY <1>1, <2>1
<1>6. g.seg = IF w - 1 >= 1 /\ C[r[w - 1]][2] # C[r[w - 1]][3] THEN C[r[w - 1]] ELSE NoSeg
  <2>1. h.seg = IF w >= 1 /\ A[q[w]][2] # A[q[w]][3] THEN A[q[w]] ELSE NoSeg
    BY DEF MacOn
  <2>2. CASE w = 1
    BY <2>1, <2>2
  <2>3. CASE w # 1
    <3>1. w - 1 \in 1 .. n - 1 /\ w \in 2 .. w /\ (w - 1) + 1 = w
      BY <2>3, <1>2
    <3>2. r[w - 1] = q[(w - 1) + 1]
      BY <3>1
    <3>3. C[r[w - 1]] = A[q[w]]
      BY <3>1, <3>2
    <3> QED BY <2>1, <2>3, <3>3
  <2> QED BY <2>2, <2>3
<1>7. g.seg # NoSeg => g.seg[1] = g.frames
  BY DEF MacOn
<1> QED BY <1>4, <1>5, <1>6, <1>7 DEF MacOn

(* The first descriptor has been handed in: it is at the end of the list,  *)
(* held, and the one held before is set up.                                *)
Turns(q, r, n, B, D, L, E, F, K, k) ==
    /\ n \in Nat /\ Len(q) = n /\ Len(r) = n
    /\ \A i, j \in 1 .. n : q[i] = q[j] => i = j
    /\ \A i \in 1 .. n : q[i] \in Descs
    /\ (\A i \in 1 .. n - 1 : r[i] = q[i + 1]) /\ r[n] = q[1]
    /\ \A e : e \in E <=> (e \in B /\ e # q[1]) \/ e = q[n]
    /\ \A e : e \in F <=> e \in D /\ e # q[n]
    /\ \A e \in Descs : K[e] = IF e = q[n] THEN NoDesc ELSE IF e = k THEN q[n] ELSE L[e]

(* The ring is one again after its first descriptor has become the held    *)
(* one at its end.                                                         *)
LEMMA TurnRing ==
    ASSUME NEW q, NEW r, NEW n, NEW B, NEW D, NEW L, NEW E, NEW F, NEW K, NEW k,
           Turns(q, r, n, B, D, L, E, F, K, k),
           NEW z \in Nat, NEW w \in Nat, w >= 1, z >= 2, Ring(q, z, w, B, D, L),
           NEW y \in Nat,
           \/ z = n - 1 /\ k = q[n - 1] /\ y = z
           \/ (k = NoDesc \/ (k = q[n - 1] /\ z < n - 1)) /\ y = z - 1
    PROVE  Ring(r, y, w - 1, E, F, K)
<1>0. /\ n \in Nat /\ Len(q) = n /\ Len(r) = n
      /\ \A i, j \in 1 .. n : q[i] = q[j] => i = j
      /\ \A i \in 1 .. n : q[i] \in Descs
      /\ (\A i \in 1 .. n - 1 : r[i] = q[i + 1]) /\ r[n] = q[1]
      /\ \A e : e \in E <=> (e \in B /\ e # q[1]) \/ e = q[n]
      /\ \A e : e \in F <=> e \in D /\ e # q[n]
      /\ \A e \in Descs : K[e] = IF e = q[n] THEN NoDesc ELSE IF e = k THEN q[n] ELSE L[e]
  BY Zenon DEF Turns
<1> USE <1>0
<1>1. /\ z \in 1 .. n - 1 /\ w \in 0 .. z
      /\ \A i \in 1 .. z : L[q[i]] = IF i < z THEN q[i + 1] ELSE NoDesc
      /\ \A i \in 1 .. n - 1 : q[i] \in B /\ (q[i] \in D <=> i <= w)
      /\ q[n] \notin B
  BY DEF Ring
<1>2. y \in 1 .. n - 1 /\ w - 1 \in 0 .. y
  BY <1>1
<1>3. ASSUME NEW i \in 1 .. y
      PROVE  K[r[i]] = IF i < y THEN r[i + 1] ELSE NoDesc
  <2>1. i \in 1 .. n - 1 /\ i + 1 \in 1 .. n /\ r[i] = q[i + 1] /\ q[i + 1] \in Descs
    BY <1>2
  <2>2. CASE i + 1 = n
    <3>1. i = y
      BY <1>1, <1>2, <2>2
    <3> QED BY <2>1, <2>2, <3>1
  <2>3. CASE i + 1 # n
    <3>1. q[i + 1] # q[n] /\ n \in 1 .. n /\ i + 1 \in 1 .. n - 1
      BY <2>1, <2>3
    <3>2. CASE z = n - 1 /\ k = q[n - 1] /\ y = z
      <4>1. i < y /\ r[i + 1] = q[(i + 1) + 1]
        BY <3>1, <3>2, <2>1, <2>3
      <4>2. CASE i + 1 = n - 1
        <5>1. K[q[i + 1]] = q[n] /\ (i + 1) + 1 = n
          BY <4>2, <3>1, <3>2, <2>1
        <5> QED BY <5>1, <4>1, <2>1
      <4>3. CASE i + 1 # n - 1
        <5>1. i + 1 < z /\ i + 1 \in 1 .. z /\ n - 1 \in 1 .. n
          BY <4>3, <3>2, <3>1, <1>1
        <5>2. q[i + 1] # k
          BY <5>1, <3>2, <4>3, <2>1
        <5>3. K[q[i + 1]] = L[q[i + 1]]
          BY <5>2, <3>1, <2>1
        <5>4. L[q[i + 1]] = q[(i + 1) + 1]
          BY <5>1, <1>1
        <5> QED BY <5>3, <5>4, <4>1, <2>1
      <4> QED BY <4>2, <4>3
    <3>3. CASE (k = NoDesc \/ (k = q[n - 1] /\ z < n - 1)) /\ y = z - 1
      <4>1. i + 1 \in 1 .. z /\ (i + 1 < z <=> i < y)
        BY <3>3, <1>1
      <4>2. q[i + 1] # k
        <5>1. CASE k = NoDesc
          BY <5>1, <2>1, NoneApart
        <5>2. CASE k = q[n - 1] /\ z < n - 1
          <6>1. i + 1 # n - 1 /\ n - 1 \in 1 .. n
            BY <5>2, <4>1, <1>1
          <6> QED BY <6>1, <5>2, <2>1
        <5> QED BY <5>1, <5>2, <3>3
      <4>3. K[q[i + 1]] = L[q[i + 1]]
        BY <4>2, <3>1, <2>1
      <4>4. L[q[i + 1]] = IF i + 1 < z THEN q[(i + 1) + 1] ELSE NoDesc
        BY <4>1, <1>1
      <4>5. i < y => r[i + 1] = q[(i + 1) + 1]
        BY <1>2, <4>1
      <4> QED BY <4>1, <4>3, <4>4, <4>5, <2>1
    <3> QED BY <3>2, <3>3
  <2> QED BY <2>2, <2>3
<1>4. ASSUME NEW i \in 1 .. n - 1
      PROVE  r[i] \in E /\ (r[i] \in F <=> i <= w - 1)
  <2>1. i + 1 \in 1 .. n /\ r[i] = q[i + 1] /\ 1 \in 1 .. n /\ n \in 1 .. n
    OBVIOUS
  <2>2. CASE i + 1 = n
    <3>1. ~(i <= w - 1)
      BY <2>2, <1>1
    <3> QED BY <2>1, <2>2, <3>1
  <2>3. CASE i + 1 # n
    <3>1. i + 1 \in 1 .. n - 1 /\ q[i + 1] # q[n] /\ q[i + 1] # q[1]
      BY <2>1, <2>3
    <3>2. q[i + 1] \in B /\ (q[i + 1] \in D <=> i + 1 <= w)
      BY <3>1, <1>1
    <3> QED BY <2>1, <3>1, <3>2
  <2> QED BY <2>2, <2>3
<1>5. r[n] \notin E
  <2>1. q[1] # q[n]
    BY <1>1
  <2> QED BY <2>1
<1> QED BY <1>2, <1>3, <1>4, <1>5 DEF Ring

(* The first descriptor has become idle.                                   *)
Drops(q, r, n, B, D, L, E, F, K) ==
    /\ n \in Nat /\ Len(q) = n /\ Len(r) = n - 1
    /\ \A i, j \in 1 .. n : q[i] = q[j] => i = j
    /\ \A i \in 1 .. n - 1 : r[i] = q[i + 1]
    /\ \A e : e \in E <=> (e \in B /\ e # q[1])
    /\ \A e : e \in F <=> e \in D
    /\ \A i \in 1 .. n : K[q[i]] = L[q[i]]

(* The ring is one again after its first descriptor has gone to the idle   *)
(* list.                                                                   *)
LEMMA DropRing ==
    ASSUME NEW q, NEW r, NEW n, NEW B, NEW D, NEW L, NEW E, NEW F, NEW K,
           Drops(q, r, n, B, D, L, E, F, K),
           NEW z \in Nat, NEW w \in Nat, w >= 1, z >= 2, Ring(q, z, w, B, D, L)
    PROVE  Ring(r, z - 1, w - 1, E, F, K)
<1>0. /\ n \in Nat /\ Len(q) = n /\ Len(r) = n - 1
      /\ \A i, j \in 1 .. n : q[i] = q[j] => i = j
      /\ \A i \in 1 .. n - 1 : r[i] = q[i + 1]
      /\ \A e : e \in E <=> (e \in B /\ e # q[1])
      /\ \A e : e \in F <=> e \in D
      /\ \A i \in 1 .. n : K[q[i]] = L[q[i]]
  BY Zenon DEF Drops
<1> USE <1>0
<1>1. /\ z \in 1 .. n - 1 /\ w \in 0 .. z
      /\ \A i \in 1 .. z : L[q[i]] = IF i < z THEN q[i + 1] ELSE NoDesc
      /\ \A i \in 1 .. n - 1 : q[i] \in B /\ (q[i] \in D <=> i <= w)
      /\ q[n] \notin B
  BY DEF Ring
<1>2. z - 1 \in 1 .. (n - 1) - 1 /\ w - 1 \in 0 .. z - 1
  BY <1>1
<1>3. ASSUME NEW i \in 1 .. z - 1
      PROVE  K[r[i]] = IF i < z - 1 THEN r[i + 1] ELSE NoDesc
  <2>1. i \in 1 .. n - 1 /\ i + 1 \in 1 .. n /\ r[i] = q[i + 1] /\ i + 1 \in 1 .. z
    BY <1>1
  <2>2. K[r[i]] = IF i + 1 < z THEN q[(i + 1) + 1] ELSE NoDesc
    BY <2>1, <1>1
  <2>3. i < z - 1 <=> i + 1 < z
    OBVIOUS
  <2>4. i < z - 1 => r[i + 1] = q[(i + 1) + 1]
    BY <1>1
  <2> QED BY <2>2, <2>3, <2>4
<1>4. ASSUME NEW i \in 1 .. (n - 1) - 1
      PROVE  r[i] \in E /\ (r[i] \in F <=> i <= w - 1)
  <2>1. i + 1 \in 1 .. n - 1 /\ i + 1 \in 1 .. n /\ 1 \in 1 .. n /\ r[i] = q[i + 1]
    OBVIOUS
  <2>2. q[i + 1] # q[1]
    BY <2>1
  <2>3. q[i + 1] \in B /\ (q[i + 1] \in D <=> i + 1 <= w)
    BY <2>1, <1>1
  <2> QED BY <2>1, <2>2, <2>3
<1>5. r[n - 1] \notin E
  BY <1>1
<1> QED BY <1>2, <1>3, <1>4, <1>5 DEF Ring

(* Everything there is to know of the ring after its first descriptor has  *)
(* been taken away: t of the frame that is being taken were left.          *)
Shifts(q, r, n, A, N, C, M) ==
    /\ n \in Nat /\ Len(q) = n /\ Len(r) \in {n - 1, n}
    /\ \A i \in 1 .. n - 1 : r[i] = q[i + 1]
    /\ \A i \in 2 .. n - 1 : C[q[i]] = A[q[i]] /\ M[q[i]] = N[q[i]]
    /\ Len(r) = n => M[q[n]] = NoLen

TakeLeft(q, r, w, A, N, C, M, b, t, lo, hi, g, o, ct) ==
    /\ A[q[1]] = <<A[q[1]][1], b + 1, b + t>> /\ (ct \/ N[q[1]] = <<A[q[1]]>>)
    /\ A[q[1]] \in Segs /\ lo < A[q[1]][1] /\ A[q[1]][1] <= hi
    /\ Lengths(r, w - 1, C, M, ct)
    /\ o => MacOn(g, r, Len(r) - 1, w - 1, C, r[Len(r) - 1])
    /\ t >= 2 => /\ Contents(r, w - 1, C, b + 1, lo, hi)
                 /\ Scanned(r, t - 1, w - 1, C, M, b + 1, (b + 1) + (t - 1), g, o, ct)
                 /\ C[r[1]][1] = A[q[1]][1]
    /\ t = 1 => Contents(r, w - 1, C, 0, A[q[1]][1], hi)

(* What the ring holds after its first descriptor has been taken.          *)
LEMMA TakeShift ==
    ASSUME NEW q, NEW r, NEW n, NEW A, NEW N, NEW C, NEW M, Shifts(q, r, n, A, N, C, M),
           NEW z \in Nat, NEW w \in Nat, z <= n - 1, w <= z,
           NEW b \in Nat, NEW lo, NEW hi, NEW ct,
           Contents(q, w, A, b, lo, hi), Lengths(q, w, A, N, ct),
           NEW h, NEW g, NEW o, NEW k,
           o => /\ MacOn(h, q, z, w, A, k)
                /\ g.rxdp = h.rxdp /\ g.seg = h.seg /\ g.frames = h.frames,
           NEW t \in 1 .. z - 1, Scanned(q, t, w, A, N, b, b + t, h, o, ct)
    PROVE  w >= 1 /\ z >= 2 /\ TakeLeft(q, r, w, A, N, C, M, b, t, lo, hi, g, o, ct)
<1>0. /\ n \in Nat /\ Len(q) = n /\ Len(r) \in {n - 1, n}
      /\ \A i \in 1 .. n - 1 : r[i] = q[i + 1]
      /\ \A i \in 2 .. n - 1 : C[q[i]] = A[q[i]] /\ M[q[i]] = N[q[i]]
      /\ Len(r) = n => M[q[n]] = NoLen
  BY Zenon DEF Shifts
<1> USE <1>0
<1>1. /\ t <= w
      /\ \A i \in 1 .. t : A[q[i]] = <<A[q[1]][1], b + i, b + t>> /\ (ct \/ N[q[i]] = <<A[q[i]]>>)
      /\ o => \A i \in 1 .. t : h.rxdp # q[i]
  BY DEF Scanned
<1>2. w >= 1 /\ z >= 2 /\ A[q[1]] = <<A[q[1]][1], b + 1, b + t>> /\ (ct \/ N[q[1]] = <<A[q[1]]>>)
  <2> HIDE <1>0
  <2>1. 1 \in 1 .. t
    OBVIOUS
  <2> QED BY <1>1, <2>1
<1>3. A[q[1]] \in Segs /\ lo < A[q[1]][1] /\ A[q[1]][1] <= hi
  BY <1>2 DEF Contents
<1>4. ASSUME NEW i \in 1 .. n - 2
      PROVE  r[i] = q[i + 1] /\ C[q[i + 1]] = A[q[i + 1]] /\ M[q[i + 1]] = N[q[i + 1]]
  <2>1. i + 1 \in 2 .. n - 1 /\ i \in 1 .. n - 1
    OBVIOUS
  <2> QED BY <2>1
<1>5. Lengths(r, w - 1, C, M, ct)
  <2>1. Len(r) = n => M[r[n - 1]] = NoLen
    <3> HAVE Len(r) = n
    <3>1. n - 1 \in 1 .. n - 1 /\ (n - 1) + 1 = n
      BY <1>2
    <3>2. r[n - 1] = q[(n - 1) + 1]
      BY <3>1
    <3> QED BY <3>1, <3>2
  <2>2. w <= n - 1
    OBVIOUS
  <2> QED BY <1>4, <2>1, <2>2, ShiftLengths
<1>6. ASSUME o PROVE MacOn(g, r, Len(r) - 1, w - 1, C, r[Len(r) - 1])
  <2>1. h.rxdp # q[1] /\ MacOn(h, q, z, w, A, k)
    BY <1>1, <1>6
  <2>2. w = 1 => A[q[1]][2] = A[q[1]][3]
    <3> HAVE w = 1
    <3>1. t = 1
      BY <1>1
    <3>2. A[q[1]][2] = b + 1 /\ A[q[1]][3] = b + t
      BY <1>2
    <3> QED BY <3>1, <3>2
  <2>3. \A i \in 2 .. w : C[q[i]] = A[q[i]]
    OBVIOUS
  <2> QED BY <1>2, <1>6, <2>1, <2>2, <2>3, ShiftMac
<1>7. \A i \in 1 .. w - 1 : r[i] = q[i + 1] /\ C[q[i + 1]] = A[q[i + 1]]
  <2>1. \A i \in 1 .. w - 1 : i \in 1 .. n - 2
    BY <1>0
  <2> QED BY <1>4, <2>1
<1>8. ASSUME t >= 2
      PROVE  /\ Contents(r, w - 1, C, b + 1, lo, hi)
             /\ Scanned(r, t - 1, w - 1, C, M, b + 1, (b + 1) + (t - 1), g, o, ct)
             /\ C[r[1]][1] = A[q[1]][1]
  <2>1. A[q[2]] = <<A[q[1]][1], b + 2, b + t>>
    BY <1>1, <1>8
  <2>2. A[q[2]][2] = (b + 1) + 1
    BY <2>1
  <2>3. \A i \in 2 .. w : lo < A[q[i]][1]
    BY DEF Contents
  <2>4. Contents(r, w - 1, C, b + 1, lo, hi)
    BY <1>2, <1>7, <2>2, <2>3, ShiftContents
  <2>5. \A i \in 1 .. t - 1 : r[i] = q[i + 1] /\ C[q[i + 1]] = A[q[i + 1]] /\ M[q[i + 1]] = N[q[i + 1]]
    <3>1. n \in Nat /\ t <= n - 2
      BY <1>0
    <3> HIDE <1>0
    <3>2. \A i \in 1 .. t - 1 : i \in 1 .. n - 2
      BY <3>1
    <3> QED BY <1>4, <3>2
  <2>6. o => g.rxdp = h.rxdp
    OBVIOUS
  <2>7. b + t = (b + 1) + (t - 1) /\ t \in Nat
    OBVIOUS
  <2> DEFINE all == b + t
  <2>8. Scanned(q, t, w, A, N, b, all, h, o, ct)
    OBVIOUS
  <2> HIDE DEF all
  <2>9. Scanned(r, t - 1, w - 1, C, M, b + 1, all, g, o, ct)
    BY <1>8, <2>5, <2>6, <2>7, <2>8, ShiftScanned
  <2>10. C[r[1]] = A[q[1 + 1]]
    BY <1>7, <1>8, <1>1
  <2> QED BY <2>1, <2>4, <2>7, <2>9, <2>10 DEF all
<1>9. ASSUME t = 1
      PROVE  Contents(r, w - 1, C, 0, A[q[1]][1], hi)
  <2> HIDE <1>0
  <2>1. A[q[1]][2] = A[q[1]][3]
    BY <1>2, <1>9
  <2>2. /\ w >= 2 => A[q[2]][2] = 0 + 1
        /\ \A i \in 2 .. w : A[q[1]][1] < A[q[i]][1]
    BY <1>2, <2>1, NextFrames
  <2> QED BY <1>2, <1>7, <2>2, ShiftContents
<1> QED BY <1>2, <1>3, <1>5, <1>6, <1>8, <1>9, Zenon DEF TakeLeft
-----------------------------------------------------------------------------
(* Frames.                                                                 *)

(* A frame whose segments have all been taken.                             *)
LEMMA FrameDone ==
    ASSUME NEW fr \in Seq(Nbufs), NEW f \in 1 .. MaxFrames, NEW ct,
           Len(fr) \in 1 .. MaxSegs,
           \A j \in 1 .. Len(fr) : fr[j].data = <<f, j, Len(fr)>> /\ (ct \/ fr[j].len = <<fr[j].data>>)
    PROVE  RightFrame(fr, ct) /\ FrameId(fr) = f
<1>1. FrameId(fr) = f
  <2>1. fr[1].data = <<f, 1, Len(fr)>>
    OBVIOUS
  <2> QED BY <2>1 DEF FrameId
<1> QED BY <1>1 DEF RightFrame

(* It is ready.                                                            *)
LEMMA PassReady ==
    ASSUME NEW u \in Seq(Seq(Nbufs)), NEW rd \in Seq(Seq(Nbufs)), NEW st \in Nat, NEW ct, NEW n \in Nat,
           Passing(u, rd, st, ct, n), NEW fr \in Seq(Nbufs), RightFrame(fr, ct),
           LastOf(rd, st) < FrameId(fr), FrameId(fr) <= n
    PROVE  Passing(u, Append(rd, fr), st, ct, n) /\ LastOf(Append(rd, fr), st) = FrameId(fr)
<1> DEFINE k == Len(rd)
           s == Append(rd, fr)
<1>1. k \in Nat /\ Len(s) = k + 1 /\ s[k + 1] = fr /\ (\A i \in 1 .. k : s[i] = rd[i]) /\ s # << >>
  <2>1. k \in Nat /\ Len(s) = k + 1 /\ s[k + 1] = fr /\ (\A i \in 1 .. k : s[i] = rd[i])
    OBVIOUS
  <2>2. Len(<< >>) = 0
    OBVIOUS
  <2> HIDE DEF s, k
  <2> QED BY <2>1, <2>2
<1>2. rd # << >> <=> k >= 1
  OBVIOUS
<1> HIDE DEF k, s
<1>3. /\ \A i \in 1 .. k : RightFrame(rd[i], ct) /\ FrameId(rd[i]) > st /\ FrameId(rd[i]) <= n
      /\ \A i \in 2 .. k : FrameId(rd[i - 1]) < FrameId(rd[i])
  BY DEF Passing, k
<1>4. FrameId(fr) \in Nat /\ \A i \in 1 .. k : FrameId(rd[i]) \in Nat
  BY <1>3, RxAssumption DEF RightFrame
<1>5. k >= 1 => FrameId(rd[k]) < FrameId(fr)
  BY <1>2 DEF LastOf, k
<1>6. FrameId(fr) > st
  <2>1. CASE k = 0
    BY <1>1, <1>2, <2>1 DEF LastOf
  <2>2. CASE k # 0
    BY <1>1, <1>3, <1>4, <1>5, <2>2
  <2> QED BY <2>1, <2>2
<1>7. ASSUME NEW i \in 1 .. k + 1
      PROVE  RightFrame(s[i], ct) /\ FrameId(s[i]) > st /\ FrameId(s[i]) <= n
  <2>1. CASE i = k + 1
    BY <2>1, <1>1, <1>6
  <2>2. CASE i # k + 1
    <3>1. i \in 1 .. k
      BY <2>2, <1>1
    <3>2. s[i] = rd[i]
      BY <3>1, <1>1
    <3> QED BY <3>1, <3>2, <1>3
  <2> QED BY <2>1, <2>2
<1>8. ASSUME NEW i \in 2 .. k + 1
      PROVE  FrameId(s[i - 1]) < FrameId(s[i])
  <2>1. CASE i = k + 1
    <3>1. i - 1 = k /\ k \in 1 .. k /\ k >= 1
      BY <2>1, <1>1
    <3>2. s[i - 1] = rd[k] /\ s[i] = fr
      BY <3>1, <2>1, <1>1
    <3> QED BY <3>1, <3>2, <1>5
  <2>2. CASE i # k + 1
    <3>1. i \in 2 .. k /\ i \in 1 .. k /\ i - 1 \in 1 .. k
      BY <2>2, <1>1
    <3>2. s[i] = rd[i] /\ s[i - 1] = rd[i - 1]
      BY <3>1, <1>1
    <3> QED BY <3>1, <3>2, <1>3
  <2> QED BY <2>1, <2>2
<1>9. Passing(u, s, st, ct, n)
  BY <1>1, <1>7, <1>8 DEF Passing
<1>10. LastOf(s, st) = FrameId(fr)
  BY <1>1 DEF LastOf
<1> QED BY <1>9, <1>10 DEF s

(* The number of the last frame.                                           *)
LEMMA LastBounds ==
    ASSUME NEW u, NEW rd \in Seq(Seq(Nbufs)), NEW st \in Nat, NEW ct, NEW n \in Nat, Passing(u, rd, st, ct, n)
    PROVE  LastOf(rd, st) \in Nat /\ st <= LastOf(rd, st) /\ LastOf(rd, st) <= n
<1>1. CASE rd = << >>
  BY <1>1 DEF LastOf, Passing
<1>2. CASE rd # << >>
  <2> DEFINE k == Len(rd)
  <2>1. k \in 1 .. k
    BY <1>2
  <2>2. RightFrame(rd[k], ct) /\ FrameId(rd[k]) > st /\ FrameId(rd[k]) <= n
    BY <2>1 DEF Passing
  <2>3. FrameId(rd[k]) \in Nat
    BY <2>2, RxAssumption DEF RightFrame
  <2> QED BY <1>2, <2>2, <2>3 DEF LastOf
<1> QED BY <1>1, <1>2

(* The tasklet sends what is ready.                                        *)
LEMMA PassSend ==
    ASSUME NEW u \in Seq(Seq(Nbufs)), NEW rd \in Seq(Seq(Nbufs)), NEW st \in Nat, NEW ct, NEW n \in Nat,
           Passing(u, rd, st, ct, n)
    PROVE  Passing(u \o rd, << >>, LastOf(rd, st), ct, n)
<1> DEFINE k == Len(u)
           l == Len(rd)
           s == u \o rd
           a == LastOf(rd, st)
<1>1. /\ k \in Nat /\ l \in Nat /\ Len(s) = k + l /\ (\A i \in 1 .. k : s[i] = u[i])
      /\ \A i \in 1 .. k + l : i > k => s[i] = rd[i - k]
  OBVIOUS
<1>2. rd # << >> <=> l >= 1
  OBVIOUS
<1>3. /\ st <= n
      /\ \A i \in 1 .. k : RightFrame(u[i], ct) /\ FrameId(u[i]) <= st
      /\ \A i \in 1 .. l : RightFrame(rd[i], ct) /\ FrameId(rd[i]) > st /\ FrameId(rd[i]) <= n
      /\ \A i \in 2 .. k : FrameId(u[i - 1]) < FrameId(u[i])
      /\ \A i \in 2 .. l : FrameId(rd[i - 1]) < FrameId(rd[i])
  BY DEF Passing
<1>4. a \in Nat /\ st <= a /\ a <= n
  BY LastBounds
<1>5. (\A i \in 1 .. k : FrameId(u[i]) \in Nat) /\ (\A i \in 1 .. l : FrameId(rd[i]) \in Nat)
  BY <1>3, RxAssumption DEF RightFrame
<1>6. l >= 1 => a = FrameId(rd[l])
  BY <1>2 DEF LastOf
<1> HIDE DEF k, l, s, a
<1> DEFINE T == {i \in Nat : i < l => FrameId(rd[l - i]) <= a}
<1>7. \A i \in 1 .. l : FrameId(rd[i]) <= a
  <2>1. 0 \in T
    BY <1>1, <1>4, <1>6
  <2>2. ASSUME NEW i \in Nat, i \in T, i + 1 < l
        PROVE  FrameId(rd[l - (i + 1)]) <= a
    <3>1. l - i \in 2 .. l /\ (l - i) - 1 = l - (i + 1) /\ l - (i + 1) \in 1 .. l /\ l - i \in 1 .. l
      BY <1>1, <2>2
    <3>2. FrameId(rd[(l - i) - 1]) < FrameId(rd[l - i])
      BY <3>1, <1>3
    <3>3. FrameId(rd[l - i]) <= a
      BY <2>2, <1>1
    <3>4. FrameId(rd[l - i]) \in Nat /\ FrameId(rd[l - (i + 1)]) \in Nat
      BY <3>1, <1>5
    <3> QED BY <3>1, <3>2, <3>3, <3>4, <1>4
  <2>3. \A i \in Nat : i \in T => i + 1 \in T
    BY <2>2
  <2>4. \A i \in Nat : i \in T
    <3> HIDE DEF T
    <3> QED BY <2>1, <2>3, SetInduction
  <2> TAKE i \in 1 .. l
  <2>4a. l - i \in Nat /\ l - i < l /\ l - (l - i) = i
    BY <1>1
  <2>5. l - i \in T /\ l - i \in Nat /\ l - i < l /\ l - (l - i) = i
    <3> HIDE DEF T
    <3> QED BY <2>4, <2>4a
  <2> QED BY <2>5
<1>8. ASSUME NEW i \in 1 .. k + l
      PROVE  RightFrame(s[i], ct) /\ FrameId(s[i]) <= a
  <2>1. CASE i <= k
    <3>1. i \in 1 .. k /\ s[i] = u[i]
      BY <2>1, <1>1
    <3>2. FrameId(u[i]) <= st /\ FrameId(u[i]) \in Nat /\ RightFrame(u[i], ct)
      BY <3>1, <1>3, <1>5
    <3> QED BY <3>1, <3>2, <1>4
  <2>2. CASE i > k
    <3>1. i - k \in 1 .. l /\ s[i] = rd[i - k]
      BY <2>2, <1>1
    <3> QED BY <3>1, <1>3, <1>7
  <2> QED BY <2>1, <2>2, <1>1
<1>9. ASSUME NEW i \in 2 .. k + l
      PROVE  FrameId(s[i - 1]) < FrameId(s[i])
  <2>1. CASE i <= k
    <3>1. i \in 2 .. k /\ s[i] = u[i] /\ s[i - 1] = u[i - 1]
      BY <2>1, <1>1
    <3> QED BY <3>1, <1>3
  <2>2. CASE i = k + 1
    <3>1. k \in 1 .. k /\ 1 \in 1 .. l /\ s[i] = rd[1] /\ s[i - 1] = u[k]
      BY <2>2, <1>1
    <3>2. FrameId(u[k]) <= st /\ FrameId(rd[1]) > st /\ FrameId(u[k]) \in Nat /\ FrameId(rd[1]) \in Nat
      BY <3>1, <1>3, <1>5
    <3> QED BY <3>1, <3>2
  <2>3. CASE i > k + 1
    <3>1. i - k \in 2 .. l /\ s[i] = rd[i - k] /\ (i - 1) - k = (i - k) - 1
      BY <2>3, <1>1
    <3>2. s[i - 1] = rd[(i - 1) - k]
      BY <2>3, <1>1
    <3> QED BY <3>1, <3>2, <1>3
  <2> QED BY <2>1, <2>2, <2>3, <1>1
<1>10. Len(<< >>) = 0
  OBVIOUS
<1>11. Passing(s, << >>, a, ct, n)
  <2> DEFINE e == << >>
  <2>1. Len(e) = 0
    BY <1>10
  <2> HIDE DEF e
  <2>2. Passing(s, e, a, ct, n)
    BY <1>1, <1>4, <1>8, <1>9, <2>1 DEF Passing
  <2> QED BY <2>2 DEF e
<1> QED BY <1>11 DEF s, a

(* The host has taken the oldest message.                                  *)
LEMMA PassTail ==
    ASSUME NEW u \in Seq(Seq(Nbufs)), u # << >>, NEW rd, NEW st, NEW ct, NEW n, Passing(u, rd, st, ct, n)
    PROVE  Passing(Tail(u), rd, st, ct, n) /\ RightFrame(Head(u), ct)
<1> DEFINE k == Len(u)
           s == Tail(u)
<1>1. k \in Nat /\ k >= 1 /\ Len(s) = k - 1 /\ Head(u) = u[1] /\ \A i \in 1 .. k - 1 : s[i] = u[i + 1]
  OBVIOUS
<1>2. /\ \A i \in 1 .. k : RightFrame(u[i], ct) /\ FrameId(u[i]) <= st
      /\ \A i \in 2 .. k : FrameId(u[i - 1]) < FrameId(u[i])
  BY DEF Passing
<1> HIDE DEF k, s
<1>3. \A i \in 1 .. k - 1 : RightFrame(s[i], ct) /\ FrameId(s[i]) <= st
  BY <1>1, <1>2
<1>4. ASSUME NEW i \in 2 .. k - 1
      PROVE  FrameId(s[i - 1]) < FrameId(s[i])
  <2>1. s[i] = u[i + 1] /\ s[i - 1] = u[(i - 1) + 1] /\ (i - 1) + 1 = (i + 1) - 1 /\ i + 1 \in 2 .. k
    BY <1>1
  <2> QED BY <2>1, <1>2
<1>5. RightFrame(u[1], ct)
  BY <1>1, <1>2
<1>6. Passing(s, rd, st, ct, n)
  BY <1>1, <1>3, <1>4 DEF Passing
<1> QED BY <1>1, <1>5, <1>6 DEF s

(* More frames may have come, and lengths may not be trusted any more.     *)
LEMMA PassLater ==
    ASSUME NEW u, NEW rd \in Seq(Seq(Nbufs)), NEW st \in Nat, NEW ct \in BOOLEAN, NEW n \in Nat, Passing(u, rd, st, ct, n),
           NEW c \in BOOLEAN, ct => c, NEW m \in Nat, n <= m
    PROVE  Passing(u, rd, st, c, m)
<1>1. \A fr : RightFrame(fr, ct) => RightFrame(fr, c)
  BY DEF RightFrame
<1>2. \A i \in 1 .. Len(rd) : FrameId(rd[i]) \in Nat
  <2> TAKE i \in 1 .. Len(rd)
  <2>1. RightFrame(rd[i], ct)
    BY DEF Passing
  <2> QED BY <2>1, RxAssumption DEF RightFrame
<1>3. \A i \in 1 .. Len(rd) : FrameId(rd[i]) <= m
  BY <1>2 DEF Passing
<1>4. st <= m
  BY DEF Passing
<1> QED BY <1>1, <1>3, <1>4 DEF Passing
-----------------------------------------------------------------------------
(* The handler takes a descriptor out of the ring.                         *)

(* The fields of the records.                                              *)
LEMMA Fields ==
    ASSUME TypeInv
    PROVE  /\ sc.rxdesc \in Seq(Descs) /\ sc.idle \in Seq(Descs) /\ sc.pool \in Nat
           /\ sc.held \in DescOrNull /\ sc.rxlink \in DescOrNull
           /\ desc \in [Descs -> RxDescs]
           /\ ready \in Seq(Seq(Nbufs)) /\ up \in Seq(Seq(Nbufs))
           /\ loc.at \in Places /\ loc.cnt \in Nat /\ loc.bf \in Nat /\ loc.frame \in Seq(Nbufs)
           /\ loc.frags \in Nat
           /\ hw.rxdp \in DescOrNull /\ hw.seg \in SegsOrNone /\ hw.frames \in Nat /\ hw.frames <= MaxFrames
           /\ sent \in Nat /\ starts \in Nat
BY RxAssumption DEF TypeInv

(* Where ath_rxdesc_init leaves the MAC.                                   *)
LEMMA InitHwFields ==
    ASSUME TypeInv, NEW s, s.held \in Descs, s.rxlink \in DescOrNull, NEW h, h = InitHw(s)
    PROVE  /\ h.rxdp = (IF s.rxlink = NoDesc THEN s.held ELSE hw.rxdp) /\ h.seg = hw.seg
           /\ h.frames = hw.frames /\ h.isr = hw.isr /\ h.rxe = TRUE
           /\ h \in [rxdp : DescOrNull, rxe : BOOLEAN, isr : BOOLEAN, seg : SegsOrNone, frames : 0 .. MaxFrames]
<1>1. s.held # NoDesc /\ s.held \in DescOrNull
  BY NoneApart DEF DescOrNull
<1>2. h = [hw EXCEPT !.rxdp = IF s.rxlink = NoDesc THEN s.held ELSE @, !.rxe = TRUE]
  BY <1>1 DEF InitHw
<1>3. hw \in [rxdp : DescOrNull, rxe : BOOLEAN, isr : BOOLEAN, seg : SegsOrNone, frames : 0 .. MaxFrames]
  BY DEF TypeInv
<1> QED BY <1>1, <1>2, <1>3

(* When it is off, it stands at a descriptor that is not done.             *)
LEMMA InitHwStill ==
    ASSUME TypeInv, NEW s, s.held \in Descs, s.rxlink \in DescOrNull, NEW h, h = InitHw(s),
           NEW D, MacStill(hw, D, s.rxlink), NEW F, \A e : e \in F <=> e \in D /\ e # s.held, NEW k
    PROVE  MacStill(h, F, k)
<1>1. h.rxdp = (IF s.rxlink = NoDesc THEN s.held ELSE hw.rxdp) /\ h.seg = hw.seg
  BY InitHwFields
<1>2. h.rxdp \notin F
  <2>1. CASE s.rxlink = NoDesc
    BY <2>1, <1>1
  <2>2. CASE s.rxlink # NoDesc
    BY <2>2, <1>1 DEF MacStill
  <2> QED BY <2>1, <2>2
<1> QED BY <1>1, <1>2 DEF MacStill

(* A state of the handler is one of the running ring.                      *)
LEMMA RunningPlace ==
    ASSUME IInv, loc.at \notin {"poll", "start"}
    PROVE  \E z, w \in Nat : Running(z, w)
<1>1. ~Fresh
  BY DEF Fresh, Polling
<1>2. ~(\E k \in Nat : Building(k))
  BY DEF Building
<1> QED BY <1>1, <1>2 DEF IInv

(* The ring after a descriptor has been taken.                             *)
Taken(q, n, z, w, y) ==
    LET r == sc'.rxdesc
    IN  /\ sc' \in [rxdesc : Seq(Descs), idle : Seq(Descs), held : DescOrNull,
                    rxlink : DescOrNull, pool : Nat]
        /\ hw' \in [rxdp : DescOrNull, rxe : BOOLEAN, isr : BOOLEAN, seg : SegsOrNone, frames : 0 .. MaxFrames]
        /\ desc' \in [Descs -> RxDescs]
        /\ y \in {z - 1, z} /\ Len(r) \in {n - 1, n} /\ (\A i \in 1 .. n - 1 : r[i] = q[i + 1])
        /\ Lists(r, sc'.idle) /\ Bare(sc'.idle, NbufOf(desc'), LenOf(desc'))
        /\ Ring(r, y, w - 1, NbufOf(desc'), DoneOf(desc'), LinkOf(desc')) /\ sc'.held = r[Len(r)]
        /\ \A i \in 2 .. n - 1 : DataOf(desc')[q[i]] = DataOf(desc)[q[i]] /\ LenOf(desc')[q[i]] = LenOf(desc)[q[i]]
        /\ Len(r) = n => LenOf(desc')[q[n]] = NoLen
        /\ hw'.seg = hw.seg /\ hw'.frames = hw.frames
        /\ IF on THEN hw'.rxdp = hw.rxdp /\ y = Len(r) - 1 /\ sc'.rxlink = r[Len(r) - 1]
           ELSE MacOff(hw', r, y, DoneOf(desc'), sc'.rxlink)
        /\ sc'.pool + Cardinality(NbufOf(desc')) = (sc.pool + Cardinality(NbufOf(desc))) - 1
        /\ sc'.idle = << >> \/ sc'.pool = 0

(* The buffers of all descriptors can be counted.                          *)
LEMMA Attachable ==
    ASSUME NEW B, B \subseteq Descs
    PROVE  /\ IsFiniteSet(B) /\ Cardinality(B) \in Nat /\ Cardinality(B) <= NumDescs
           /\ Cardinality(Descs) = NumDescs /\ IsFiniteSet(Descs)
<1>1. IsFiniteSet(Descs) /\ Cardinality(Descs) = NumDescs
  <2>1. NumDescs \in Nat /\ NumDescs - 1 + 1 = NumDescs
    BY RxAssumption
  <2> QED BY <2>1, RxAssumption, FS_Interval DEF Descs
<1>2. IsFiniteSet(B) /\ Cardinality(B) <= Cardinality(Descs)
  BY <1>1, FS_Subset
<1>3. Cardinality(B) \in Nat
  BY <1>2, FS_CardinalityType
<1> QED BY <1>1, <1>2, <1>3

(* A descriptor gets a buffer.                                             *)
LEMMA AttachOne ==
    ASSUME NEW B, B \subseteq Descs, NEW E, NEW h \in Descs, h \notin B,
           \A e : e \in E <=> e \in B \/ e = h
    PROVE  Cardinality(E) = Cardinality(B) + 1
<1>1. E = B \cup {h}
  OBVIOUS
<1> QED BY <1>1, Attachable, FS_AddElement

(* A descriptor loses its buffer.                                          *)
LEMMA DetachOne ==
    ASSUME NEW B, B \subseteq Descs, NEW E, NEW h \in B,
           \A e : e \in E <=> e \in B /\ e # h
    PROVE  Cardinality(E) = Cardinality(B) - 1
<1>1. E = B \ {h}
  OBVIOUS
<1> QED BY <1>1, Attachable, FS_RemoveElement

(* ath_rxdesc_init, or the idle list when there is no memory, makes a ring *)
(* of the rest.                                                            *)
LEMMA TakenRing ==
    ASSUME IInv, TakeDesc, loc.at = "take", NEW z \in Nat, NEW w \in Nat, Running(z, w), w >= 1, z >= 2,
           loc.head = sc.rxdesc[1]
    PROVE  \E y \in Nat : Taken(sc.rxdesc, Len(sc.rxdesc), z, w, y)
<1> DEFINE q == sc.rxdesc
           n == Len(q)
           d == q[1]
           h == q[n]
           B == NbufOf(desc)  D == DoneOf(desc)  L == LinkOf(desc)
           A == DataOf(desc)  N == LenOf(desc)
           m == [desc EXCEPT ![d] = [@ EXCEPT !.nbuf = FALSE, !.data = NoSeg, !.len = NoLen]]
<1>1. TypeInv /\ Lists(q, sc.idle) /\ Bare(sc.idle, B, N)
  BY DEF IInv
<1>2. /\ q \in Seq(Descs) /\ sc.idle \in Seq(Descs) /\ sc.pool \in Nat
      /\ sc.rxlink \in DescOrNull /\ desc \in [Descs -> RxDescs]
  BY <1>1, Fields
<1>3. Ring(q, z, w, B, D, L) /\ sc.held = h
  BY DEF Running
<1>4. n \in Nat /\ z \in 1 .. n - 1 /\ w \in 0 .. z /\ (\A i \in 1 .. n : q[i] \in Descs) /\ n >= 3
  BY <1>2, <1>3 DEF Ring
<1>5. \A i, j \in 1 .. n : q[i] = q[j] => i = j
  BY <1>1 DEF Lists
<1>6. d \in Descs /\ h \in Descs /\ d # h /\ d \in B /\ h \notin B
  BY <1>3, <1>4, <1>5 DEF Ring
<1>7. StripViews(desc, m, d)
  BY <1>2, <1>6, Stripped
<1>8. IF on THEN MacOn(hw, q, z, w, A, sc.rxlink) ELSE MacOff(hw, q, z, D, sc.rxlink)
  BY DEF Running
<1>9. /\ on => z = n - 1 /\ sc.rxlink = q[n - 1]
      /\ ~on => /\ MacStill(hw, D, sc.rxlink)
                /\ sc.rxlink = NoDesc \/ (sc.rxlink = q[n - 1] /\ z < n - 1)
  BY <1>8 DEF MacOn, MacOff
<1>10. sc.idle = << >> \/ sc.pool = 0
  BY DEF IInv, Balanced
<1>11. HandIn(sc, m, d)
  BY DEF TakeDesc
<1>12. InitFails(sc, m) <=> sc.pool = 0
  <2>1. h \notin NbufOf(m)
    BY <1>6, <1>7 DEF StripViews
  <2>2. ~m[h].nbuf
    BY <2>1, <1>6, Zenon DEF NbufOf
  <2>3. h # NoDesc
    BY <1>6, NoneApart
  <2> QED BY <1>3, <2>2, <2>3 DEF InitFails
<1>13. Without(q, d) = Tail(q)
  <2>1. q \in Seq(Descs) /\ Len(q) >= 1 /\ \A i, j \in 1 .. Len(q) : q[i] = q[j] => i = j
    BY <1>2, <1>4, <1>5
  <2> HIDE DEF q
  <2> QED BY <2>1, WithoutFirst
<1>14. B \subseteq Descs /\ NbufOf(m) \subseteq Descs
  BY DEF NbufOf
<1>15. Cardinality(NbufOf(m)) = Cardinality(B) - 1 /\ Cardinality(B) \in Nat
  <2>1. \A e : e \in NbufOf(m) <=> e \in B /\ e # d
    BY <1>7, Zenon DEF StripViews
  <2> HIDE DEF B, m, d
  <2>2. Cardinality(NbufOf(m)) = Cardinality(B) - 1
    BY <2>1, <1>14, <1>6, DetachOne
  <2> QED BY <2>2, <1>14, Attachable
<1>16. /\ m \in [Descs -> RxDescs]
       /\ \A e : e \in NbufOf(m) <=> e \in B /\ e # d
       /\ \A e : e \in DoneOf(m) <=> e \in D
       /\ \A e \in Descs : LinkOf(m)[e] = L[e] /\ (e # d => DataOf(m)[e] = A[e] /\ LenOf(m)[e] = N[e])
       /\ LenOf(m)[d] = NoLen
  BY <1>7, Zenon DEF StripViews
<1>17. \A i \in 2 .. n - 1 : q[i] \in Descs /\ q[i] # d /\ q[i] # h
  BY <1>4, <1>5
<1>18. hw \in [rxdp : DescOrNull, rxe : BOOLEAN, isr : BOOLEAN, seg : SegsOrNone, frames : 0 .. MaxFrames]
  BY <1>1 DEF TypeInv
<1> HIDE DEF q, n, d, h, B, D, L, A, N, m
<1>19. CASE sc.pool = 0
  <2>1. /\ sc' = [sc EXCEPT !.rxdesc = Without(@, d), !.idle = Append(@, d)]
        /\ desc' = m /\ hw' = hw
    BY <1>11, <1>12, <1>19 DEF HandIn
  <2> DEFINE r == Tail(q)
             s == Append(sc.idle, d)
  <2>2. /\ sc'.rxdesc = r /\ sc'.idle = s /\ sc'.held = h /\ sc'.rxlink = sc.rxlink /\ sc'.pool = 0
        /\ sc' \in [rxdesc : Seq(Descs), idle : Seq(Descs), held : DescOrNull, rxlink : DescOrNull, pool : Nat]
    <3>1. r \in Seq(Descs) /\ s \in Seq(Descs)
      BY <1>2, <1>4, <1>6, TailIs, AppendIs DEF n
    <3> HIDE DEF r, s
    <3>2. sc' = [sc EXCEPT !.rxdesc = r, !.idle = s]
      BY <2>1, <1>13 DEF q, r, s
    <3>3. sc \in [rxdesc : Seq(Descs), idle : Seq(Descs), held : DescOrNull, rxlink : DescOrNull, pool : Nat]
      BY <1>1 DEF TypeInv
    <3> QED BY <3>1, <3>2, <3>3, <1>3, <1>19
  <2>3. Len(r) = n - 1 /\ \A i \in 1 .. n - 1 : r[i] = q[i + 1]
    BY <1>2, <1>4, TailIs DEF n
  <2>4. Len(s) = Len(sc.idle) + 1 /\ s[Len(sc.idle) + 1] = d /\ \A i \in 1 .. Len(sc.idle) : s[i] = sc.idle[i]
    BY <1>2, <1>6, AppendIs
  <2> HIDE DEF r, s
  <2>5. Lists(r, s)
    <3>1. /\ Len(q) >= 1 /\ Len(r) = Len(q) - 1 /\ (\A i \in 1 .. Len(q) - 1 : r[i] = q[i + 1])
          /\ s[Len(sc.idle) + 1] = q[1]
      BY <1>4, <2>3, <2>4 DEF n, d
    <3>2. Dropped(q, sc.idle, r, s)
      BY <3>1, <2>4, Zenon DEF Dropped
    <3> QED BY <3>2, <1>1, <1>2, DropList
  <2>6. Bare(s, NbufOf(m), LenOf(m))
    <3>1. ASSUME NEW e \in Descs, e \notin NbufOf(m)
          PROVE  LenOf(m)[e] = NoLen
      <4>1. CASE e = d
        BY <4>1, <1>16
      <4>2. CASE e # d
        BY <4>2, <3>1, <1>1, <1>16 DEF Bare
      <4> QED BY <4>1, <4>2
    <3>2. ASSUME NEW i \in 1 .. Len(s)
          PROVE  s[i] \notin NbufOf(m)
      <4>1. CASE i = Len(sc.idle) + 1
        BY <4>1, <2>4, <1>16
      <4>2. CASE i # Len(sc.idle) + 1
        <5>1. i \in 1 .. Len(sc.idle)
          BY <4>2, <2>4, <1>2
        <5>2. s[i] = sc.idle[i] /\ sc.idle[i] \notin B
          BY <5>1, <2>4, <1>1 DEF Bare
        <5> QED BY <5>2, <1>16
      <4> QED BY <4>1, <4>2
    <3> QED BY <3>1, <3>2 DEF Bare
  <2>7. Ring(r, z - 1, w - 1, NbufOf(m), DoneOf(m), LinkOf(m))
    <3>1. \A i \in 1 .. n : LinkOf(m)[q[i]] = L[q[i]]
      BY <1>4, <1>16
    <3>2. Len(q) = n
      BY DEF n
    <3>3. \A e : e \in NbufOf(m) <=> (e \in B /\ e # q[1])
      BY <1>16 DEF d
    <3>4. \A e : e \in DoneOf(m) <=> e \in D
      BY <1>16
    <3>5. n \in Nat /\ Ring(q, z, w, B, D, L)
      BY <1>3, <1>4
    <3> DEFINE E == NbufOf(m)  F == DoneOf(m)  K == LinkOf(m)
    <3> HIDE DEF E, F, K
    <3>6. /\ \A e : e \in E <=> (e \in B /\ e # q[1])
          /\ \A e : e \in F <=> e \in D
          /\ \A i \in 1 .. n : K[q[i]] = L[q[i]]
      BY <3>1, <3>3, <3>4 DEF E, F, K
    <3>7. Ring(r, z - 1, w - 1, E, F, K)
      <4>1. Drops(q, r, n, B, D, L, E, F, K)
        BY <3>5, <1>5, <2>3, <3>2, <3>6, Zenon DEF Drops
      <4> QED BY <4>1, <3>5, DropRing
    <3> QED BY <3>7 DEF E, F, K
  <2>8. r[n - 1] = h
    <3>1. n - 1 \in 1 .. n - 1 /\ (n - 1) + 1 = n
      BY <1>4
    <3>2. r[n - 1] = q[(n - 1) + 1]
      BY <2>3, <3>1
    <3> QED BY <3>1, <3>2 DEF h
  <2>9. r[Len(r) - 1] = q[n - 1]
    <3>1. n - 2 \in 1 .. n - 1 /\ (n - 2) + 1 = n - 1 /\ Len(r) - 1 = n - 2
      BY <1>4, <2>3
    <3>2. r[n - 2] = q[(n - 2) + 1]
      BY <2>3, <3>1
    <3> QED BY <3>1, <3>2
  <2>10. IF on THEN hw'.rxdp = hw.rxdp /\ z - 1 = Len(r) - 1 /\ sc'.rxlink = r[Len(r) - 1]
         ELSE MacOff(hw', r, z - 1, DoneOf(m), sc'.rxlink)
    <3>1. CASE on
      BY <3>1, <1>9, <2>1, <2>2, <2>3, <2>9
    <3>2. CASE ~on
      <4>1. MacStill(hw, DoneOf(m), sc.rxlink)
        BY <3>2, <1>9, <1>16 DEF MacStill
      <4>2. sc.rxlink = NoDesc \/ (sc.rxlink = r[Len(r) - 1] /\ z - 1 < Len(r) - 1)
        BY <3>2, <1>9, <2>3, <2>9, <1>4
      <4> QED BY <3>2, <4>1, <4>2, <2>1, <2>2 DEF MacOff
    <3> QED BY <3>1, <3>2
  <2>11. \A i \in 2 .. n - 1 : DataOf(m)[q[i]] = A[q[i]] /\ LenOf(m)[q[i]] = N[q[i]]
    BY <1>16, <1>17
  <2>12. 0 + Cardinality(NbufOf(m)) = (sc.pool + Cardinality(B)) - 1
    BY <1>15, <1>19
  <2>13. Len(r) # n
    BY <2>3, <1>4
  <2>14. Taken(q, n, z, w, z - 1)
    BY <1>18, <1>16, <2>1, <2>2, <2>3, <2>5, <2>6, <2>7, <2>8, <2>10, <2>11, <2>12, <2>13
       DEF Taken, A, B, N
  <2>15. z - 1 \in Nat
    BY <1>4
  <2> QED BY <2>14, <2>15 DEF q, n
<1>20. CASE sc.pool # 0
  <2>1. /\ sc' = [InitSc(sc, m, d) EXCEPT !.rxdesc = Append(Without(@, d), d)]
        /\ desc' = InitDesc(sc, m) /\ hw' = InitHw(sc)
    BY <1>11, <1>12, <1>20 DEF HandIn
  <2> DEFINE r == Append(Tail(q), d)
             E == NbufOf(desc')
             F == DoneOf(desc')
             y == IF on THEN z ELSE z - 1
  <2>2. /\ r \in Seq(Descs) /\ Len(r) = n /\ r[n] = d
        /\ \A i \in 1 .. n - 1 : r[i] = q[i + 1]
        /\ Lists(r, sc.idle)
    <3>1. Len(q) >= 1 /\ r = Append(Tail(q), q[1])
      BY <1>4 DEF n, d
    <3> HIDE DEF r
    <3>2. /\ r \in Seq(Descs) /\ Len(r) = Len(q) /\ r[Len(q)] = q[1]
          /\ (\A i \in 1 .. Len(q) - 1 : r[i] = q[i + 1]) /\ Lists(r, sc.idle)
      <4>1. Turned(q, r)
        BY <3>1 DEF Turned
      <4> QED BY <4>1, <1>1, <1>2, TurnList
    <3> QED BY <3>2 DEF n, d
  <2> HIDE DEF r
  <2>3. /\ sc'.rxdesc = r /\ sc'.idle = sc.idle /\ sc'.held = d /\ sc'.rxlink = h /\ sc'.pool = sc.pool - 1
        /\ sc' \in [rxdesc : Seq(Descs), idle : Seq(Descs), held : DescOrNull, rxlink : DescOrNull, pool : Nat]
    <3>1. h \notin NbufOf(m) /\ h # NoDesc
      BY <1>6, <1>16, NoneApart
    <3>2. ~m[h].nbuf
      BY <3>1, <1>6, Zenon DEF NbufOf
    <3>3. InitSc(sc, m, d) = [sc EXCEPT !.held = d, !.rxlink = h, !.pool = @ - 1]
      BY <1>3, <3>1, <3>2 DEF InitSc
    <3>4. sc \in [rxdesc : Seq(Descs), idle : Seq(Descs), held : DescOrNull, rxlink : DescOrNull, pool : Nat]
      BY <1>1 DEF TypeInv
    <3>5. InitSc(sc, m, d).rxdesc = q
      BY <3>3, <3>4 DEF q
    <3>6. sc' = [[sc EXCEPT !.held = d, !.rxlink = h, !.pool = @ - 1] EXCEPT !.rxdesc = r]
      BY <2>1, <3>3, <3>5, <1>13 DEF r
    <3>7. d \in DescOrNull /\ h \in DescOrNull /\ sc.pool - 1 \in Nat
      BY <1>2, <1>6, <1>20 DEF DescOrNull
    <3> QED BY <3>4, <3>6, <3>7, <2>2
  <2>4. InitViews(m, desc', h, sc.rxlink)
    BY <1>3, <1>6, <1>16, <2>1, InitDescViews
  <2>5. /\ desc' \in [Descs -> RxDescs]
        /\ \A e : e \in E <=> (e \in B /\ e # d) \/ e = h
        /\ \A e : e \in F <=> e \in D /\ e # h
        /\ \A e \in Descs :
             /\ LinkOf(desc')[e] = IF e = h THEN NoDesc ELSE IF e = sc.rxlink THEN h ELSE L[e]
             /\ e # d /\ e # h => DataOf(desc')[e] = A[e] /\ LenOf(desc')[e] = N[e]
             /\ e = d => LenOf(desc')[e] = NoLen
    <3>1. /\ desc' \in [Descs -> RxDescs]
          /\ \A e : e \in E <=> e \in NbufOf(m) \/ e = h
          /\ \A e : e \in F <=> e \in DoneOf(m) /\ e # h
          /\ \A e \in Descs :
               /\ LinkOf(desc')[e] = IF e = h THEN NoDesc ELSE IF e = sc.rxlink THEN h ELSE LinkOf(m)[e]
               /\ DataOf(desc')[e] = IF e = h THEN NoSeg ELSE DataOf(m)[e]
               /\ LenOf(desc')[e] = IF e = h /\ h \notin NbufOf(m) THEN NoLen ELSE LenOf(m)[e]
      BY <2>4, Zenon DEF InitViews
    <3> HIDE DEF E, F
    <3> QED BY <3>1, <1>6, <1>16
  <2>6. LenOf(desc')[h] = NoLen
    <3>1. LenOf(desc')[h] = IF h = h /\ h \notin NbufOf(m) THEN NoLen ELSE LenOf(m)[h]
      BY <2>4, <1>6, Zenon DEF InitViews
    <3> QED BY <3>1, <1>6, <1>16
  <2> HIDE DEF E, F
  <2>7. Bare(sc.idle, E, LenOf(desc'))
    <3>1. ASSUME NEW e \in Descs, e \notin E
          PROVE  LenOf(desc')[e] = NoLen
      <4>1. CASE e = d
        BY <4>1, <2>5
      <4>2. CASE e # d
        BY <4>2, <3>1, <1>1, <2>5 DEF Bare
      <4> QED BY <4>1, <4>2
    <3>2. ASSUME NEW i \in 1 .. Len(sc.idle)
          PROVE  sc.idle[i] \notin E
      <4>1. sc.idle[i] \notin B
        BY <1>1 DEF Bare
      <4>2. sc.idle[i] # h
        BY <1>1, <1>4 DEF Lists, h, n
      <4> QED BY <4>1, <4>2, <2>5
    <3> QED BY <3>1, <3>2 DEF Bare
  <2>8. y \in Nat /\ y \in {z, z - 1}
    BY <1>4
  <2>9. \/ z = n - 1 /\ sc.rxlink = q[n - 1] /\ y = z
        \/ (sc.rxlink = NoDesc \/ (sc.rxlink = q[n - 1] /\ z < n - 1)) /\ y = z - 1
    BY <1>9
  <2>10. (~on => y = z - 1) /\ (on => y = z)
    OBVIOUS
  <2> HIDE DEF y
  <2>11. Ring(r, y, w - 1, E, F, LinkOf(desc'))
    <3>1. Len(q) = n
      BY DEF n
    <3>2. /\ r[n] = q[1]
          /\ \A e : e \in E <=> (e \in B /\ e # q[1]) \/ e = q[n]
          /\ \A e : e \in F <=> e \in D /\ e # q[n]
      BY <2>2, <2>5 DEF d, h
    <3>3. \A e \in Descs : LinkOf(desc')[e] = IF e = q[n] THEN NoDesc ELSE IF e = sc.rxlink THEN q[n] ELSE L[e]
      BY <2>5 DEF h
    <3> DEFINE K == LinkOf(desc')
               k == sc.rxlink
    <3> HIDE DEF K, k
    <3>4. /\ n \in Nat /\ Len(r) = n /\ (\A i \in 1 .. n : q[i] \in Descs)
          /\ \A i \in 1 .. n - 1 : r[i] = q[i + 1]
      BY <1>4, <2>2
    <3>5. \A e \in Descs : K[e] = IF e = q[n] THEN NoDesc ELSE IF e = k THEN q[n] ELSE L[e]
      BY <3>3 DEF K, k
    <3>6. \/ z = n - 1 /\ k = q[n - 1] /\ y = z
          \/ (k = NoDesc \/ (k = q[n - 1] /\ z < n - 1)) /\ y = z - 1
      BY <2>9 DEF k
    <3>7. Ring(r, y, w - 1, E, F, K)
      <4>1. Turns(q, r, n, B, D, L, E, F, K, k)
        BY <1>5, <3>1, <3>2, <3>4, <3>5, Zenon DEF Turns
      <4> QED BY <4>1, <1>3, <2>8, <3>6, TurnRing
    <3> QED BY <3>7 DEF K
  <2>12. r[n - 1] = h
    <3>1. n - 1 \in 1 .. n - 1 /\ (n - 1) + 1 = n
      BY <1>4
    <3>2. r[n - 1] = q[(n - 1) + 1]
      BY <2>2, <3>1
    <3> QED BY <3>1, <3>2 DEF h
  <2>13. /\ hw'.rxdp = (IF sc.rxlink = NoDesc THEN h ELSE hw.rxdp) /\ hw'.seg = hw.seg /\ hw'.frames = hw.frames
         /\ hw' \in [rxdp : DescOrNull, rxe : BOOLEAN, isr : BOOLEAN, seg : SegsOrNone, frames : 0 .. MaxFrames]
    BY <1>1, <1>2, <1>3, <1>6, <2>1, InitHwFields
  <2>14. IF on THEN hw'.rxdp = hw.rxdp /\ y = Len(r) - 1 /\ sc'.rxlink = r[Len(r) - 1]
         ELSE MacOff(hw', r, y, F, sc'.rxlink)
    <3>1. CASE on
      <4>1. sc.rxlink # NoDesc
        <5>1. n - 1 \in 1 .. n
          BY <1>4
        <5> QED BY <5>1, <3>1, <1>4, <1>9, NoneApart
      <4> QED BY <3>1, <4>1, <1>9, <2>2, <2>3, <2>10, <2>12, <2>13
    <3>2. CASE ~on
      <4>1. MacStill(hw', F, h)
        BY <3>2, <1>1, <1>2, <1>3, <1>6, <1>9, <2>1, <2>5, InitHwStill, ZenonT(60)
      <4>2. h = r[Len(r) - 1] /\ y < Len(r) - 1
        BY <3>2, <1>4, <2>2, <2>10, <2>12
      <4> QED BY <3>2, <4>1, <4>2, <2>3 DEF MacOff
    <3> QED BY <3>1, <3>2
  <2>15. \A i \in 2 .. n - 1 : DataOf(desc')[q[i]] = A[q[i]] /\ LenOf(desc')[q[i]] = N[q[i]]
    BY <1>17, <2>5
  <2>16. (sc.pool - 1) + Cardinality(E) = (sc.pool + Cardinality(B)) - 1
    <3>1. h \notin NbufOf(m) /\ \A e : e \in E <=> e \in NbufOf(m) \/ e = h
      BY <2>5, <1>6, <1>16
    <3>2. Cardinality(E) = Cardinality(NbufOf(m)) + 1
      BY <3>1, <1>6, <1>14, AttachOne
    <3> QED BY <3>2, <1>15, <1>2
  <2>17. sc.idle = << >>
    BY <1>10, <1>20
  <2>18. Taken(q, n, z, w, y)
    BY <2>8, <2>2, <2>3, <2>5, <2>6, <2>7, <2>11, <2>13, <2>14, <2>15, <2>16, <2>17
       DEF Taken, A, B, N, E, F, h
  <2> QED BY <2>8, <2>18 DEF q, n
<1> QED BY <1>19, <1>20

(* What a step has to keep besides the ring.                               *)
LEMMA FromRing ==
    ASSUME TypeInv', NEW z \in Nat, NEW w \in Nat, Running(z, w)',
           Lists(sc'.rxdesc, sc'.idle), Bare(sc'.idle, NbufOf(desc'), LenOf(desc')),
           Passing(up', ready', sent', cut', hw'.frames),
           Balanced(sc'.pool, sc'.idle, NbufOf(desc'), BuffersIn(ready', up', loc'), starts', loc'.at)
    PROVE  IInv'
<1>1. (\E y, v \in Nat : Running(y, v))'
  OBVIOUS
<1> QED BY <1>1 DEF IInv

(* A descriptor of a frame is taken.                                       *)
LEMMA TakeStep ==
    ASSUME IInv, TakeDesc
    PROVE  IInv'
<1> DEFINE q == sc.rxdesc
           n == Len(q)
           b == Len(loc.frame)
           A == DataOf(desc)  N == LenOf(desc)
           C == DataOf(desc')  M == LenOf(desc')
           r == sc'.rxdesc
           fr == Append(loc.frame, [data |-> desc[loc.head].data, len |-> desc[loc.head].len])
           lo == LastOf(ready, sent)
<1>1. TypeInv
  BY DEF IInv
<1>2. loc.at \in {"take", "drop"} /\ loc.at \notin {"poll", "start"}
  BY DEF TakeDesc
<1>3. PICK z \in Nat, w \in Nat : Running(z, w)
  BY <1>2, RunningPlace
<1>4. At(loc, sc, ready, z, w, A, N, hw, on, cut)
  BY <1>3 DEF Running
<1>5. loc.at = "take" /\ TakeAt(loc, q, z, w, A, N, hw, on, cut) /\ loc.bf = Len(ready) + 1
  BY <1>2, <1>4 DEF At
<1>6. loc.head = q[1] /\ loc.cnt = 0 /\ loc.frags = 0
  BY <1>5 DEF TakeAt
<1>7. PICK t \in 1 .. z - 1 :
        /\ loc.tail = q[t] /\ loc.ds = q[t + 1] /\ b + t <= MaxSegs
        /\ Scanned(q, t, w, A, N, b, b + t, hw, on, cut)
        /\ \A j \in 1 .. b :
             /\ loc.frame[j].data = <<A[q[1]][1], j, b + t>>
             /\ cut \/ loc.frame[j].len = <<loc.frame[j].data>>
  BY <1>5 DEF TakeAt
<1>8. /\ Ring(q, z, w, NbufOf(desc), DoneOf(desc), LinkOf(desc)) /\ starts >= 1
      /\ Contents(q, w, A, b, lo, hw.frames) /\ Lengths(q, w, A, N, cut)
      /\ on => MacOn(hw, q, z, w, A, sc.rxlink)
  BY <1>3 DEF Running
<1>9. /\ q \in Seq(Descs) /\ n \in Nat /\ loc.frame \in Seq(Nbufs) /\ b \in Nat /\ desc \in [Descs -> RxDescs]
      /\ ready \in Seq(Seq(Nbufs)) /\ up \in Seq(Seq(Nbufs)) /\ sent \in Nat /\ hw.frames \in Nat
      /\ loc.bf \in Nat /\ loc.ds \in DescOrNull /\ loc.tail \in DescOrNull /\ starts \in Nat
      /\ cut \in BOOLEAN /\ on \in BOOLEAN
  BY <1>1, Fields DEF TypeInv
<1>10. z <= n - 1 /\ w <= z /\ w >= 1 /\ z >= 2 /\ t <= w /\ t \in Nat /\ t >= 1 /\ n >= 3
       /\ z \in Nat /\ w \in Nat /\ t <= z - 1
  BY <1>7, <1>8, <1>9, SMTT(60) DEF Ring, Scanned
<1>11. PICK y \in Nat : Taken(q, n, z, w, y)
  BY <1>3, <1>5, <1>6, <1>10, TakenRing
<1>12. /\ Len(r) \in {n - 1, n} /\ (\A i \in 1 .. n - 1 : r[i] = q[i + 1]) /\ y \in {z - 1, z} /\ y \in Nat
       /\ \A i \in 2 .. n - 1 : C[q[i]] = A[q[i]] /\ M[q[i]] = N[q[i]]
       /\ Len(r) = n => M[q[n]] = NoLen
       /\ Lists(r, sc'.idle) /\ Bare(sc'.idle, NbufOf(desc'), LenOf(desc'))
       /\ Ring(r, y, w - 1, NbufOf(desc'), DoneOf(desc'), LinkOf(desc')) /\ sc'.held = r[Len(r)]
       /\ hw'.seg = hw.seg /\ hw'.frames = hw.frames
       /\ IF on THEN hw'.rxdp = hw.rxdp /\ y = Len(r) - 1 /\ sc'.rxlink = r[Len(r) - 1]
          ELSE MacOff(hw', r, y, DoneOf(desc'), sc'.rxlink)
       /\ sc'.pool + Cardinality(NbufOf(desc')) = (sc.pool + Cardinality(NbufOf(desc))) - 1
       /\ sc'.idle = << >> \/ sc'.pool = 0
  BY <1>11, Zenon DEF Taken
<1>13. /\ sc' \in [rxdesc : Seq(Descs), idle : Seq(Descs), held : DescOrNull, rxlink : DescOrNull, pool : Nat]
       /\ hw' \in [rxdp : DescOrNull, rxe : BOOLEAN, isr : BOOLEAN, seg : SegsOrNone, frames : 0 .. MaxFrames]
       /\ desc' \in [Descs -> RxDescs]
  BY <1>11, Zenon DEF Taken
<1>14. q[1] \in Descs /\ A[q[1]] = desc[q[1]].data /\ N[q[1]] = desc[q[1]].len
       /\ desc[q[1]].data \in SegsOrNone /\ desc[q[1]].len \in Lens
  <2>1. q[1] \in Descs
    BY <1>9, <1>10
  <2> QED BY <2>1, <1>9, ViewTypes, DescFields
<1>15. fr \in Seq(Nbufs) /\ Len(fr) = b + 1 /\ (\A i \in 1 .. b : fr[i] = loc.frame[i])
       /\ fr[b + 1].data = A[q[1]] /\ fr[b + 1].len = N[q[1]]
  <2> DEFINE x == [data |-> desc[loc.head].data, len |-> desc[loc.head].len]
  <2>1. x \in Nbufs /\ x.data = A[q[1]] /\ x.len = N[q[1]]
    BY <1>6, <1>14 DEF Nbufs
  <2>2. fr = Append(loc.frame, x)
    OBVIOUS
  <2> HIDE DEF x, fr
  <2>3. /\ Append(loc.frame, x) \in Seq(Nbufs) /\ Len(Append(loc.frame, x)) = Len(loc.frame) + 1
        /\ \A i \in 1 .. Len(loc.frame) : Append(loc.frame, x)[i] = loc.frame[i]
        /\ Append(loc.frame, x)[Len(loc.frame) + 1] = x
    BY <2>1, <1>9, AppendIs
  <2> QED BY <2>1, <2>2, <2>3
<1>16. /\ HandIn(sc, [desc EXCEPT ![loc.head] = [@ EXCEPT !.nbuf = FALSE, !.data = NoSeg, !.len = NoLen]], loc.head)
       /\ UNCHANGED <<up, on, starts, sent, cut>>
       /\ ready' = IF loc.head = loc.tail THEN Append(ready, fr) ELSE ready
       /\ loc' = IF loc.head # loc.tail THEN [loc EXCEPT !.frame = fr, !.head = NextIn(sc.rxdesc, loc.head)]
                 ELSE [loc EXCEPT !.at = "scan", !.frame = << >>, !.bf = @ + 1, !.head = loc.ds]
  BY <1>5 DEF TakeDesc
<1>17. TakeLeft(q, r, w, A, N, C, M, b, t, lo, hw.frames, hw', on, cut)
  <2>1. Shifts(q, r, n, A, N, C, M)
    BY <1>9, <1>12, Zenon DEF Shifts, n
  <2>2. on => /\ MacOn(hw, q, z, w, A, sc.rxlink)
              /\ hw'.rxdp = hw.rxdp /\ hw'.seg = hw.seg /\ hw'.frames = hw.frames
    BY <1>8, <1>12
  <2> DEFINE h == hw  g == hw'  hi == hw.frames  o == on  ct == cut  k == sc.rxlink
  <2>3. Contents(q, w, A, b, lo, hi) /\ Lengths(q, w, A, N, ct) /\ Scanned(q, t, w, A, N, b, b + t, h, o, ct)
    BY <1>7, <1>8
  <2>4. o => MacOn(h, q, z, w, A, k) /\ g.rxdp = h.rxdp /\ g.seg = h.seg /\ g.frames = h.frames
    BY <2>2
  <2> HIDE DEF q, n, b, A, N, C, M, r, lo, h, g, hi, o, ct, k
  <2>5. TakeLeft(q, r, w, A, N, C, M, b, t, lo, hi, g, o, ct)
    BY <1>9, <1>10, <2>1, <2>3, <2>4, TakeShift
  <2> QED BY <2>5 DEF g, hi, o, ct
<1>18. /\ A[q[1]] = <<A[q[1]][1], b + 1, b + t>> /\ (cut \/ N[q[1]] = <<A[q[1]]>>)
       /\ A[q[1]] \in Segs /\ lo < A[q[1]][1] /\ A[q[1]][1] <= hw.frames
       /\ Lengths(r, w - 1, C, M, cut)
       /\ on => MacOn(hw', r, Len(r) - 1, w - 1, C, r[Len(r) - 1])
       /\ t >= 2 => /\ Contents(r, w - 1, C, b + 1, lo, hw.frames)
                    /\ Scanned(r, t - 1, w - 1, C, M, b + 1, (b + 1) + (t - 1), hw', on, cut)
                    /\ C[r[1]][1] = A[q[1]][1]
       /\ t = 1 => Contents(r, w - 1, C, 0, A[q[1]][1], hw.frames)
  BY <1>17, Zenon DEF TakeLeft
<1>19. IF on THEN MacOn(hw', r, y, w - 1, C, sc'.rxlink) ELSE MacOff(hw', r, y, DoneOf(desc'), sc'.rxlink)
  BY <1>12, <1>18
<1>20. w - 1 \in Nat
  BY <1>10
<1>21. loc \in [at : Places, ds : DescOrNull, head : DescOrNull, tail : DescOrNull,
                cnt : Nat, bf : Nat, frame : Seq(Nbufs), frags : Nat]
  BY <1>1 DEF TypeInv
<1>22. /\ Passing(up, ready, sent, cut, hw.frames)
       /\ Balanced(sc.pool, sc.idle, NbufOf(desc), BuffersIn(ready, up, loc), starts, "take")
  BY <1>5 DEF IInv
<1>23. Cardinality(NbufOf(desc')) \in Nat /\ Cardinality(NbufOf(desc)) \in Nat /\ sc.pool \in Nat /\ sc'.pool \in Nat
  BY <1>1, <1>13, Fields, Attachable DEF NbufOf
<1>24. Len(FlattenSeq(ready)) \in Nat /\ Len(FlattenSeq(up)) \in Nat
  BY <1>9, FlatCounts, FlatLen
<1>25. BuffersIn(ready, up, loc) = Len(FlattenSeq(ready)) + Len(FlattenSeq(up)) + b
  BY <1>5, <1>6, <1>24, <1>9 DEF BuffersIn
<1>26. q[1] = q[t] <=> t = 1
  <2>1. \A i, j \in 1 .. n : q[i] = q[j] => i = j
    BY DEF IInv, Lists
  <2> QED BY <2>1, <1>10
<1>27. r[1] = q[2] /\ r[t] = q[t + 1]
  <2>1. 1 \in 1 .. n - 1 /\ t \in 1 .. n - 1 /\ 1 + 1 = 2
    BY <1>9, <1>10
  <2> HIDE DEF n, q, r
  <2>2. r[1] = q[1 + 1] /\ r[t] = q[t + 1]
    BY <2>1, <1>12
  <2> QED BY <2>1, <2>2
<1> HIDE DEF q, n, b, A, N, C, M, r, fr, lo
<1>28. CASE t >= 2
  <2>1. loc.head # loc.tail
    BY <1>28, <1>6, <1>7, <1>26
  <2>2. ready' = ready /\ loc' = [loc EXCEPT !.frame = fr, !.head = q[2]]
    <3>1. NextIn(q, q[1]) = q[1 + 1]
      <4>1. \A i, j \in 1 .. Len(q) : q[i] = q[j] => i = j
        BY DEF IInv, Lists, q
      <4>2. 1 \in 1 .. Len(q) /\ 1 < Len(q) /\ q \in Seq(Descs)
        BY <1>9, <1>10 DEF n
      <4>3. NextIn(q, q[1]) = IF 1 < Len(q) THEN q[1 + 1] ELSE NoDesc
        BY <4>1, <4>2, NextInAt
      <4> QED BY <4>2, <4>3
    <3> QED BY <2>1, <3>1, <1>6, <1>16 DEF q
  <2>3. q[2] \in DescOrNull
    BY <1>9, <1>10 DEF DescOrNull, n
  <2>4. /\ loc' \in [at : Places, ds : DescOrNull, head : DescOrNull, tail : DescOrNull,
                     cnt : Nat, bf : Nat, frame : Seq(Nbufs), frags : Nat]
        /\ loc'.at = "take" /\ loc'.head = q[2] /\ loc'.tail = loc.tail /\ loc'.ds = loc.ds
        /\ loc'.cnt = 0 /\ loc'.bf = loc.bf /\ loc'.frame = fr /\ loc'.frags = 0
    BY <2>2, <2>3, <1>5, <1>6, <1>15, <1>21
  <2>5. TypeInv'
    BY <1>1, <1>13, <1>16, <2>2, <2>4 DEF TypeInv
  <2>6. TakeAt(loc', r, y, w - 1, C, M, hw', on, cut)
    <3>1. r[t - 1] = q[t]
      <4>1. t - 1 \in 1 .. n - 1 /\ (t - 1) + 1 = t
        BY <1>28, <1>9, <1>10
      <4>2. r[t - 1] = q[(t - 1) + 1]
        BY <4>1, <1>12
      <4> QED BY <4>1, <4>2
    <3>2. t - 1 \in 1 .. y - 1 /\ (t - 1) + 1 = t /\ Len(fr) + (t - 1) = b + t
      <4>1. b \in Nat /\ Len(fr) = b + 1 /\ t - 1 \in Nat /\ t - 1 >= 1
        BY <1>28, <1>9, <1>10, <1>15
      <4>2. t <= y /\ y \in Nat
        BY <1>10, <1>12
      <4> HIDE DEF fr
      <4> QED BY <1>10, <4>1, <4>2
    <3>3. Len(fr) + (t - 1) <= MaxSegs
      BY <3>2, <1>7
    <3>4. Scanned(r, t - 1, w - 1, C, M, Len(fr), Len(fr) + (t - 1), hw', on, cut)
      BY <1>28, <1>15, <1>18
    <3>5. ASSUME NEW j \in 1 .. Len(fr)
          PROVE  /\ fr[j].data = <<C[r[1]][1], j, Len(fr) + (t - 1)>>
                 /\ cut \/ fr[j].len = <<fr[j].data>>
      <4>1. C[r[1]][1] = A[q[1]][1]
        BY <1>28, <1>18
      <4>2. CASE j = b + 1
        BY <4>1, <4>2, <3>2, <1>15, <1>18
      <4>3. CASE j # b + 1
        <5>1. j \in 1 .. b
          BY <4>3, <1>15, <1>9
        <5> QED BY <5>1, <4>1, <3>2, <1>15, <1>7
      <4> QED BY <4>2, <4>3
    <3>6. \E u \in 1 .. y - 1 :
            LET all == Len(loc'.frame) + u
            IN  /\ loc'.tail = r[u] /\ loc'.ds = r[u + 1] /\ all <= MaxSegs
                /\ Scanned(r, u, w - 1, C, M, Len(loc'.frame), all, hw', on, cut)
                /\ \A j \in 1 .. Len(loc'.frame) :
                       /\ loc'.frame[j].data = <<C[r[1]][1], j, all>>
                       /\ cut \/ loc'.frame[j].len = <<loc'.frame[j].data>>
      <4> USE <3>2
      <4> WITNESS t - 1 \in 1 .. y - 1
      <4> QED BY <3>1, <3>2, <3>3, <3>4, <3>5, <1>7, <1>27, <2>4
    <3> QED BY <3>6, <2>4, <1>27 DEF TakeAt
  <2>7. At(loc', sc', ready', y, w - 1, C, M, hw', on, cut)
    BY <2>2, <2>4, <2>6, <1>5 DEF At, r
  <2>8. Contents(r, w - 1, C, Len(loc'.frame), LastOf(ready', sent'), hw'.frames)
    BY <1>28, <1>12, <1>15, <1>16, <1>18, <2>2, <2>4 DEF lo
  <2>9. Running(y, w - 1)'
    BY <1>8, <1>12, <1>16, <1>18, <1>19, <2>7, <2>8 DEF Running, r, C, M
  <2>10. Passing(up', ready', sent', cut', hw'.frames)
    BY <1>12, <1>16, <1>22, <2>2
  <2>11. Balanced(sc'.pool, sc'.idle, NbufOf(desc'), BuffersIn(ready', up', loc'), starts', loc'.at)
    <3>1. BuffersIn(ready', up', loc') = Len(FlattenSeq(ready)) + Len(FlattenSeq(up)) + (b + 1)
      BY <1>15, <1>16, <1>24, <1>9, <2>2, <2>4, SMTT(60) DEF BuffersIn
    <3>2. BuffersIn(ready', up', loc') = BuffersIn(ready, up, loc) + 1 /\ BuffersIn(ready, up, loc) \in Nat
      BY <3>1, <1>9, <1>24, <1>25
    <3>3. sc'.pool + Cardinality(NbufOf(desc')) + BuffersIn(ready', up', loc') \in {NumDescs - 1, NumDescs}
      <4> DEFINE x == sc'.pool  a == Cardinality(NbufOf(desc'))  c == sc.pool  d == Cardinality(NbufOf(desc))
                 u == BuffersIn(ready, up, loc)  v == BuffersIn(ready', up', loc')
      <4>1. x + a = (c + d) - 1 /\ x \in Nat /\ a \in Nat /\ c \in Nat /\ d \in Nat
        BY <1>12, <1>23
      <4>2. v = u + 1 /\ u \in Nat
        BY <3>2
      <4>3. c + d + u \in {NumDescs - 1, NumDescs}
        BY <1>22 DEF Balanced
      <4> HIDE DEF x, a, c, d, u, v
      <4>4. x + a + v \in {NumDescs - 1, NumDescs}
        BY <4>1, <4>2, <4>3, RxAssumption
      <4> QED BY <4>4 DEF x, a, v
    <3> QED BY <3>3, <1>8, <1>12, <1>16, <2>4 DEF Balanced
  <2> QED BY <1>12, <1>20, <2>5, <2>9, <2>10, <2>11, FromRing DEF r
<1>29. CASE t = 1
  <2>1. loc.head = loc.tail
    BY <1>29, <1>6, <1>7, <1>26
  <2>2. ready' = Append(ready, fr) /\ loc' = [loc EXCEPT !.at = "scan", !.frame = << >>, !.bf = @ + 1, !.head = loc.ds]
    BY <2>1, <1>16
  <2>3. << >> \in Seq(Nbufs) /\ Len(<< >>) = 0
    OBVIOUS
  <2>4. /\ loc' \in [at : Places, ds : DescOrNull, head : DescOrNull, tail : DescOrNull,
                     cnt : Nat, bf : Nat, frame : Seq(Nbufs), frags : Nat]
        /\ loc'.at = "scan" /\ loc'.head = loc.ds /\ loc'.ds = loc.ds
        /\ loc'.cnt = 0 /\ loc'.bf = loc.bf + 1 /\ loc'.frame = << >> /\ loc'.frags = 0
    <3> DEFINE e == << >>
           x == loc.bf + 1
    <3>1. loc' = [loc EXCEPT !.at = "scan", !.frame = e, !.bf = x, !.head = loc.ds]
      BY <2>2, <1>21
    <3>2. e \in Seq(Nbufs) /\ x \in Nat /\ "scan" \in Places
      BY <1>9 DEF Places
    <3> HIDE DEF e, x
    <3>3. /\ loc' \in [at : Places, ds : DescOrNull, head : DescOrNull, tail : DescOrNull,
                       cnt : Nat, bf : Nat, frame : Seq(Nbufs), frags : Nat]
          /\ loc'.at = "scan" /\ loc'.head = loc.ds /\ loc'.ds = loc.ds
          /\ loc'.cnt = 0 /\ loc'.bf = x /\ loc'.frame = e /\ loc'.frags = 0
      BY <3>1, <3>2, <1>6, <1>9, <1>21
    <3> QED BY <3>3 DEF e, x
  <2>5. ready' \in Seq(Seq(Nbufs)) /\ Len(ready') = Len(ready) + 1
    BY <2>2, <1>9, <1>15, AppendIs
  <2>6. TypeInv'
    BY <1>1, <1>13, <1>16, <2>4, <2>5 DEF TypeInv
  <2>7. A[q[1]][1] \in 1 .. MaxFrames
    BY <1>18, SegParts
  <2>8. RightFrame(fr, cut) /\ FrameId(fr) = A[q[1]][1]
    <3>1. Len(fr) \in 1 .. MaxSegs /\ Len(fr) = b + t
      BY <1>29, <1>7, <1>9, <1>15
    <3>2. ASSUME NEW j \in 1 .. Len(fr)
          PROVE  fr[j].data = <<A[q[1]][1], j, Len(fr)>> /\ (cut \/ fr[j].len = <<fr[j].data>>)
      <4>1. CASE j = b + 1
        BY <4>1, <3>1, <1>15, <1>18
      <4>2. CASE j # b + 1
        <5>1. j \in 1 .. b
          BY <4>2, <1>15, <1>9
        <5> QED BY <5>1, <3>1, <1>15, <1>7
      <4> QED BY <4>1, <4>2
    <3> QED BY <3>1, <3>2, <2>7, <1>15, FrameDone
  <2>9. Passing(up, ready', sent, cut, hw.frames) /\ LastOf(ready', sent) = A[q[1]][1]
    <3>1. LastOf(ready, sent) < FrameId(fr) /\ FrameId(fr) <= hw.frames
      BY <2>8, <1>18 DEF lo
    <3>2. Passing(up, Append(ready, fr), sent, cut, hw.frames) /\ LastOf(Append(ready, fr), sent) = FrameId(fr)
      BY <3>1, <2>8, <1>9, <1>15, <1>22, PassReady
    <3> QED BY <2>2, <2>8, <3>2
  <2>10. Contents(r, w - 1, C, Len(loc'.frame), LastOf(ready', sent'), hw'.frames)
    BY <1>29, <1>12, <1>16, <1>18, <2>3, <2>4, <2>9
  <2>11. ScanAt(loc', r, y, w - 1, C, M, hw', on, cut)
    <3>1. Scanned(r, 0, w - 1, C, M, 0, 1, hw', on, cut)
      BY <1>20 DEF Scanned
    <3>2. 1 \in 1 .. MaxSegs
      BY RxAssumption
    <3>3. 0 < y
      BY <1>12 DEF Ring
    <3>4. loc'.head = r[1] /\ loc'.ds = r[0 + 1]
      BY <1>29, <1>7, <1>27, <2>4
    <3>5. \E all \in 1 .. MaxSegs : 0 < all /\ Scanned(r, 0, w - 1, C, M, 0, all, hw', on, cut)
      BY <3>1, <3>2
    <3> QED BY <3>3, <3>4, <3>5, <2>4 DEF ScanAt
  <2>12. At(loc', sc', ready', y, w - 1, C, M, hw', on, cut)
    BY <2>4, <2>5, <2>11, <1>5 DEF At, r
  <2>13. Running(y, w - 1)'
    BY <1>8, <1>12, <1>16, <1>18, <1>19, <2>10, <2>12 DEF Running, r, C, M
  <2>14. Passing(up', ready', sent', cut', hw'.frames)
    BY <1>12, <1>16, <2>9
  <2>15. Balanced(sc'.pool, sc'.idle, NbufOf(desc'), BuffersIn(ready', up', loc'), starts', loc'.at)
    <3>1. Len(FlattenSeq(ready')) = Len(FlattenSeq(ready)) + (b + 1)
      BY <2>2, <1>9, <1>15, FlatAppend
    <3>2. BuffersIn(ready', up', loc') = BuffersIn(ready, up, loc) + 1 /\ BuffersIn(ready, up, loc) \in Nat
      <4> DEFINE x == Len(FlattenSeq(ready'))  u == Len(FlattenSeq(up))
      <4>1. x \in Nat /\ u \in Nat
        BY <3>1, <1>9, <1>24
      <4>2. up' = up /\ loc'.frags = 0 /\ loc'.at # "take"
        BY <1>16, <2>4
      <4>3. BuffersIn(ready', up', loc') = x + u + loc'.frags + 0
        BY <4>2, Zenon DEF BuffersIn
      <4> HIDE DEF x
      <4>4. BuffersIn(ready', up', loc') = x + u
        BY <4>1, <4>2, <4>3
      <4> QED BY <4>4, <3>1, <1>9, <1>24, <1>25 DEF x
    <3>3. sc'.pool + Cardinality(NbufOf(desc')) + BuffersIn(ready', up', loc') \in {NumDescs - 1, NumDescs}
      <4> DEFINE x == sc'.pool  a == Cardinality(NbufOf(desc'))  c == sc.pool  d == Cardinality(NbufOf(desc))
                 u == BuffersIn(ready, up, loc)  v == BuffersIn(ready', up', loc')
      <4>1. x + a = (c + d) - 1 /\ x \in Nat /\ a \in Nat /\ c \in Nat /\ d \in Nat
        BY <1>12, <1>23
      <4>2. v = u + 1 /\ u \in Nat
        BY <3>2
      <4>3. c + d + u \in {NumDescs - 1, NumDescs}
        BY <1>22 DEF Balanced
      <4> HIDE DEF x, a, c, d, u, v
      <4>4. x + a + v \in {NumDescs - 1, NumDescs}
        BY <4>1, <4>2, <4>3, RxAssumption
      <4> QED BY <4>4 DEF x, a, v
    <3> QED BY <3>3, <1>8, <1>12, <1>16, <2>4 DEF Balanced
  <2> QED BY <1>12, <1>20, <2>6, <2>13, <2>14, <2>15, FromRing DEF r
<1> QED BY <1>10, <1>28, <1>29

(* A scan always finds an ath_rx_buf, and no frame is too long.            *)
LEMMA ScanPlace ==
    ASSUME IInv, loc.at = "scan"
    PROVE  /\ ~BufBusy /\ ~LongPacket
           /\ \E z, w \in Nat :
                /\ Running(z, w)
                /\ ScanAt(loc, sc.rxdesc, z, w, DataOf(desc), LenOf(desc), hw, on, cut)
<1>1. PICK z \in Nat, w \in Nat : Running(z, w)
  BY RunningPlace
<1>2. /\ ScanAt(loc, sc.rxdesc, z, w, DataOf(desc), LenOf(desc), hw, on, cut)
      /\ loc.bf = Len(ready) + 1
  BY <1>1 DEF Running, At
<1>3. loc.cnt \in Nat /\ ready \in Seq(Seq(Nbufs))
  BY Fields DEF IInv
<1>4. ~BufBusy
  <2>1. Len(ready) \in Nat
    BY <1>3
  <2> QED BY <2>1, <1>2 DEF BufBusy
<1>5. ~LongPacket
  <2>1. loc.cnt < MaxSegs
    BY <1>2, <1>3, RxAssumption DEF ScanAt
  <2> QED BY <2>1, <1>3, RxAssumption DEF LongPacket
<1> QED BY <1>1, <1>2, <1>4, <1>5

(* The scan goes on to the tasklet.                                        *)
LEMMA ScanEndStep ==
    ASSUME IInv, ScanEnd
    PROVE  IInv'
<1>1. /\ loc.at = "scan" /\ loc' = [loc EXCEPT !.at = "tasklet"]
      /\ UNCHANGED <<sc, desc, ready, up, hw, on, starts, sent, cut>>
  BY DEF ScanEnd
<1>2. PICK z \in Nat, w \in Nat :
        /\ Running(z, w)
        /\ ScanAt(loc, sc.rxdesc, z, w, DataOf(desc), LenOf(desc), hw, on, cut)
  BY <1>1, ScanPlace
<1>3. TypeInv
  BY DEF IInv
<1>4. /\ loc' \in [at : Places, ds : DescOrNull, head : DescOrNull, tail : DescOrNull,
                   cnt : Nat, bf : Nat, frame : Seq(Nbufs), frags : Nat]
      /\ loc'.at = "tasklet" /\ loc'.frame = loc.frame /\ loc'.frags = loc.frags /\ loc'.cnt = loc.cnt
      /\ loc'.bf = loc.bf
  <2>1. "tasklet" \in Places
    BY DEF Places
  <2> QED BY <2>1, <1>1, <1>3 DEF TypeInv
<1>5. TypeInv'
  BY <1>1, <1>3, <1>4 DEF TypeInv
<1>6. loc.bf = Len(ready) + 1
  BY <1>1, <1>2 DEF Running, At
<1>7. loc.frame = << >> /\ loc.frags = 0 /\ loc.cnt <= MaxSegs
  <2>1. loc.cnt \in Nat
    BY <1>3, Fields
  <2> QED BY <2>1, <1>2, RxAssumption DEF ScanAt
<1>8. At(loc', sc', ready', z, w, DataOf(desc'), LenOf(desc'), hw', on', cut')
  BY <1>1, <1>4, <1>6, <1>7 DEF At
<1>9. Running(z, w)'
  BY <1>1, <1>2, <1>4, <1>8 DEF Running
<1>10. Passing(up', ready', sent', cut', hw'.frames)
  BY <1>1 DEF IInv
<1>11. Balanced(sc'.pool, sc'.idle, NbufOf(desc'), BuffersIn(ready', up', loc'), starts', loc'.at)
  <2>1. BuffersIn(ready', up', loc') = BuffersIn(ready, up, loc)
    BY <1>1, <1>4 DEF BuffersIn
  <2>2. starts \in Nat /\ starts >= 1
    BY <1>2, <1>3, Fields DEF Running
  <2>3. Balanced(sc.pool, sc.idle, NbufOf(desc), BuffersIn(ready, up, loc), starts, loc.at)
    BY DEF IInv
  <2> QED BY <1>1, <1>4, <2>1, <2>2, <2>3 DEF Balanced
<1>12. Lists(sc'.rxdesc, sc'.idle) /\ Bare(sc'.idle, NbufOf(desc'), LenOf(desc'))
  BY <1>1 DEF IInv
<1> QED BY <1>5, <1>9, <1>10, <1>11, <1>12, FromRing

(* Setting a length leaves everything else as it is.                       *)
LEMMA PutSame ==
    ASSUME NEW m, NEW r, NEW d, PutTailViews(m, r, d)
    PROVE  NbufOf(r) = NbufOf(m) /\ DoneOf(r) = DoneOf(m) /\ LinkOf(r) = LinkOf(m) /\ DataOf(r) = DataOf(m)
<1>1. NbufOf(r) = NbufOf(m)
  BY DEF PutTailViews
<1>2. DoneOf(r) = DoneOf(m)
  BY DEF PutTailViews
<1>3. \A e \in Descs : LinkOf(r)[e] = LinkOf(m)[e] /\ DataOf(r)[e] = DataOf(m)[e]
  BY DEF PutTailViews
<1>4. LinkOf(r) = LinkOf(m)
  BY <1>3 DEF LinkOf
<1>5. DataOf(r) = DataOf(m)
  BY <1>3 DEF DataOf
<1> QED BY <1>1, <1>2, <1>4, <1>5

(* The scan has looked at one more descriptor.                             *)
Looked(q, c, z, w, A, M) ==
    /\ c + 1 < z /\ c + 1 <= w
    /\ \E all \in 1 .. MaxSegs :
         /\ A[q[c + 1]][2] = c + 1 /\ A[q[c + 1]][3] = all /\ c + 1 <= all
         /\ Scanned(q, c + 1, w, A, M, 0, all, hw, on, cut)

(* The handler finds the next segment of its frame in a descriptor the MAC *)
(* has left, with another descriptor behind it.                            *)
LEMMA ScanOne ==
    ASSUME IInv, loc.at = "scan", GoOn(loc.ds), desc' = PutTail,
           NEW z \in Nat, NEW w \in Nat, Running(z, w),
           ScanAt(loc, sc.rxdesc, z, w, DataOf(desc), LenOf(desc), hw, on, cut)
    PROVE  /\ Looked(sc.rxdesc, loc.cnt, z, w, DataOf(desc), LenOf(desc'))
           /\ PutTailViews(desc, desc', sc.rxdesc[loc.cnt + 1])
           /\ loc.ds = sc.rxdesc[loc.cnt + 1]
           /\ NextIn(sc.rxdesc, loc.ds) = sc.rxdesc[loc.cnt + 2]
<1> DEFINE q == sc.rxdesc
           n == Len(q)
           c == loc.cnt
           d == q[c + 1]
           A == DataOf(desc)  N == LenOf(desc)  M == LenOf(desc')
           D == DoneOf(desc)  L == LinkOf(desc) B == NbufOf(desc)
<1>1. TypeInv /\ \A i, j \in 1 .. n : q[i] = q[j] => i = j
  BY DEF IInv, Lists
<1>2. q \in Seq(Descs) /\ n \in Nat /\ c \in Nat /\ desc \in [Descs -> RxDescs] /\ hw.rxdp \in DescOrNull
  BY <1>1, Fields
<1>3. Ring(q, z, w, B, D, L) /\ Contents(q, w, A, Len(loc.frame), LastOf(ready, sent), hw.frames)
      /\ Lengths(q, w, A, N, cut) /\ (on => MacOn(hw, q, z, w, A, sc.rxlink))
  BY DEF Running
<1>4. PICK all \in 1 .. MaxSegs : c < all /\ Scanned(q, c, w, A, N, 0, all, hw, on, cut)
  BY DEF ScanAt
<1>5. c < z /\ loc.ds = d /\ loc.frame = << >> /\ loc.head = q[1]
  BY DEF ScanAt
<1>6. z <= n - 1 /\ w <= z /\ c + 1 \in 1 .. n - 1 /\ c + 2 \in 1 .. n /\ (\A i \in 1 .. n : q[i] \in Descs)
  <2>1. z \in 1 .. n - 1 /\ w \in 0 .. z
    BY <1>3 DEF Ring
  <2>2. \A i \in 1 .. n : q[i] \in Descs
    BY <1>2
  <2> HIDE DEF n, c, q
  <2> QED BY <2>1, <2>2, <1>2, <1>5
<1>7. d \in Descs /\ desc[d].link # NoDesc /\ ProcRxDesc(d)
  <2>1. ~BufBusy
    BY ScanPlace
  <2>2. d \in Descs
    BY <1>2, <1>6, SMTT(60)
  <2> QED BY <2>1, <2>2, <1>5 DEF GoOn
<1>8. L[d] = desc[d].link /\ A[d] = desc[d].data /\ (d \in D <=> desc[d].done)
  BY <1>7, <1>2, Zenon DEF LinkOf, DataOf, DoneOf
<1> HIDE DEF q, n, c, A, N, M, D, L, B
<1>9. c + 1 < z /\ L[d] = q[c + 2]
  <2>1. L[q[c + 1]] = IF c + 1 < z THEN q[(c + 1) + 1] ELSE NoDesc
    <3>1. c + 1 \in 1 .. z
      BY <1>2, <1>5
    <3> QED BY <3>1, <1>3 DEF Ring
  <2>2. c + 1 < z
    BY <2>1, <1>7, <1>8
  <2>3. (c + 1) + 1 = c + 2
    BY <1>2
  <2> QED BY <2>1, <2>2, <2>3
<1>10. c + 1 <= w /\ d \in D
  <2>1. d \in D
    BY <1>7, <1>8 DEF ProcRxDesc
  <2>2. q[c + 1] \in D <=> c + 1 <= w
    BY <1>3, <1>6 DEF Ring, n
  <2> QED BY <2>1, <2>2
<1>11. A[d] \in Segs /\ A[d][2] <= A[d][3]
  <2>1. c + 1 \in 1 .. w
    BY <1>2, <1>10
  <2> QED BY <2>1, <1>3 DEF Contents
<1>12. PutTailViews(desc, desc', d)
  <2> DEFINE r == desc'
  <2>1. r = [desc EXCEPT ![d] = [desc[d] EXCEPT !.len = IF desc[d].len = NoLen THEN <<desc[d].data>> ELSE desc[d].len]]
    BY <1>5 DEF PutTail
  <2>2. DataOf(desc)[d] \in Segs
    BY <1>11 DEF A
  <2> HIDE DEF r, d
  <2>3. PutTailViews(desc, r, d)
    BY <2>1, <2>2, <1>2, <1>7, TailPut
  <2> QED BY <2>3 DEF r
<1>13. \A e \in Descs : M[e] = IF e = d /\ N[e] = NoLen THEN <<A[e]>> ELSE N[e]
  BY <1>12, Zenon DEF PutTailViews, M, N, A
<1>14. cut \/ M[d] = <<A[d]>>
  <2>1. cut \/ N[d] = NoLen \/ N[d] = <<A[d]>>
    BY <1>3, <1>6 DEF Lengths, n
  <2> QED BY <2>1, <1>13, <1>7
<1>15. ASSUME NEW i \in 1 .. c
       PROVE  q[i] \in Descs /\ q[i] # d /\ i \in 1 .. w /\ i \in 1 .. n
  <2>1. i \in 1 .. w /\ i \in 1 .. n /\ c + 1 \in 1 .. n /\ i # c + 1
    BY <1>2, <1>6, <1>10
  <2>2. \A k, j \in 1 .. n : q[k] = q[j] => k = j
    BY <1>1 DEF n, q
  <2> QED BY <2>1, <2>2, <1>6
<1>16. on => hw.rxdp # d
  <2> SUFFICES ASSUME on, hw.rxdp = d PROVE FALSE
    OBVIOUS
  <2>1. PICK p \in 1 .. z : hw.rxdp = q[p] /\ w \in {p - 1, p}
    BY <1>3 DEF MacOn
  <2>2. p = c + 1
    <3>1. p \in 1 .. n /\ c + 1 \in 1 .. n
      BY <1>2, <1>6
    <3> QED BY <3>1, <2>1, <1>1 DEF q, n
  <2>3. w = c + 1
    BY <2>1, <2>2, <1>2, <1>10
  <2>4. c + 2 \in 1 .. n - 1 /\ ~(c + 2 <= w)
    BY <2>3, <1>2, <1>6, <1>9
  <2>5. q[c + 2] \notin D
    BY <2>4, <1>3 DEF Ring, n
  <2>6. desc[desc[d].link].done
    BY <1>7 DEF ProcRxDesc
  <2>7. q[c + 2] \in Descs
    BY <1>6
  <2> QED BY <2>5, <2>6, <2>7, <1>8, <1>9, Zenon DEF DoneOf, D
<1>17. c = 0 \/ A[d] = <<A[q[1]][1], c + 1, all>>
  <2> SUFFICES ASSUME c # 0 PROVE A[d] = <<A[q[1]][1], c + 1, all>>
    OBVIOUS
  <2>1. c \in 1 .. c /\ c \in 1 .. w - 1
    BY <1>2, <1>10
  <2>2. A[q[c]] = <<A[q[1]][1], 0 + c, all>>
    BY <2>1, <1>4 DEF Scanned
  <2>3. Follows(A[q[c]], A[q[c + 1]])
    BY <2>1, <1>3 DEF Contents
  <2>4. A[q[c]][1] = A[q[1]][1] /\ A[q[c]][2] = c /\ A[q[c]][3] = all /\ c # all
    BY <2>2, <1>2, <1>4
  <2> QED BY <2>3, <2>4 DEF Follows
<1>18. c = 0 => A[d][2] = 1 /\ d = q[1]
  <2> SUFFICES ASSUME c = 0 PROVE A[d][2] = 1 /\ d = q[1]
    OBVIOUS
  <2>1. Len(loc.frame) = 0 /\ w >= 1
    BY <1>2, <1>5, <1>10
  <2>2. A[q[1]][2] = 0 + 1
    BY <2>1, <1>3 DEF Contents
  <2> QED BY <2>2
<1> DEFINE e == A[d][3]
<1>19. e \in 1 .. MaxSegs /\ A[d] = <<A[q[1]][1], c + 1, e>> /\ c + 1 <= e
  <2>1. A[d] = <<A[d][1], A[d][2], A[d][3]>> /\ A[d][3] \in 1 .. MaxSegs
    BY <1>11, SegParts
  <2>2. CASE c = 0
    BY <2>1, <2>2, <1>11, <1>18
  <2>3. CASE c # 0
    <3>1. A[d] = <<A[q[1]][1], c + 1, all>>
      BY <2>3, <1>17
    <3>2. A[d][2] = c + 1 /\ A[d][3] = all
      BY <3>1
    <3> QED BY <3>1, <3>2, <2>1, <1>11
  <2> QED BY <2>2, <2>3
<1>20. c # 0 => e = all
  <2> HAVE c # 0
  <2>1. A[d] = <<A[q[1]][1], c + 1, all>>
    BY <1>17
  <2> QED BY <2>1
<1> HIDE DEF e, d
<1>21. ASSUME NEW i \in 1 .. c + 1
       PROVE  A[q[i]] = <<A[q[1]][1], 0 + i, e>> /\ (cut \/ M[q[i]] = <<A[q[i]]>>) /\ (on => hw.rxdp # q[i])
  <2>1. CASE i = c + 1
    <3>1. q[i] = d /\ 0 + i = c + 1
      BY <2>1, <1>2 DEF d
    <3> QED BY <3>1, <1>14, <1>16, <1>19
  <2>2. CASE i # c + 1
    <3>1. i \in 1 .. c /\ c # 0
      BY <2>2, <1>2
    <3>2. A[q[i]] = <<A[q[1]][1], 0 + i, all>> /\ (cut \/ N[q[i]] = <<A[q[i]]>>) /\ (on => hw.rxdp # q[i])
      BY <3>1, <1>4 DEF Scanned
    <3>3. M[q[i]] = N[q[i]]
      BY <3>1, <1>13, <1>15
    <3> QED BY <3>1, <3>2, <3>3, <1>20
  <2> QED BY <2>1, <2>2
<1>22. Scanned(q, c + 1, w, A, M, 0, e, hw, on, cut)
  BY <1>10, <1>21 DEF Scanned
<1>23. Looked(q, c, z, w, A, M)
  <2>1. A[q[c + 1]][2] = c + 1 /\ A[q[c + 1]][3] = e
    BY <1>19 DEF d
  <2> QED BY <2>1, <1>9, <1>10, <1>19, <1>22 DEF Looked
<1>24. NextIn(q, d) = q[c + 2]
  <2>1. c + 1 \in 1 .. Len(q) /\ c + 1 < Len(q) /\ (c + 1) + 1 = c + 2
    BY <1>2, <1>6 DEF n
  <2>2. q \in Seq(Descs) /\ \A i, j \in 1 .. Len(q) : q[i] = q[j] => i = j
    BY <1>1, <1>2 DEF q, n
  <2>3. NextIn(q, q[c + 1]) = IF c + 1 < Len(q) THEN q[(c + 1) + 1] ELSE NoDesc
    BY <2>1, <2>2, NextInAt
  <2> QED BY <2>1, <2>3 DEF d
<1> QED BY <1>5, <1>12, <1>23, <1>24 DEF q, c, d, A, M

(* Setting a length changes nothing else.                                  *)
LEMMA PutKept ==
    ASSUME IInv, NEW z \in Nat, NEW w \in Nat, Running(z, w), NEW k \in 1 .. w,
           PutTailViews(desc, desc', sc.rxdesc[k])
    PROVE  /\ Bare(sc.idle, NbufOf(desc'), LenOf(desc'))
           /\ Lengths(sc.rxdesc, w, DataOf(desc), LenOf(desc'), cut)
           /\ NbufOf(desc') = NbufOf(desc) /\ DoneOf(desc') = DoneOf(desc)
           /\ LinkOf(desc') = LinkOf(desc) /\ DataOf(desc') = DataOf(desc)
           /\ desc' \in [Descs -> RxDescs]
<1> DEFINE q == sc.rxdesc
           n == Len(q)
           d == q[k]
           A == DataOf(desc)  N == LenOf(desc)  M == LenOf(desc')  B == NbufOf(desc)
<1>1. NbufOf(desc') = B /\ DoneOf(desc') = DoneOf(desc) /\ LinkOf(desc') = LinkOf(desc) /\ DataOf(desc') = A
  <2> DEFINE r == desc'
  <2>1. PutTailViews(desc, r, d)
    OBVIOUS
  <2> HIDE DEF r, d
  <2>2. NbufOf(r) = NbufOf(desc) /\ DoneOf(r) = DoneOf(desc) /\ LinkOf(r) = LinkOf(desc) /\ DataOf(r) = DataOf(desc)
    BY <2>1, PutSame
  <2> QED BY <2>2 DEF r
<1>2. \A e \in Descs : M[e] = IF e = d /\ N[e] = NoLen THEN <<A[e]>> ELSE N[e]
  BY Zenon DEF PutTailViews
<1>3. /\ \A i, j \in 1 .. n : q[i] = q[j] => i = j
      /\ Bare(sc.idle, B, N) /\ q \in Seq(Descs) /\ n \in Nat
  BY Fields DEF IInv, Lists
<1>4. Ring(q, z, w, B, DoneOf(desc), LinkOf(desc)) /\ Lengths(q, w, A, N, cut)
  BY DEF Running
<1>5. w <= z /\ z <= n - 1 /\ k \in 1 .. n - 1 /\ k <= w
  BY <1>3, <1>4 DEF Ring
<1> HIDE DEF q, n, A, N, M, B
<1>6. d \in B
  BY <1>4, <1>5 DEF Ring, n
<1> HIDE DEF d
<1>7. Bare(sc.idle, B, M)
  <2>1. ASSUME NEW e \in Descs, e \notin B
        PROVE  M[e] = NoLen
    BY <2>1, <1>2, <1>3, <1>6 DEF Bare
  <2> QED BY <2>1, <1>3 DEF Bare
<1>8. Lengths(q, w, A, M, cut)
  <2>1. ASSUME NEW i \in 1 .. n - 1, ~cut
        PROVE  M[q[i]] = NoLen \/ (i <= w /\ M[q[i]] = <<A[q[i]]>>)
    <3>1. q[i] \in Descs
      <4>1. i \in 1 .. n
        BY <1>3
      <4> QED BY <4>1, <1>3 DEF n
    <3>2. N[q[i]] = NoLen \/ (i <= w /\ N[q[i]] = <<A[q[i]]>>)
      BY <2>1, <1>4 DEF Lengths, n
    <3>3. CASE q[i] = d
      <4>1. i = k
        <5>1. i \in 1 .. n /\ k \in 1 .. n
          BY <1>3, <1>5
        <5> QED BY <5>1, <3>3, <1>3 DEF d
      <4> QED BY <4>1, <3>1, <3>2, <3>3, <1>2, <1>5
    <3>4. CASE q[i] # d
      BY <3>1, <3>2, <3>4, <1>2
    <3> QED BY <3>3, <3>4
  <2> QED BY <2>1 DEF Lengths, n
<1>9. desc' \in [Descs -> RxDescs]
  BY Zenon DEF PutTailViews
<1> QED BY <1>1, <1>7, <1>8, <1>9 DEF q, A, M, B

(* A segment that is not the last of its frame is looked at.               *)
LEMMA ScanMoreStep ==
    ASSUME IInv, ScanMore
    PROVE  IInv'
<1> DEFINE q == sc.rxdesc
           c == loc.cnt
           A == DataOf(desc)  N == LenOf(desc)  M == LenOf(desc')
<1>1. loc.at = "scan" /\ UNCHANGED <<sc, ready, up, hw, on, starts, sent, cut>> /\ GoOn(loc.ds) /\ ~BufBusy
  BY ScanPlace DEF ScanMore
<1>2. PICK z \in Nat, w \in Nat : Running(z, w) /\ ScanAt(loc, q, z, w, A, N, hw, on, cut)
  BY <1>1, ScanPlace
<1>3. desc' = PutTail /\ ~LastSeg(loc.ds) /\ loc' = [loc EXCEPT !.cnt = @ + 1, !.ds = NextIn(sc.rxdesc, @)]
  BY <1>1 DEF ScanMore
<1>4. Looked(q, c, z, w, A, M) /\ PutTailViews(desc, desc', q[c + 1]) /\ loc.ds = q[c + 1]
      /\ NextIn(q, loc.ds) = q[c + 2]
  BY <1>1, <1>2, <1>3, ScanOne
<1>5. TypeInv /\ Lists(q, sc.idle)
  BY DEF IInv
<1>6. c \in Nat /\ q \in Seq(Descs) /\ desc \in [Descs -> RxDescs] /\ Len(q) \in Nat
      /\ starts \in Nat /\ starts >= 1
  BY <1>2, <1>5, Fields DEF Running
<1>7. c + 1 < z /\ c + 1 <= w /\ z <= Len(q) - 1
  BY <1>2, <1>4, <1>6 DEF Looked, Running, Ring
<1>8. c + 1 \in 1 .. w /\ c + 1 \in 1 .. Len(q) /\ c + 2 \in 1 .. Len(q)
  BY <1>6, <1>7
<1>9. /\ Bare(sc.idle, NbufOf(desc'), M) /\ Lengths(q, w, A, M, cut)
      /\ NbufOf(desc') = NbufOf(desc) /\ DoneOf(desc') = DoneOf(desc)
      /\ LinkOf(desc') = LinkOf(desc) /\ DataOf(desc') = A
      /\ desc' \in [Descs -> RxDescs]
  BY <1>2, <1>4, <1>8, PutKept
<1>10. q[c + 2] \in DescOrNull /\ q[c + 1] \in Descs
  BY <1>6, <1>8 DEF DescOrNull
<1>11. /\ loc' \in [at : Places, ds : DescOrNull, head : DescOrNull, tail : DescOrNull,
                    cnt : Nat, bf : Nat, frame : Seq(Nbufs), frags : Nat]
       /\ loc'.at = "scan" /\ loc'.cnt = c + 1 /\ loc'.ds = q[c + 2] /\ loc'.head = loc.head
       /\ loc'.frame = loc.frame /\ loc'.frags = loc.frags /\ loc'.bf = loc.bf
  <2> DEFINE x == c + 1  y == q[c + 2]
  <2>1. loc' = [loc EXCEPT !.cnt = x, !.ds = y]
    BY <1>3, <1>4, <1>5 DEF TypeInv
  <2>2. x \in Nat /\ y \in DescOrNull
    BY <1>6, <1>10
  <2> HIDE DEF x, y
  <2>3. /\ loc' \in [at : Places, ds : DescOrNull, head : DescOrNull, tail : DescOrNull,
                     cnt : Nat, bf : Nat, frame : Seq(Nbufs), frags : Nat]
        /\ loc'.at = "scan" /\ loc'.cnt = x /\ loc'.ds = y /\ loc'.head = loc.head
        /\ loc'.frame = loc.frame /\ loc'.frags = loc.frags /\ loc'.bf = loc.bf
    BY <2>1, <2>2, <1>1, <1>5 DEF TypeInv
  <2> QED BY <2>3 DEF x, y
<1>12. TypeInv'
  BY <1>1, <1>5, <1>9, <1>11 DEF TypeInv
<1>13. ScanAt(loc', q, z, w, A, M, hw, on, cut)
  <2>1. PICK all \in 1 .. MaxSegs :
          /\ A[q[c + 1]][2] = c + 1 /\ A[q[c + 1]][3] = all /\ c + 1 <= all
          /\ Scanned(q, c + 1, w, A, M, 0, all, hw, on, cut)
    BY <1>4 DEF Looked
  <2>2. A[q[c + 1]][2] # A[q[c + 1]][3]
    <3>1. A[q[c + 1]] = desc[q[c + 1]].data
      BY <1>10, Zenon DEF DataOf
    <3> QED BY <3>1, <1>3, <1>4 DEF LastSeg
  <2>3. c + 1 < all
    BY <2>1, <2>2, <1>6
  <2>4. loc'.head = q[1] /\ loc'.frame = << >> /\ loc'.frags = 0
    BY <1>2, <1>11 DEF ScanAt
  <2>5. loc'.cnt < z /\ loc'.ds = q[loc'.cnt + 1]
    <3>1. (c + 1) + 1 = c + 2
      BY <1>6
    <3> QED BY <3>1, <1>7, <1>11
  <2>6. \E a \in 1 .. MaxSegs : loc'.cnt < a /\ Scanned(q, loc'.cnt, w, A, M, 0, a, hw, on, cut)
    BY <2>1, <2>3, <1>11
  <2> QED BY <2>4, <2>5, <2>6 DEF ScanAt
<1>14. At(loc', sc', ready', z, w, DataOf(desc'), LenOf(desc'), hw', on', cut')
  <2>1. loc.bf = Len(ready) + 1
    BY <1>1, <1>2 DEF Running, At
  <2> QED BY <2>1, <1>1, <1>9, <1>11, <1>13 DEF At
<1>15. Running(z, w)'
  BY <1>1, <1>2, <1>9, <1>11, <1>14 DEF Running
<1>16. Passing(up', ready', sent', cut', hw'.frames)
  BY <1>1 DEF IInv
<1>17. Balanced(sc'.pool, sc'.idle, NbufOf(desc'), BuffersIn(ready', up', loc'), starts', loc'.at)
  <2>1. BuffersIn(ready', up', loc') = BuffersIn(ready, up, loc)
    BY <1>1, <1>11 DEF BuffersIn
  <2>2. Balanced(sc.pool, sc.idle, NbufOf(desc), BuffersIn(ready, up, loc), starts, loc.at)
    BY DEF IInv
  <2> QED BY <1>1, <1>9, <1>11, <2>1, <2>2 DEF Balanced
<1>18. Lists(sc'.rxdesc, sc'.idle) /\ Bare(sc'.idle, NbufOf(desc'), LenOf(desc'))
  BY <1>1, <1>5, <1>9
<1> QED BY <1>12, <1>15, <1>16, <1>17, <1>18, FromRing

(* The last segment of a frame is found.                                   *)
LEMMA ScanTakeStep ==
    ASSUME IInv, ScanTake
    PROVE  IInv'
<1> DEFINE q == sc.rxdesc
           c == loc.cnt
           A == DataOf(desc)  N == LenOf(desc)  M == LenOf(desc')
<1>1. loc.at = "scan" /\ UNCHANGED <<sc, ready, up, hw, on, starts, sent, cut>>
  BY DEF ScanTake
<1>2. ~LongPacket /\ GoOn(loc.ds) /\ LastSeg(loc.ds)
  BY <1>1, ScanPlace DEF ScanTake
<1>3. desc' = PutTail /\ loc' = [loc EXCEPT !.at = "take", !.tail = loc.ds, !.cnt = 0, !.frame = << >>,
                                 !.ds = NextIn(sc.rxdesc, loc.ds)]
  BY <1>2 DEF ScanTake
<1>4. PICK z \in Nat, w \in Nat : Running(z, w) /\ ScanAt(loc, q, z, w, A, N, hw, on, cut)
  BY <1>1, ScanPlace
<1>5. Looked(q, c, z, w, A, M) /\ PutTailViews(desc, desc', q[c + 1]) /\ loc.ds = q[c + 1]
      /\ NextIn(q, loc.ds) = q[c + 2]
  BY <1>1, <1>2, <1>3, <1>4, ScanOne
<1>6. TypeInv /\ Lists(q, sc.idle)
  BY DEF IInv
<1>7. c \in Nat /\ q \in Seq(Descs) /\ desc \in [Descs -> RxDescs] /\ Len(q) \in Nat
      /\ starts \in Nat /\ starts >= 1
  BY <1>4, <1>6, Fields DEF Running
<1>8. c + 1 < z /\ c + 1 <= w /\ z <= Len(q) - 1
  BY <1>4, <1>5, <1>7 DEF Looked, Running, Ring
<1>9. c + 1 \in 1 .. w /\ c + 1 \in 1 .. Len(q) /\ c + 2 \in 1 .. Len(q)
  BY <1>7, <1>8
<1>10. /\ Bare(sc.idle, NbufOf(desc'), M) /\ Lengths(q, w, A, M, cut)
       /\ NbufOf(desc') = NbufOf(desc) /\ DoneOf(desc') = DoneOf(desc)
       /\ LinkOf(desc') = LinkOf(desc) /\ DataOf(desc') = A
       /\ desc' \in [Descs -> RxDescs]
  BY <1>4, <1>5, <1>9, PutKept
<1>11. q[c + 2] \in DescOrNull /\ q[c + 1] \in Descs /\ q[c + 1] \in DescOrNull
  BY <1>7, <1>9 DEF DescOrNull
<1>12. /\ loc' \in [at : Places, ds : DescOrNull, head : DescOrNull, tail : DescOrNull,
                    cnt : Nat, bf : Nat, frame : Seq(Nbufs), frags : Nat]
       /\ loc'.at = "take" /\ loc'.cnt = 0 /\ loc'.ds = q[c + 2] /\ loc'.head = loc.head /\ loc'.tail = q[c + 1]
       /\ loc'.frame = << >> /\ loc'.frags = loc.frags /\ loc'.bf = loc.bf
  <2> DEFINE x == q[c + 1]  y == q[c + 2]  e == << >>
  <2>1. loc' = [loc EXCEPT !.at = "take", !.tail = x, !.cnt = 0, !.frame = e, !.ds = y]
    BY <1>3, <1>5
  <2>2. x \in DescOrNull /\ y \in DescOrNull /\ e \in Seq(Nbufs) /\ "take" \in Places /\ 0 \in Nat
    BY <1>11 DEF Places
  <2> HIDE DEF x, y, e
  <2>3. /\ loc' \in [at : Places, ds : DescOrNull, head : DescOrNull, tail : DescOrNull,
                     cnt : Nat, bf : Nat, frame : Seq(Nbufs), frags : Nat]
        /\ loc'.at = "take" /\ loc'.cnt = 0 /\ loc'.ds = y /\ loc'.head = loc.head /\ loc'.tail = x
        /\ loc'.frame = e /\ loc'.frags = loc.frags /\ loc'.bf = loc.bf
    BY <2>1, <2>2, <1>6 DEF TypeInv
  <2> QED BY <2>3 DEF x, y, e
<1>13. TypeInv'
  BY <1>1, <1>6, <1>10, <1>12 DEF TypeInv
<1>14. loc.frame = << >> /\ loc.frags = 0 /\ loc.head = q[1] /\ Len(<< >>) = 0
  BY <1>4 DEF ScanAt
<1>15. TakeAt(loc', q, z, w, A, M, hw, on, cut)
  <2>1. PICK all \in 1 .. MaxSegs :
          /\ A[q[c + 1]][2] = c + 1 /\ A[q[c + 1]][3] = all /\ c + 1 <= all
          /\ Scanned(q, c + 1, w, A, M, 0, all, hw, on, cut)
    BY <1>5 DEF Looked
  <2>2. A[q[c + 1]][2] = A[q[c + 1]][3]
    <3>1. A[q[c + 1]] = desc[q[c + 1]].data
      BY <1>11, Zenon DEF DataOf
    <3> QED BY <3>1, <1>2, <1>5 DEF LastSeg
  <2>3. all = c + 1 /\ 0 + (c + 1) = all /\ all <= MaxSegs /\ (c + 1) + 1 = c + 2 /\ c + 1 \in 1 .. z - 1
    BY <2>1, <2>2, <1>7, <1>8, SMTT(60)
  <2>4. Len(loc'.frame) = 0
    BY <1>12, <1>14
  <2>5. \E t \in 1 .. z - 1 :
          LET a == Len(loc'.frame) + t
          IN  /\ loc'.tail = q[t] /\ loc'.ds = q[t + 1] /\ a <= MaxSegs
              /\ Scanned(q, t, w, A, M, Len(loc'.frame), a, hw, on, cut)
              /\ \A j \in 1 .. Len(loc'.frame) :
                     /\ loc'.frame[j].data = <<A[q[1]][1], j, a>>
                     /\ cut \/ loc'.frame[j].len = <<loc'.frame[j].data>>
    <3> USE <2>3
    <3> WITNESS c + 1 \in 1 .. z - 1
    <3> QED BY <2>1, <2>4, <1>12
  <2> QED BY <2>5, <1>12, <1>14 DEF TakeAt
<1>16. At(loc', sc', ready', z, w, DataOf(desc'), LenOf(desc'), hw', on', cut')
  <2>1. loc.bf = Len(ready) + 1
    BY <1>1, <1>4 DEF Running, At
  <2> QED BY <2>1, <1>1, <1>10, <1>12, <1>15 DEF At
<1>17. Running(z, w)'
  BY <1>1, <1>4, <1>10, <1>12, <1>14, <1>16 DEF Running
<1>18. Passing(up', ready', sent', cut', hw'.frames)
  BY <1>1 DEF IInv
<1>19. Balanced(sc'.pool, sc'.idle, NbufOf(desc'), BuffersIn(ready', up', loc'), starts', loc'.at)
  <2>1. BuffersIn(ready', up', loc') = BuffersIn(ready, up, loc)
    BY <1>1, <1>12, <1>14 DEF BuffersIn
  <2>2. Balanced(sc.pool, sc.idle, NbufOf(desc), BuffersIn(ready, up, loc), starts, loc.at)
    BY DEF IInv
  <2> QED BY <1>1, <1>7, <1>10, <1>12, <2>1, <2>2 DEF Balanced
<1>20. Lists(sc'.rxdesc, sc'.idle) /\ Bare(sc'.idle, NbufOf(desc'), LenOf(desc'))
  BY <1>1, <1>6, <1>10
<1> QED BY <1>13, <1>17, <1>18, <1>19, <1>20, FromRing
-----------------------------------------------------------------------------
(* The main loop.                                                          *)

(* The MAC stands where it stood.                                          *)
LEMMA MacSame ==
    ASSUME NEW h, NEW g, g.rxdp = h.rxdp, g.seg = h.seg, g.frames = h.frames, g.rxe = h.rxe,
           NEW q, NEW z, NEW w, NEW A, NEW D, NEW k
    PROVE  /\ MacOn(h, q, z, w, A, k) <=> MacOn(g, q, z, w, A, k)
           /\ MacOff(h, q, z, D, k) <=> MacOff(g, q, z, D, k)
<1>1. MacOn(h, q, z, w, A, k) <=> MacOn(g, q, z, w, A, k)
  BY DEF MacOn
<1>2. MacOff(h, q, z, D, k) <=> MacOff(g, q, z, D, k)
  BY DEF MacOff, MacStill
<1> QED BY <1>1, <1>2

(* What Polling is.                                                        *)
LEMMA PollingIs ==
    /\ Polling \in [at : Places, ds : DescOrNull, head : DescOrNull, tail : DescOrNull,
                    cnt : Nat, bf : Nat, frame : Seq(Nbufs), frags : Nat]
    /\ Polling.at = "poll" /\ Polling.frame = << >> /\ Polling.frags = 0 /\ Polling.cnt = 0 /\ Polling.bf = 1
    /\ Len(Polling.frame) = 0
<1> DEFINE e == << >>
<1>1. e \in Seq(Nbufs) /\ Len(e) = 0
  OBVIOUS
<1>2. "poll" \in Places /\ NoDesc \in DescOrNull
  BY NoneApart DEF Places
<1>3. Polling = [at |-> "poll", ds |-> NoDesc, head |-> NoDesc, tail |-> NoDesc,
                 cnt |-> 0, bf |-> 1, frame |-> e, frags |-> 0]
  BY DEF Polling
<1> HIDE DEF e
<1>4. /\ Polling \in [at : Places, ds : DescOrNull, head : DescOrNull, tail : DescOrNull,
                      cnt : Nat, bf : Nat, frame : Seq(Nbufs), frags : Nat]
      /\ Polling.at = "poll" /\ Polling.frame = e /\ Polling.frags = 0 /\ Polling.cnt = 0 /\ Polling.bf = 1
  BY <1>1, <1>2, <1>3
<1> QED BY <1>1, <1>4 DEF e

(* The interrupt starts a pass of the handler.                             *)
LEMMA IntrStep ==
    ASSUME IInv, AthIntr
    PROVE  IInv'
<1> DEFINE q == sc.rxdesc
           A == DataOf(desc)  N == LenOf(desc)
<1>1. /\ loc.at = "poll" /\ hw.isr /\ hw' = [hw EXCEPT !.isr = FALSE]
      /\ loc' = [Polling EXCEPT !.at = "scan", !.ds = First(q), !.head = First(q)]
      /\ UNCHANGED <<sc, desc, ready, up, on, starts, sent, cut>>
  BY DEF AthIntr
<1>2. TypeInv /\ Lists(q, sc.idle) /\ Bare(sc.idle, NbufOf(desc), N)
  BY DEF IInv
<1>3. PICK z \in Nat, w \in Nat : Running(z, w)
  <2>1. ~Fresh
    BY <1>1, <1>2 DEF Fresh, TypeInv
  <2>2. ~\E k \in Nat : Building(k)
    BY <1>1 DEF Building
  <2> QED BY <2>1, <2>2 DEF IInv
<1>4. q \in Seq(Descs) /\ Len(q) \in Nat /\ starts \in Nat /\ starts >= 1 /\ on \in BOOLEAN
  BY <1>2, <1>3, Fields DEF Running, TypeInv
<1>5. Ring(q, z, w, NbufOf(desc), DoneOf(desc), LinkOf(desc)) /\ loc = Polling /\ ready = << >>
  BY <1>1, <1>3 DEF Running, At
<1>6. z \in 1 .. Len(q) - 1
  BY <1>5 DEF Ring
<1>7. First(q) = q[1] /\ q[1] \in Descs /\ q[1] \in DescOrNull
  <2>1. Len(q) >= 1
    BY <1>4, <1>6
  <2> QED BY <2>1, <1>4, FirstIs DEF DescOrNull
<1>8. hw' \in [rxdp : DescOrNull, rxe : BOOLEAN, isr : BOOLEAN, seg : SegsOrNone, frames : 0 .. MaxFrames]
      /\ hw'.rxdp = hw.rxdp /\ hw'.seg = hw.seg /\ hw'.frames = hw.frames /\ hw'.rxe = hw.rxe
  BY <1>1, <1>2 DEF TypeInv
<1>9. /\ loc' \in [at : Places, ds : DescOrNull, head : DescOrNull, tail : DescOrNull,
                   cnt : Nat, bf : Nat, frame : Seq(Nbufs), frags : Nat]
      /\ loc'.at = "scan" /\ loc'.ds = q[1] /\ loc'.head = q[1] /\ loc'.frame = Polling.frame
      /\ loc'.frags = 0 /\ loc'.cnt = 0 /\ loc'.bf = 1
  <2> DEFINE x == q[1]
  <2>1. loc' = [Polling EXCEPT !.at = "scan", !.ds = x, !.head = x]
    BY <1>1, <1>7
  <2>2. x \in DescOrNull /\ "scan" \in Places
    BY <1>7 DEF Places
  <2> HIDE DEF x
  <2>3. /\ loc' \in [at : Places, ds : DescOrNull, head : DescOrNull, tail : DescOrNull,
                     cnt : Nat, bf : Nat, frame : Seq(Nbufs), frags : Nat]
        /\ loc'.at = "scan" /\ loc'.ds = x /\ loc'.head = x /\ loc'.frame = Polling.frame
        /\ loc'.frags = 0 /\ loc'.cnt = 0 /\ loc'.bf = 1
    BY <2>1, <2>2, PollingIs
  <2> QED BY <2>3 DEF x
<1>10. TypeInv'
  BY <1>1, <1>2, <1>8, <1>9 DEF TypeInv
<1>11. ScanAt(loc', q, z, w, A, N, hw', on, cut)
  <2>1. Scanned(q, 0, w, A, N, 0, 1, hw', on, cut)
    BY DEF Scanned
  <2>2. 1 \in 1 .. MaxSegs
    BY RxAssumption
  <2>3. \E all \in 1 .. MaxSegs : 0 < all /\ Scanned(q, 0, w, A, N, 0, all, hw', on, cut)
    BY <2>1, <2>2
  <2>4. 0 < z
    BY <1>6
  <2> QED BY <2>3, <2>4, <1>9, PollingIs DEF ScanAt
<1>12. At(loc', sc', ready', z, w, DataOf(desc'), LenOf(desc'), hw', on', cut')
  <2>1. Len(ready) = 0
    BY <1>5
  <2> QED BY <2>1, <1>1, <1>9, <1>11 DEF At
<1>13. IF on THEN MacOn(hw', q, z, w, A, sc.rxlink) ELSE MacOff(hw', q, z, DoneOf(desc), sc.rxlink)
  <2>1. IF on THEN MacOn(hw, q, z, w, A, sc.rxlink) ELSE MacOff(hw, q, z, DoneOf(desc), sc.rxlink)
    BY <1>3 DEF Running
  <2> DEFINE g == hw'
  <2>2. g.rxdp = hw.rxdp /\ g.seg = hw.seg /\ g.frames = hw.frames /\ g.rxe = hw.rxe
    BY <1>8
  <2> HIDE DEF g
  <2>3. /\ MacOn(hw, q, z, w, A, sc.rxlink) <=> MacOn(g, q, z, w, A, sc.rxlink)
        /\ MacOff(hw, q, z, DoneOf(desc), sc.rxlink) <=> MacOff(g, q, z, DoneOf(desc), sc.rxlink)
    BY <2>2, MacSame
  <2> QED BY <2>1, <2>3 DEF g
<1>14. Running(z, w)'
  BY <1>1, <1>3, <1>5, <1>8, <1>9, <1>12, <1>13 DEF Running
<1>15. Passing(up', ready', sent', cut', hw'.frames)
  BY <1>1, <1>8 DEF IInv
<1>16. Balanced(sc'.pool, sc'.idle, NbufOf(desc'), BuffersIn(ready', up', loc'), starts', loc'.at)
  <2>1. BuffersIn(ready', up', loc') = BuffersIn(ready, up, loc)
    BY <1>1, <1>5, <1>9, PollingIs DEF BuffersIn
  <2>2. Balanced(sc.pool, sc.idle, NbufOf(desc), BuffersIn(ready, up, loc), starts, loc.at)
    BY DEF IInv
  <2> QED BY <1>1, <1>4, <1>9, <2>1, <2>2 DEF Balanced
<1>17. Lists(sc'.rxdesc, sc'.idle) /\ Bare(sc'.idle, NbufOf(desc'), LenOf(desc'))
  BY <1>1, <1>2
<1> QED BY <1>10, <1>14, <1>15, <1>16, <1>17, FromRing

(* The frames that are ready go to the host.                               *)
LEMMA TaskletStep ==
    ASSUME IInv, RxTasklet
    PROVE  IInv'
<1> DEFINE q == sc.rxdesc
           A == DataOf(desc)  N == LenOf(desc)
           e == << >>
<1>1. /\ loc.at = "tasklet" /\ up' = up \o ready /\ ready' = e /\ loc' = Polling
      /\ UNCHANGED <<sc, desc, hw, on, starts, cut>>
  BY DEF RxTasklet
<1>2. sent' = LastOf(ready, sent)
  BY DEF RxTasklet, LastOf
<1>3. TypeInv /\ Lists(q, sc.idle) /\ Bare(sc.idle, NbufOf(desc), N)
      /\ Passing(up, ready, sent, cut, hw.frames)
  BY DEF IInv
<1>4. /\ ready \in Seq(Seq(Nbufs)) /\ up \in Seq(Seq(Nbufs)) /\ sent \in Nat /\ hw.frames \in Nat
      /\ starts \in Nat
  BY <1>3, Fields
<1>5. PICK z \in Nat, w \in Nat : Running(z, w)
  BY <1>1, RunningPlace
<1>6. loc.frame = e /\ loc.frags = 0 /\ starts >= 1
  BY <1>1, <1>5 DEF Running, At
<1>7. e \in Seq(Seq(Nbufs)) /\ up \o ready \in Seq(Seq(Nbufs))
  BY <1>4
<1>8. sent' \in Nat
  BY <1>2, <1>3, <1>4, LastBounds
<1>9. Passing(up', ready', sent', cut', hw'.frames)
  <2>1. Passing(up \o ready, << >>, LastOf(ready, sent), cut, hw.frames)
    BY <1>3, <1>4, PassSend
  <2> QED BY <2>1, <1>1, <1>2
<1>10. Len(FlattenSeq(up')) = Len(FlattenSeq(up)) + Len(FlattenSeq(ready)) /\ Len(FlattenSeq(ready')) = 0
  BY <1>1, <1>4, FlatConcat, FlatEmpty
<1>11. Len(FlattenSeq(ready)) \in Nat /\ Len(FlattenSeq(up)) \in Nat
  BY <1>4, FlatCounts, FlatLen
<1>12. Len(e) = 0
  OBVIOUS
<1> HIDE DEF e
<1>13. TypeInv'
  BY <1>1, <1>3, <1>7, <1>8, PollingIs DEF TypeInv
<1>14. LastOf(ready', sent') = LastOf(ready, sent)
  BY <1>1, <1>2 DEF LastOf, e
<1>15. Len(loc'.frame) = Len(loc.frame)
  BY <1>1, <1>6, <1>12, PollingIs
<1>16. At(loc', sc', ready', z, w, DataOf(desc'), LenOf(desc'), hw', on', cut')
  BY <1>1, PollingIs DEF At, e
<1>17. Running(z, w)'
  BY <1>1, <1>5, <1>14, <1>15, <1>16 DEF Running
<1>18. Balanced(sc'.pool, sc'.idle, NbufOf(desc'), BuffersIn(ready', up', loc'), starts', loc'.at)
  <2>1. BuffersIn(ready', up', loc') = Len(FlattenSeq(ready')) + Len(FlattenSeq(up')) + 0 + 0
    BY <1>1, PollingIs DEF BuffersIn
  <2>2. BuffersIn(ready, up, loc) = Len(FlattenSeq(ready)) + Len(FlattenSeq(up)) + 0 + 0
    BY <1>1, <1>6 DEF BuffersIn
  <2>3. BuffersIn(ready', up', loc') = BuffersIn(ready, up, loc)
    BY <2>1, <2>2, <1>10, <1>11
  <2>4. Balanced(sc.pool, sc.idle, NbufOf(desc), BuffersIn(ready, up, loc), starts, loc.at)
    BY DEF IInv
  <2>5. loc'.at # "start" /\ starts' # 0
    BY <1>1, <1>4, <1>6, PollingIs
  <2> QED BY <1>1, <2>3, <2>4, <2>5 DEF Balanced
<1>19. Lists(sc'.rxdesc, sc'.idle) /\ Bare(sc'.idle, NbufOf(desc'), LenOf(desc'))
  BY <1>1, <1>3
<1> QED BY <1>9, <1>13, <1>17, <1>18, <1>19, FromRing

(* When the main loop polls and reception has been started.                *)
LEMMA PollPlace ==
    ASSUME IInv, loc.at = "poll"
    PROVE  /\ loc = Polling /\ ready = << >>
           /\ Fresh \/ \E z, w \in Nat : Running(z, w)
<1>1. ~\E k \in Nat : Building(k)
  BY DEF Building
<1>2. Fresh \/ \E z, w \in Nat : Running(z, w)
  BY <1>1 DEF IInv
<1>3. ASSUME NEW z \in Nat, NEW w \in Nat, Running(z, w)
      PROVE  loc = Polling /\ ready = << >>
  BY <1>3 DEF Running, At
<1> QED BY <1>2, <1>3 DEF Fresh

(* The host has taken a message.                                           *)
LEMMA SendStep ==
    ASSUME IInv, SendComplete
    PROVE  IInv'
<1> DEFINE q == sc.rxdesc
           A == DataOf(desc)  N == LenOf(desc)
           k == Len(Head(up))
<1>1. /\ loc.at = "poll" /\ up # << >> /\ up' = Tail(up)
      /\ loc' = [loc EXCEPT !.at = "complete", !.frags = k, !.ds = First(sc.idle)]
      /\ UNCHANGED <<sc, desc, ready, hw, on, starts, sent, cut>>
  BY DEF SendComplete, SplitToFrag
<1>2. TypeInv /\ Lists(q, sc.idle) /\ Bare(sc.idle, NbufOf(desc), N)
      /\ Passing(up, ready, sent, cut, hw.frames)
  BY DEF IInv
<1>3. /\ ready \in Seq(Seq(Nbufs)) /\ up \in Seq(Seq(Nbufs)) /\ starts \in Nat /\ sc.idle \in Seq(Descs)
      /\ loc = Polling /\ ready = << >>
  BY <1>1, <1>2, Fields, PollPlace
<1>4. PICK z \in Nat, w \in Nat : Running(z, w)
  <2>1. ~Fresh
    BY <1>1 DEF Fresh
  <2> QED BY <2>1, <1>1, PollPlace
<1>5. starts >= 1
  BY <1>4 DEF Running
<1>6. Passing(Tail(up), ready, sent, cut, hw.frames) /\ RightFrame(Head(up), cut)
  BY <1>1, <1>2, <1>3, PassTail
<1>7. k \in Nat /\ k <= MaxSegs
  BY <1>6, RxAssumption DEF RightFrame
<1>8. First(sc.idle) \in DescOrNull
  <2>1. Len(sc.idle) \in Nat
    BY <1>3
  <2>2. CASE Len(sc.idle) >= 1
    <3>1. sc.idle[1] \in Descs
      BY <2>2, <1>3
    <3> QED BY <3>1, <2>2, <1>3, FirstIs DEF DescOrNull
  <2>3. CASE ~(Len(sc.idle) >= 1)
    BY <2>3, <1>3, FirstIs, NoneApart
  <2> QED BY <2>2, <2>3
<1>9. Len(FlattenSeq(up)) = k + Len(FlattenSeq(up'))
  BY <1>1, <1>3, FlatTail
<1>10. up' \in Seq(Seq(Nbufs))
  BY <1>1, <1>3
<1>11. Len(FlattenSeq(ready)) \in Nat /\ Len(FlattenSeq(up')) \in Nat /\ Len(FlattenSeq(up)) \in Nat
  BY <1>3, <1>10, FlatCounts, FlatLen
<1> HIDE DEF k
<1>12. /\ loc' \in [at : Places, ds : DescOrNull, head : DescOrNull, tail : DescOrNull,
                    cnt : Nat, bf : Nat, frame : Seq(Nbufs), frags : Nat]
       /\ loc'.at = "complete" /\ loc'.ds = First(sc.idle) /\ loc'.frame = loc.frame
       /\ loc'.frags = k /\ loc'.cnt = 0 /\ loc'.bf = 1
  <2> DEFINE x == First(sc.idle)
  <2>1. "complete" \in Places
    BY DEF Places
  <2>2. loc' = [loc EXCEPT !.at = "complete", !.frags = k, !.ds = x] /\ x \in DescOrNull
    BY <1>1, <1>8
  <2> HIDE DEF x
  <2>3. /\ loc' \in [at : Places, ds : DescOrNull, head : DescOrNull, tail : DescOrNull,
                     cnt : Nat, bf : Nat, frame : Seq(Nbufs), frags : Nat]
        /\ loc'.at = "complete" /\ loc'.ds = x /\ loc'.frame = loc.frame
        /\ loc'.frags = k /\ loc'.cnt = loc.cnt /\ loc'.bf = loc.bf
    BY <2>1, <2>2, <1>2, <1>7 DEF TypeInv
  <2> QED BY <2>3, <1>3, PollingIs DEF x
<1>13. TypeInv'
  BY <1>1, <1>2, <1>10, <1>12 DEF TypeInv
<1>14. loc.frame = << >>
  BY <1>3, PollingIs
<1>15. At(loc', sc', ready', z, w, DataOf(desc'), LenOf(desc'), hw', on', cut')
  BY <1>1, <1>3, <1>7, <1>12, <1>14 DEF At
<1>16. Running(z, w)'
  BY <1>1, <1>4, <1>12, <1>15 DEF Running
<1>17. Passing(up', ready', sent', cut', hw'.frames)
  BY <1>1, <1>6
<1>18. Balanced(sc'.pool, sc'.idle, NbufOf(desc'), BuffersIn(ready', up', loc'), starts', loc'.at)
  <2>1. BuffersIn(ready', up', loc') = Len(FlattenSeq(ready)) + Len(FlattenSeq(up')) + k + 0
    BY <1>1, <1>12 DEF BuffersIn
  <2>2. BuffersIn(ready, up, loc) = Len(FlattenSeq(ready)) + Len(FlattenSeq(up)) + 0 + 0
    BY <1>3, PollingIs DEF BuffersIn
  <2>3. BuffersIn(ready', up', loc') = BuffersIn(ready, up, loc)
    BY <2>1, <2>2, <1>7, <1>9, <1>11
  <2>4. Balanced(sc.pool, sc.idle, NbufOf(desc), BuffersIn(ready, up, loc), starts, loc.at)
    BY DEF IInv
  <2> QED BY <1>1, <1>3, <1>5, <1>12, <2>3, <2>4 DEF Balanced
<1>19. Lists(sc'.rxdesc, sc'.idle) /\ Bare(sc'.idle, NbufOf(desc'), LenOf(desc'))
  BY <1>1, <1>2
<1> QED BY <1>13, <1>16, <1>17, <1>18, <1>19, FromRing

(* When no descriptor is idle, all but the held one have a buffer.         *)
LEMMA AllAttached ==
    ASSUME NEW q \in Seq(Descs), Lists(q, << >>), NEW B, B \subseteq Descs, Len(q) >= 1,
           \A i \in 1 .. Len(q) - 1 : q[i] \in B, q[Len(q)] \notin B
    PROVE  Cardinality(B) = NumDescs - 1
<1> DEFINE h == q[Len(q)]
           E == B \cup {h}
           e == << >>
<1>1. Len(q) \in 1 .. Len(q) /\ h \in Descs
  OBVIOUS
<1>2. \A d \in Descs : \E i \in 1 .. Len(q) : d = q[i]
  <2>1. Len(e) = 0 /\ Lists(q, e)
    OBVIOUS
  <2> HIDE DEF e
  <2> QED BY <2>1 DEF Lists
<1>3. Descs \subseteq E
  <2> SUFFICES ASSUME NEW d \in Descs PROVE d \in E
    OBVIOUS
  <2>1. PICK i \in 1 .. Len(q) : d = q[i]
    BY <1>2
  <2>2. i = Len(q) \/ i \in 1 .. Len(q) - 1
    OBVIOUS
  <2> QED BY <2>1, <2>2
<1>4. E = Descs
  BY <1>1, <1>3
<1>5. \A d : d \in E <=> d \in B \/ d = h
  OBVIOUS
<1> HIDE DEF E, h
<1>6. Cardinality(E) = Cardinality(B) + 1
  BY <1>1, <1>5, AttachOne DEF h
<1> QED BY <1>4, <1>6, Attachable

(* Buffers no idle descriptor can take are not put back.                   *)
LEMMA CompleteEndStep ==
    ASSUME IInv, CompleteEnd
    PROVE  IInv'
<1> DEFINE q == sc.rxdesc
           A == DataOf(desc)  N == LenOf(desc)  B == NbufOf(desc)
<1>1. /\ loc.at = "complete" /\ loc' = Polling /\ (loc.ds = NoDesc \/ loc.frags = 0)
      /\ UNCHANGED <<sc, desc, ready, up, hw, on, starts, sent, cut>>
  BY DEF CompleteEnd
<1>2. TypeInv /\ Lists(q, sc.idle) /\ Bare(sc.idle, B, N)
      /\ Passing(up, ready, sent, cut, hw.frames)
  BY DEF IInv
<1>3. /\ ready \in Seq(Seq(Nbufs)) /\ up \in Seq(Seq(Nbufs)) /\ starts \in Nat /\ sc.idle \in Seq(Descs)
      /\ loc.frags \in Nat /\ sc.pool \in Nat /\ q \in Seq(Descs)
  BY <1>2, Fields
<1>4. PICK z \in Nat, w \in Nat : Running(z, w)
  BY <1>1, RunningPlace
<1>5. starts >= 1 /\ loc.frame = << >> /\ loc.ds = First(sc.idle) /\ ready = << >>
      /\ Ring(q, z, w, B, DoneOf(desc), LinkOf(desc))
  BY <1>1, <1>4 DEF Running, At
<1>6. TypeInv'
  BY <1>1, <1>2, PollingIs DEF TypeInv
<1>7. At(loc', sc', ready', z, w, DataOf(desc'), LenOf(desc'), hw', on', cut')
  BY <1>1, <1>5, PollingIs DEF At
<1>8. Len(loc'.frame) = Len(loc.frame)
  BY <1>1, <1>5, PollingIs
<1>9. Running(z, w)'
  BY <1>1, <1>4, <1>7, <1>8 DEF Running
<1>10. Passing(up', ready', sent', cut', hw'.frames)
  BY <1>1, <1>2
<1>11. Len(FlattenSeq(ready)) \in Nat /\ Len(FlattenSeq(up)) \in Nat
  BY <1>3, FlatCounts, FlatLen
<1>12. Balanced(sc'.pool, sc'.idle, NbufOf(desc'), BuffersIn(ready', up', loc'), starts', loc'.at)
  <2> DEFINE x == Len(FlattenSeq(ready)) + Len(FlattenSeq(up))
             u == BuffersIn(ready, up, loc)  v == BuffersIn(ready', up', loc')
             b == Cardinality(B)
  <2>1. v = Len(FlattenSeq(ready)) + Len(FlattenSeq(up)) + 0 + 0
    BY <1>1, PollingIs DEF BuffersIn
  <2>2. u = Len(FlattenSeq(ready)) + Len(FlattenSeq(up)) + loc.frags + 0
    BY <1>1 DEF BuffersIn
  <2>3. v = x /\ u = x + loc.frags /\ x \in Nat
    <3> HIDE DEF u, v
    <3> QED BY <2>1, <2>2, <1>3, <1>11
  <2>4. Balanced(sc.pool, sc.idle, B, u, starts, loc.at)
    BY DEF IInv
  <2>5. sc.pool + b + u \in {NumDescs - 1, NumDescs}
    BY <2>4 DEF Balanced
  <2>6. b \in Nat
    BY Attachable DEF NbufOf
  <2>7. sc.pool + b + v \in {NumDescs - 1, NumDescs}
    <3>1. CASE loc.frags = 0
      <4> HIDE DEF u, v, x, b
      <4> QED BY <3>1, <2>3, <2>5
    <3>2. CASE loc.ds = NoDesc
      <4>1. sc.idle = << >>
        <5>1. ~(Len(sc.idle) >= 1)
          <6> SUFFICES ASSUME Len(sc.idle) >= 1 PROVE FALSE
            OBVIOUS
          <6>1. sc.idle[1] \in Descs
            BY <1>3
          <6>2. sc.idle[1] = NoDesc
            BY <3>2, <1>3, <1>5, FirstIs
          <6> QED BY <6>1, <6>2, NoneApart
        <5> QED BY <5>1, <1>3
      <4>2. b = NumDescs - 1
        <5>1. Lists(q, << >>)
          BY <4>1, <1>2
        <5>2. Len(q) \in Nat /\ z \in 1 .. Len(q) - 1
          BY <1>3, <1>5 DEF Ring
        <5>3. Len(q) >= 1
          BY <5>2
        <5>4. (\A i \in 1 .. Len(q) - 1 : q[i] \in B) /\ q[Len(q)] \notin B
          BY <1>5 DEF Ring
        <5>5. B \subseteq Descs
          BY DEF NbufOf
        <5> HIDE DEF q, B
        <5> QED BY <5>1, <5>3, <5>4, <5>5, <1>3, AllAttached
      <4> HIDE DEF u, v, x, b
      <4> QED BY <4>2, <2>3, <2>5, <2>6, <1>3, RxAssumption, SMTT(60)
    <3> QED BY <1>1, <3>1, <3>2
  <2>8. loc'.at # "start" /\ starts' # 0
    BY <1>1, <1>3, <1>5, PollingIs
  <2> HIDE DEF v, u, b
  <2> QED BY <1>1, <2>4, <2>7, <2>8 DEF Balanced, v, b
<1>13. Lists(sc'.rxdesc, sc'.idle) /\ Bare(sc'.idle, NbufOf(desc'), LenOf(desc'))
  BY <1>1, <1>2
<1> QED BY <1>6, <1>9, <1>10, <1>12, <1>13, FromRing

(* The host stops reception.                                               *)
LEMMA StopStep ==
    ASSUME IInv, StopRecv
    PROVE  IInv'
<1> DEFINE q == sc.rxdesc
           A == DataOf(desc)  N == LenOf(desc)
<1>1. /\ loc.at = "poll" /\ on /\ on' = FALSE
      /\ sc' = [sc EXCEPT !.rxlink = NoDesc] /\ hw' = [hw EXCEPT !.rxe = FALSE, !.seg = NoSeg]
      /\ UNCHANGED <<desc, ready, up, loc, starts, sent, cut>>
  BY DEF StopRecv
<1>2. TypeInv /\ Lists(q, sc.idle) /\ Bare(sc.idle, NbufOf(desc), N)
      /\ Passing(up, ready, sent, cut, hw.frames)
  BY DEF IInv
<1>3. PICK z \in Nat, w \in Nat : Running(z, w)
  <2>1. ~Fresh
    BY <1>1 DEF Fresh
  <2> QED BY <2>1, <1>1, PollPlace
<1>4. loc = Polling /\ ready = << >>
  BY <1>1, PollPlace
<1>5. /\ sc' \in [rxdesc : Seq(Descs), idle : Seq(Descs), held : DescOrNull, rxlink : DescOrNull, pool : Nat]
      /\ sc'.rxdesc = q /\ sc'.idle = sc.idle /\ sc'.held = sc.held /\ sc'.pool = sc.pool /\ sc'.rxlink = NoDesc
  BY <1>1, <1>2, NoneApart DEF TypeInv
<1>6. /\ hw' \in [rxdp : DescOrNull, rxe : BOOLEAN, isr : BOOLEAN, seg : SegsOrNone, frames : 0 .. MaxFrames]
      /\ hw'.rxe = FALSE /\ hw'.seg = NoSeg /\ hw'.frames = hw.frames
  <2> DEFINE e == NoSeg
  <2>1. e \in SegsOrNone /\ hw' = [hw EXCEPT !.rxe = FALSE, !.seg = e]
    BY <1>1, NoneApart
  <2> HIDE DEF e
  <2>2. /\ hw' \in [rxdp : DescOrNull, rxe : BOOLEAN, isr : BOOLEAN, seg : SegsOrNone, frames : 0 .. MaxFrames]
        /\ hw'.rxe = FALSE /\ hw'.seg = e /\ hw'.frames = hw.frames
    BY <2>1, <1>2 DEF TypeInv
  <2> QED BY <2>2 DEF e
<1>7. TypeInv'
  BY <1>1, <1>2, <1>5, <1>6 DEF TypeInv
<1>8. MacOff(hw', q, z, DoneOf(desc), NoDesc)
  BY <1>6 DEF MacOff, MacStill
<1>9. At(loc', sc', ready', z, w, DataOf(desc'), LenOf(desc'), hw', on', cut')
  BY <1>1, <1>4, PollingIs DEF At
<1>10. Running(z, w)'
  BY <1>1, <1>3, <1>5, <1>6, <1>8, <1>9 DEF Running
<1>11. Passing(up', ready', sent', cut', hw'.frames)
  BY <1>1, <1>2, <1>6
<1>12. Balanced(sc'.pool, sc'.idle, NbufOf(desc'), BuffersIn(ready', up', loc'), starts', loc'.at)
  BY <1>1, <1>5 DEF IInv
<1>13. Lists(sc'.rxdesc, sc'.idle) /\ Bare(sc'.idle, NbufOf(desc'), LenOf(desc'))
  BY <1>1, <1>2, <1>5
<1> QED BY <1>7, <1>10, <1>11, <1>12, <1>13, FromRing

(* An idle descriptor comes back at the end of the list, and the one held  *)
(* before is set up.                                                       *)
Joins(q, r, n, d, B, D, L, E, F, K, k) ==
    /\ n \in Nat /\ Len(q) = n /\ Len(r) = n + 1
    /\ \A i, j \in 1 .. n : q[i] = q[j] => i = j
    /\ \A i \in 1 .. n : q[i] \in Descs /\ q[i] # d
    /\ (\A i \in 1 .. n : r[i] = q[i]) /\ r[n + 1] = d /\ d \notin B
    /\ \A e : e \in E <=> e \in B \/ e = q[n]
    /\ \A e : e \in F <=> e \in D /\ e # q[n]
    /\ \A e \in Descs : K[e] = IF e = q[n] THEN NoDesc ELSE IF e = k THEN q[n] ELSE L[e]

(* The ring is one again, and longer, after an idle descriptor has come    *)
(* back.                                                                   *)
LEMMA JoinRing ==
    ASSUME NEW q, NEW r, NEW n, NEW d, NEW B, NEW D, NEW L, NEW E, NEW F, NEW K, NEW k,
           Joins(q, r, n, d, B, D, L, E, F, K, k),
           NEW z \in Nat, NEW w \in Nat, Ring(q, z, w, B, D, L),
           NEW y \in Nat,
           \/ z = n - 1 /\ k = q[n - 1] /\ y = n
           \/ (k = NoDesc \/ (k = q[n - 1] /\ z < n - 1)) /\ y = z
    PROVE  Ring(r, y, w, E, F, K)
<1>0. /\ n \in Nat /\ Len(q) = n /\ Len(r) = n + 1
      /\ \A i, j \in 1 .. n : q[i] = q[j] => i = j
      /\ \A i \in 1 .. n : q[i] \in Descs /\ q[i] # d
      /\ (\A i \in 1 .. n : r[i] = q[i]) /\ r[n + 1] = d /\ d \notin B
      /\ \A e : e \in E <=> e \in B \/ e = q[n]
      /\ \A e : e \in F <=> e \in D /\ e # q[n]
      /\ \A e \in Descs : K[e] = IF e = q[n] THEN NoDesc ELSE IF e = k THEN q[n] ELSE L[e]
  BY Zenon DEF Joins
<1>1. /\ z \in 1 .. n - 1 /\ w \in 0 .. z
      /\ \A i \in 1 .. z : L[q[i]] = IF i < z THEN q[i + 1] ELSE NoDesc
      /\ \A i \in 1 .. n - 1 : q[i] \in B /\ (q[i] \in D <=> i <= w)
  BY <1>0 DEF Ring
<1>2. y \in 1 .. n /\ w \in 0 .. y /\ y >= z
  BY <1>0, <1>1
<1>3. ASSUME NEW i \in 1 .. n
      PROVE  r[i] \in E /\ (r[i] \in F <=> i <= w)
  <2>1. r[i] = q[i]
    BY <1>0
  <2>2. CASE i = n
    <3>1. ~(i <= w)
      BY <2>2, <1>0, <1>1
    <3> QED BY <2>1, <2>2, <3>1, <1>0
  <2>3. CASE i # n
    <3>1. i \in 1 .. n - 1 /\ n \in 1 .. n
      BY <2>3, <1>0
    <3>2. q[i] # q[n]
      BY <2>3, <3>1, <1>0
    <3>3. q[i] \in B /\ (q[i] \in D <=> i <= w)
      BY <3>1, <1>1
    <3> QED BY <2>1, <3>2, <3>3, <1>0
  <2> QED BY <2>2, <2>3
<1>4. ASSUME NEW i \in 1 .. y
      PROVE  K[r[i]] = IF i < y THEN r[i + 1] ELSE NoDesc
  <2>1. i \in 1 .. n /\ n \in 1 .. n /\ n - 1 \in 1 .. n /\ r[i] = q[i] /\ q[i] \in Descs
    BY <1>0, <1>1, <1>2
  <2>2. K[q[i]] = IF q[i] = q[n] THEN NoDesc ELSE IF q[i] = k THEN q[n] ELSE L[q[i]]
    BY <2>1, <1>0
  <2>3. q[i] = q[n] <=> i = n
    BY <2>1, <1>0
  <2>4. q[i] = q[n - 1] <=> i = n - 1
    BY <2>1, <1>0
  <2>5. i < n => r[i + 1] = q[i + 1]
    BY <2>1, <1>0
  <2>6. CASE z = n - 1 /\ k = q[n - 1] /\ y = n
    <3>1. CASE i = n
      BY <3>1, <2>1, <2>2, <2>6, <1>0
    <3>2. CASE i = n - 1
      <4>1. i < n /\ i < y /\ i + 1 = n /\ i # n
        BY <3>2, <2>6, <1>0
      <4> QED BY <4>1, <3>2, <2>1, <2>2, <2>3, <2>5, <2>6
    <3>3. CASE i # n /\ i # n - 1
      <4>1. i \in 1 .. z /\ i < z /\ i < n /\ i < y
        BY <3>3, <2>6, <1>0
      <4>2. L[q[i]] = q[i + 1]
        BY <4>1, <1>1
      <4> QED BY <4>1, <4>2, <3>3, <2>1, <2>2, <2>3, <2>4, <2>5, <2>6
    <3> QED BY <3>1, <3>2, <3>3
  <2>7. CASE (k = NoDesc \/ (k = q[n - 1] /\ z < n - 1)) /\ y = z
    <3>1. i \in 1 .. z /\ i # n /\ i < n
      BY <2>7, <1>0, <1>1
    <3>2. q[i] # k
      <4>1. CASE k = NoDesc
        BY <4>1, <2>1, NoneApart
      <4>2. CASE k = q[n - 1] /\ z < n - 1
        <5>1. i # n - 1
          BY <4>2, <3>1, <1>0
        <5> QED BY <4>2, <5>1, <2>4
      <4> QED BY <2>7, <4>1, <4>2
    <3>3. L[q[i]] = IF i < z THEN q[i + 1] ELSE NoDesc
      BY <3>1, <1>1
    <3> QED BY <3>1, <3>2, <3>3, <2>1, <2>2, <2>3, <2>5, <2>7
  <2> QED BY <2>6, <2>7
<1>5. r[n + 1] \notin E
  <2>1. n \in 1 .. n
    BY <1>0, <1>1
  <2> QED BY <2>1, <1>0
<1>6. Len(r) = n + 1 /\ (n + 1) - 1 = n
  BY <1>0
<1> QED BY <1>2, <1>3, <1>4, <1>5, <1>6 DEF Ring

(* The list has become longer.                                             *)
Longer(q, r, n, A, N, C, M) ==
    /\ n \in Nat /\ Len(q) = n /\ Len(r) = n + 1
    /\ \A i \in 1 .. n : r[i] = q[i]
    /\ \A i \in 1 .. n - 1 : C[q[i]] = A[q[i]] /\ M[q[i]] = N[q[i]]
    /\ M[q[n]] = NoLen

(* It holds what it held.                                                  *)
LEMMA LongerKeeps ==
    ASSUME NEW q, NEW r, NEW n, NEW A, NEW N, NEW C, NEW M, Longer(q, r, n, A, N, C, M),
           NEW w \in Nat, w <= n - 1, NEW b, NEW lo, NEW hi, NEW ct,
           Contents(q, w, A, b, lo, hi), Lengths(q, w, A, N, ct)
    PROVE  Contents(r, w, C, b, lo, hi) /\ Lengths(r, w, C, M, ct)
<1>0. /\ n \in Nat /\ Len(q) = n /\ Len(r) = n + 1
      /\ \A i \in 1 .. n : r[i] = q[i]
      /\ \A i \in 1 .. n - 1 : C[q[i]] = A[q[i]] /\ M[q[i]] = N[q[i]]
      /\ M[q[n]] = NoLen
  BY Zenon DEF Longer
<1>1. ASSUME NEW i \in 1 .. n - 1
      PROVE  C[r[i]] = A[q[i]] /\ M[r[i]] = N[q[i]]
  <2>1. i \in 1 .. n
    BY <1>0
  <2> QED BY <2>1, <1>0
<1>2. \A i \in 1 .. w : i \in 1 .. n - 1
  BY <1>0
<1>3. Contents(r, w, C, b, lo, hi)
  <2>1. \A i \in 1 .. w : /\ C[r[i]] \in Segs /\ C[r[i]][2] <= C[r[i]][3]
                          /\ lo < C[r[i]][1] /\ C[r[i]][1] <= hi
    BY <1>1, <1>2 DEF Contents
  <2>2. ASSUME NEW i \in 1 .. w - 1
        PROVE  Follows(C[r[i]], C[r[i + 1]])
    <3>1. i \in 1 .. w /\ i + 1 \in 1 .. w
      OBVIOUS
    <3>2. C[r[i]] = A[q[i]] /\ C[r[i + 1]] = A[q[i + 1]]
      BY <3>1, <1>1, <1>2
    <3> QED BY <3>2 DEF Contents
  <2>3. ASSUME NEW i \in 1 .. w, NEW j \in 1 .. w, i <= j
        PROVE  C[r[i]][1] <= C[r[j]][1]
    <3>1. C[r[i]] = A[q[i]] /\ C[r[j]] = A[q[j]]
      BY <1>1, <1>2
    <3> QED BY <2>3, <3>1 DEF Contents
  <2>4. w >= 1 => C[r[1]][2] = b + 1
    <3> HAVE w >= 1
    <3>1. 1 \in 1 .. w
      OBVIOUS
    <3>2. C[r[1]] = A[q[1]]
      BY <3>1, <1>1, <1>2
    <3> QED BY <3>2 DEF Contents
  <2> QED BY <2>1, <2>2, <2>3, <2>4 DEF Contents
<1>4. ASSUME NEW i \in 1 .. n
      PROVE  ct \/ M[r[i]] = NoLen \/ (i <= w /\ M[r[i]] = <<C[r[i]]>>)
  <2>1. CASE i = n
    BY <2>1, <1>0
  <2>2. CASE i # n
    <3>1. i \in 1 .. n - 1
      BY <2>2, <1>0
    <3>2. C[r[i]] = A[q[i]] /\ M[r[i]] = N[q[i]]
      BY <3>1, <1>1
    <3>3. ct \/ N[q[i]] = NoLen \/ (i <= w /\ N[q[i]] = <<A[q[i]]>>)
      BY <3>1, <1>0 DEF Lengths
    <3> QED BY <3>2, <3>3
  <2> QED BY <2>1, <2>2
<1>5. Lengths(r, w, C, M, ct)
  <2>1. Len(r) - 1 = n
    BY <1>0
  <2> QED BY <2>1, <1>4 DEF Lengths
<1> QED BY <1>3, <1>5

(* The MAC stands where it stood.                                          *)
LEMMA LongerMac ==
    ASSUME NEW q, NEW r, NEW n, NEW A, NEW N, NEW C, NEW M, Longer(q, r, n, A, N, C, M),
           NEW z \in Nat, NEW w \in Nat, w <= z, NEW h, NEW g, NEW k, MacOn(h, q, z, w, A, k),
           g.rxdp = h.rxdp, g.seg = h.seg, g.frames = h.frames
    PROVE  MacOn(g, r, n, w, C, q[n])
<1>0. /\ n \in Nat /\ Len(q) = n /\ Len(r) = n + 1
      /\ \A i \in 1 .. n : r[i] = q[i]
      /\ \A i \in 1 .. n - 1 : C[q[i]] = A[q[i]]
  BY DEF Longer
<1>1. z = n - 1
  BY <1>0 DEF MacOn
<1>2. PICK p \in 1 .. z : h.rxdp = q[p] /\ w \in {p - 1, p}
  BY DEF MacOn
<1>3. p \in 1 .. n /\ n \in 1 .. n
  BY <1>0, <1>1
<1>4. g.rxdp = r[p] /\ r[n] = q[n] /\ n = Len(r) - 1
  BY <1>0, <1>2, <1>3
<1>5. w >= 1 => C[r[w]] = A[q[w]]
  <2> HAVE w >= 1
  <2>1. w \in 1 .. n - 1 /\ w \in 1 .. n
    BY <1>0, <1>1
  <2> QED BY <2>1, <1>0
<1>6. \E i \in 1 .. n : g.rxdp = r[i] /\ w \in {i - 1, i}
  BY <1>2, <1>3, <1>4
<1>7. h.seg = IF w >= 1 /\ A[q[w]][2] # A[q[w]][3] THEN A[q[w]] ELSE NoSeg
  BY DEF MacOn
<1>8. g.seg = IF w >= 1 /\ C[r[w]][2] # C[r[w]][3] THEN C[r[w]] ELSE NoSeg
  BY <1>5, <1>7
<1>9. g.seg # NoSeg => g.seg[1] = g.frames
  BY DEF MacOn
<1> QED BY <1>4, <1>6, <1>8, <1>9 DEF MacOn

(* A buffer and an idle descriptor come back.                              *)
LEMMA CompleteOneStep ==
    ASSUME IInv, CompleteStep
    PROVE  IInv'
<1> DEFINE q == sc.rxdesc
           n == Len(q)
           d == sc.idle[1]
           h == q[n]
           B == NbufOf(desc)  D == DoneOf(desc)  L == LinkOf(desc)
           A == DataOf(desc)  N == LenOf(desc)
           E == NbufOf(desc')  F == DoneOf(desc')  K == LinkOf(desc')
           C == DataOf(desc')  M == LenOf(desc')
           k == sc.rxlink
           s == [sc EXCEPT !.pool = @ + 1, !.idle = Without(@, loc.ds), !.rxdesc = Append(@, loc.ds)]
           r == Append(q, d)
           u == Tail(sc.idle)
<1>1. /\ loc.at = "complete" /\ loc.ds # NoDesc /\ loc.frags > 0
      /\ sc' = IF InitFails(s, desc) THEN s ELSE InitSc(s, desc, loc.ds)
      /\ desc' = IF InitFails(s, desc) THEN desc ELSE InitDesc(s, desc)
      /\ hw' = IF InitFails(s, desc) THEN hw ELSE InitHw(s)
      /\ loc' = [loc EXCEPT !.frags = @ - 1, !.ds = NextIn(sc.idle, loc.ds)]
      /\ UNCHANGED <<ready, up, on, starts, sent, cut>>
  BY DEF CompleteStep
<1>2. TypeInv /\ Lists(q, sc.idle) /\ Bare(sc.idle, B, N) /\ Passing(up, ready, sent, cut, hw.frames)
      /\ Balanced(sc.pool, sc.idle, B, BuffersIn(ready, up, loc), starts, loc.at)
  BY DEF IInv
<1>3. /\ q \in Seq(Descs) /\ n \in Nat /\ sc.idle \in Seq(Descs) /\ sc.pool \in Nat /\ k \in DescOrNull
      /\ desc \in [Descs -> RxDescs] /\ loc.frags \in Nat /\ starts \in Nat /\ loc.frame \in Seq(Nbufs)
      /\ on \in BOOLEAN /\ ready \in Seq(Seq(Nbufs)) /\ up \in Seq(Seq(Nbufs)) /\ hw.frames \in Nat
  BY <1>2, Fields DEF TypeInv
<1>4. PICK z \in Nat, w \in Nat : Running(z, w)
  BY <1>1, RunningPlace
<1>5. /\ Ring(q, z, w, B, D, L) /\ sc.held = h /\ starts >= 1
      /\ Contents(q, w, A, Len(loc.frame), LastOf(ready, sent), hw.frames)
      /\ Lengths(q, w, A, N, cut)
      /\ IF on THEN MacOn(hw, q, z, w, A, k) ELSE MacOff(hw, q, z, D, k)
      /\ At(loc, sc, ready, z, w, A, N, hw, on, cut)
  BY <1>4 DEF Running
<1>6. /\ loc.frame = << >> /\ loc.ds = First(sc.idle) /\ loc.frags <= MaxSegs /\ loc.cnt = 0 /\ loc.bf = 1
      /\ ready = << >>
  BY <1>1, <1>5 DEF At
<1>7. Len(sc.idle) >= 1 /\ loc.ds = d /\ d \in Descs
  <2>1. Len(sc.idle) >= 1
    BY <1>1, <1>3, <1>6, FirstIs
  <2> QED BY <2>1, <1>3, <1>6, FirstIs
<1>8. /\ z \in 1 .. n - 1 /\ w \in 0 .. z /\ n >= 2 /\ n \in 1 .. n
      /\ \A i \in 1 .. n : q[i] \in Descs
  BY <1>3, <1>5, SMTT(60) DEF Ring
<1>9. /\ \A i, j \in 1 .. n : q[i] = q[j] => i = j
      /\ \A i \in 1 .. n : q[i] # d
      /\ \A i, j \in 1 .. Len(sc.idle) : sc.idle[i] = sc.idle[j] => i = j
  BY <1>2, <1>3, <1>7 DEF Lists
<1>10. h \in Descs /\ h \notin B /\ d \notin B /\ d # h
  BY <1>2, <1>3, <1>5, <1>7, <1>8, <1>9 DEF Ring, Bare
<1>11. sc.pool = 0
  <2>1. sc.idle # << >>
    BY <1>3, <1>7
  <2> QED BY <2>1, <1>2 DEF Balanced
<1>12. Without(sc.idle, d) = u
  <2> DEFINE t == sc.idle
  <2>1. t \in Seq(Descs) /\ Len(t) >= 1 /\ \A i, j \in 1 .. Len(t) : t[i] = t[j] => i = j
    BY <1>3, <1>7, <1>9
  <2> HIDE DEF t
  <2>2. Without(t, t[1]) = Tail(t)
    BY <2>1, WithoutFirst
  <2> QED BY <2>2 DEF t
<1>13. /\ r \in Seq(Descs) /\ Len(r) = n + 1 /\ (\A i \in 1 .. n : r[i] = q[i]) /\ r[n + 1] = d
       /\ u \in Seq(Descs) /\ Len(u) = Len(sc.idle) - 1 /\ (\A i \in 1 .. Len(sc.idle) - 1 : u[i] = sc.idle[i + 1])
  BY <1>3, <1>7, AppendIs, TailIs
<1> HIDE DEF r, u, d, h, n, q
<1>14. /\ s \in [rxdesc : Seq(Descs), idle : Seq(Descs), held : DescOrNull, rxlink : DescOrNull, pool : Nat]
       /\ s.rxdesc = r /\ s.idle = u /\ s.held = h /\ s.rxlink = k /\ s.pool = 1
  <2>1. s = [sc EXCEPT !.pool = 1, !.idle = u, !.rxdesc = r]
    BY <1>2, <1>7, <1>11, <1>12 DEF TypeInv, r, q
  <2>2. sc \in [rxdesc : Seq(Descs), idle : Seq(Descs), held : DescOrNull, rxlink : DescOrNull, pool : Nat]
    BY <1>2 DEF TypeInv
  <2> HIDE DEF s
  <2> QED BY <2>1, <2>2, <1>5, <1>13
<1>15. ~InitFails(s, desc)
  BY <1>14 DEF InitFails
<1>16. ~desc[h].nbuf /\ h # NoDesc
  BY <1>10, NoneApart, Zenon DEF NbufOf, B
<1>17. sc' = InitSc(s, desc, d) /\ desc' = InitDesc(s, desc) /\ hw' = InitHw(s)
  BY <1>1, <1>7, <1>15
<1>18. loc' = [loc EXCEPT !.frags = @ - 1, !.ds = NextIn(sc.idle, d)]
  BY <1>1, <1>7
<1> HIDE DEF s
<1>19. /\ sc' \in [rxdesc : Seq(Descs), idle : Seq(Descs), held : DescOrNull, rxlink : DescOrNull, pool : Nat]
       /\ sc'.rxdesc = r /\ sc'.idle = u /\ sc'.held = d /\ sc'.rxlink = h /\ sc'.pool = 0
  <2>1. sc' = [s EXCEPT !.held = d, !.rxlink = h, !.pool = 0]
    BY <1>14, <1>16, <1>17 DEF InitSc
  <2>2. d \in DescOrNull /\ h \in DescOrNull
    BY <1>7, <1>10 DEF DescOrNull
  <2> QED BY <2>1, <2>2, <1>14
<1>20. InitViews(desc, desc', h, k)
  BY <1>3, <1>10, <1>14, <1>17, InitDescViews
<1>21. /\ desc' \in [Descs -> RxDescs]
       /\ \A e : e \in E <=> e \in B \/ e = h
       /\ \A e : e \in F <=> e \in D /\ e # h
       /\ \A e \in Descs :
            /\ K[e] = IF e = h THEN NoDesc ELSE IF e = k THEN h ELSE L[e]
            /\ C[e] = IF e = h THEN NoSeg ELSE A[e]
            /\ M[e] = IF e = h /\ h \notin B THEN NoLen ELSE N[e]
  BY <1>20, Zenon DEF InitViews
<1>22. /\ hw' \in [rxdp : DescOrNull, rxe : BOOLEAN, isr : BOOLEAN, seg : SegsOrNone, frames : 0 .. MaxFrames]
       /\ hw'.rxdp = (IF k = NoDesc THEN h ELSE hw.rxdp) /\ hw'.seg = hw.seg /\ hw'.frames = hw.frames
  BY <1>2, <1>3, <1>10, <1>14, <1>17, InitHwFields
<1>23. B \subseteq Descs
  BY DEF NbufOf
<1> HIDE DEF B, D, L, A, N, E, F, K, C, M, k
<1>24. NextIn(sc.idle, d) = First(u) /\ First(u) \in DescOrNull
  <2> DEFINE t == sc.idle
             x == Tail(t)
  <2>1. t \in Seq(Descs) /\ Len(t) >= 1 /\ \A i, j \in 1 .. Len(t) : t[i] = t[j] => i = j
    BY <1>3, <1>7, <1>9
  <2>2. x = u /\ t[1] = d
    BY DEF u, d
  <2>3. x \in Seq(Descs) /\ Len(x) = Len(t) - 1 /\ (\A i \in 1 .. Len(t) - 1 : x[i] = t[i + 1])
    BY <1>13, <2>2
  <2>4. Len(t) \in Nat
    BY <2>1
  <2> HIDE DEF t, x
  <2>5. 1 \in 1 .. Len(t)
    BY <2>1, <2>4
  <2>6. NextIn(t, t[1]) = IF 1 < Len(t) THEN t[1 + 1] ELSE NoDesc
    BY <2>1, <2>5, NextInAt
  <2>7. First(x) = IF Len(x) >= 1 THEN x[1] ELSE NoDesc
    BY <2>3, FirstIs
  <2>8. 1 < Len(t) => 1 \in 1 .. Len(t) - 1 /\ Len(x) >= 1 /\ 1 + 1 \in 1 .. Len(t)
    BY <2>3, <2>4
  <2>9. ~(1 < Len(t)) => ~(Len(x) >= 1)
    BY <2>3, <2>4
  <2>10. NextIn(t, t[1]) = First(x)
    BY <2>3, <2>6, <2>7, <2>8, <2>9
  <2>11. First(x) \in DescOrNull
    <3>1. CASE 1 < Len(t)
      <4>1. t[1 + 1] \in Descs
        BY <3>1, <2>1, <2>8
      <4> QED BY <4>1, <3>1, <2>6, <2>10 DEF DescOrNull
    <3>2. CASE ~(1 < Len(t))
      BY <3>2, <2>6, <2>10, NoneApart
    <3> QED BY <3>1, <3>2
  <2> QED BY <2>2, <2>10, <2>11 DEF t
<1>25. /\ loc' \in [at : Places, ds : DescOrNull, head : DescOrNull, tail : DescOrNull,
                    cnt : Nat, bf : Nat, frame : Seq(Nbufs), frags : Nat]
       /\ loc'.at = "complete" /\ loc'.ds = First(u) /\ loc'.frags = loc.frags - 1 /\ loc'.frame = loc.frame
       /\ loc'.cnt = loc.cnt /\ loc'.bf = loc.bf
  <2> DEFINE x == First(u)  f == loc.frags - 1
  <2>1. loc' = [loc EXCEPT !.frags = f, !.ds = x] /\ x \in DescOrNull /\ f \in Nat
    BY <1>1, <1>2, <1>3, <1>18, <1>24 DEF TypeInv
  <2> HIDE DEF x, f
  <2>2. /\ loc' \in [at : Places, ds : DescOrNull, head : DescOrNull, tail : DescOrNull,
                     cnt : Nat, bf : Nat, frame : Seq(Nbufs), frags : Nat]
        /\ loc'.at = "complete" /\ loc'.ds = x /\ loc'.frags = f /\ loc'.frame = loc.frame
        /\ loc'.cnt = loc.cnt /\ loc'.bf = loc.bf
    BY <2>1, <1>1, <1>2 DEF TypeInv
  <2> QED BY <2>2 DEF x, f
<1>26. TypeInv'
  BY <1>1, <1>2, <1>19, <1>21, <1>22, <1>25 DEF TypeInv
<1>27. Lists(r, u)
  <2>1. Backed(q, sc.idle, r, u)
    <3>1. r[Len(q) + 1] = sc.idle[1]
      BY <1>13 DEF n, d
    <3>2. Len(r) = Len(q) + 1 /\ \A i \in 1 .. Len(q) : r[i] = q[i]
      BY <1>13 DEF n
    <3> QED BY <3>1, <3>2, <1>7, <1>13, Zenon DEF Backed
  <2> QED BY <2>1, <1>2, <1>3, BackList DEF q
<1>28. Bare(u, E, M)
  <2>1. ASSUME NEW e \in Descs, e \notin E
        PROVE  M[e] = NoLen
    BY <2>1, <1>2, <1>21 DEF Bare, B, N
  <2>2. ASSUME NEW i \in 1 .. Len(u)
        PROVE  u[i] \notin E
    <3>1. i + 1 \in 1 .. Len(sc.idle) /\ u[i] = sc.idle[i + 1]
      BY <1>3, <1>13
    <3>2. sc.idle[i + 1] \notin B
      BY <3>1, <1>2 DEF Bare, B
    <3>3. sc.idle[i + 1] # q[n]
      BY <3>1, <1>2, <1>8 DEF Lists, n, q
    <3> QED BY <3>1, <3>2, <3>3, <1>21 DEF h
  <2> QED BY <2>1, <2>2 DEF Bare
<1>29. /\ on => z = n - 1 /\ k = q[n - 1]
       /\ ~on => MacStill(hw, D, k) /\ (k = NoDesc \/ (k = q[n - 1] /\ z < n - 1))
  BY <1>5 DEF MacOn, MacOff, D, k, n, q
<1>30. PICK y \in Nat : (on => y = n) /\ (~on => y = z)
  <2>1. n \in Nat
    BY <1>3 DEF n, q
  <2> QED BY <2>1
<1>31. Ring(r, y, w, E, F, K)
  <2>1. /\ \A e : e \in E <=> e \in B \/ e = q[n]
        /\ \A e : e \in F <=> e \in D /\ e # q[n]
        /\ \A e \in Descs : K[e] = IF e = q[n] THEN NoDesc ELSE IF e = k THEN q[n] ELSE L[e]
    BY <1>21 DEF h
  <2>2. Len(q) = n /\ (\A i \in 1 .. n : q[i] \in Descs /\ q[i] # d) /\ n \in Nat
    BY <1>3, <1>8, <1>9 DEF n
  <2>3. Joins(q, r, n, d, B, D, L, E, F, K, k)
    BY <2>1, <2>2, <1>9, <1>10, <1>13, Zenon DEF Joins
  <2>4. \/ z = n - 1 /\ k = q[n - 1] /\ y = n
        \/ (k = NoDesc \/ (k = q[n - 1] /\ z < n - 1)) /\ y = z
    BY <1>29, <1>30
  <2>5. Ring(q, z, w, B, D, L)
    BY <1>5 DEF q, B, D, L
  <2> QED BY <2>3, <2>4, <2>5, <1>30, JoinRing
<1>32. Longer(q, r, n, A, N, C, M)
  <2>1. ASSUME NEW i \in 1 .. n - 1
        PROVE  C[q[i]] = A[q[i]] /\ M[q[i]] = N[q[i]]
    <3>1. i \in 1 .. n /\ i # n
      BY <1>3 DEF n, q
    <3>2. q[i] \in Descs /\ q[i] # h
      BY <3>1, <1>8, <1>9 DEF h
    <3> QED BY <3>2, <1>21
  <2>2. M[q[n]] = NoLen
    BY <1>10, <1>21 DEF h
  <2>3. Len(q) = n /\ n \in Nat
    BY <1>3 DEF n
  <2> QED BY <2>1, <2>2, <2>3, <1>13, Zenon DEF Longer
<1>33. w <= n - 1 /\ w <= z
  BY <1>3, <1>8
<1>34. Contents(r, w, C, Len(loc.frame), LastOf(ready, sent), hw.frames) /\ Lengths(r, w, C, M, cut)
  <2> DEFINE x == Len(loc.frame)  lo == LastOf(ready, sent)  hi == hw.frames
  <2>1. Contents(q, w, A, x, lo, hi) /\ Lengths(q, w, A, N, cut)
    BY <1>5 DEF q, A, N
  <2> HIDE DEF x, lo, hi
  <2>2. Contents(r, w, C, x, lo, hi) /\ Lengths(r, w, C, M, cut)
    BY <2>1, <1>32, <1>33, LongerKeeps
  <2> QED BY <2>2 DEF x, lo, hi
<1>35. IF on THEN MacOn(hw', r, y, w, C, h) ELSE MacOff(hw', r, y, F, h)
  <2>1. CASE on
    <3>1. k # NoDesc
      <4>1. n - 1 \in 1 .. n
        BY <1>3, <1>8
      <4>2. q[n - 1] \in Descs
        BY <4>1, <1>8
      <4> QED BY <2>1, <4>2, <1>29, NoneApart
    <3> DEFINE g == hw'
    <3>2. g.rxdp = hw.rxdp /\ g.seg = hw.seg /\ g.frames = hw.frames
      BY <3>1, <1>22
    <3>3. MacOn(hw, q, z, w, A, k)
      BY <2>1, <1>5 DEF q, A, k
    <3> HIDE DEF g
    <3>4. MacOn(g, r, n, w, C, q[n])
      BY <3>2, <3>3, <1>32, <1>33, LongerMac
    <3> QED BY <2>1, <3>4, <1>30 DEF g, h
  <2>2. CASE ~on
    <3>1. MacStill(hw', F, h)
      <4> DEFINE g == hw'
      <4>1. g = InitHw(s) /\ s.held \in Descs /\ s.rxlink \in DescOrNull /\ MacStill(hw, D, s.rxlink)
        BY <2>2, <1>3, <1>10, <1>14, <1>17, <1>29 DEF k
      <4>2. \A e : e \in F <=> e \in D /\ e # s.held
        BY <1>14, <1>21
      <4> HIDE DEF g
      <4>3. MacStill(g, F, h)
        BY <4>1, <4>2, <1>2, InitHwStill
      <4> QED BY <4>3 DEF g
    <3>2. h = r[Len(r) - 1] /\ y < Len(r) - 1
      <4>1. Len(r) - 1 = n /\ r[n] = q[n]
        BY <1>3, <1>8, <1>13
      <4>2. z < n
        BY <1>3, <1>8
      <4> QED BY <2>2, <4>1, <4>2, <1>30 DEF h
    <3> QED BY <2>2, <3>1, <3>2 DEF MacOff
  <2> QED BY <2>1, <2>2
<1>36. At(loc', sc', ready', y, w, C, M, hw', on', cut')
  <2>1. loc.frags - 1 <= MaxSegs
    BY <1>3, <1>6, RxAssumption
  <2> QED BY <2>1, <1>1, <1>6, <1>19, <1>25 DEF At
<1>37. Running(y, w)'
  <2>1. d = r[Len(r)]
    BY <1>13
  <2>2. /\ starts' >= 1 /\ ready' = ready /\ sent' = sent /\ on' = on /\ cut' = cut
        /\ sc'.rxdesc = r /\ sc'.held = r[Len(r)] /\ sc'.rxlink = h /\ hw'.frames = hw.frames
        /\ loc'.frame = loc.frame
    BY <2>1, <1>1, <1>5, <1>19, <1>22, <1>25
  <2>3. /\ Ring(sc'.rxdesc, y, w, NbufOf(desc'), DoneOf(desc'), LinkOf(desc'))
        /\ Contents(sc'.rxdesc, w, DataOf(desc'), Len(loc'.frame), LastOf(ready', sent'), hw'.frames)
        /\ Lengths(sc'.rxdesc, w, DataOf(desc'), LenOf(desc'), cut')
    BY <2>2, <1>31, <1>34 DEF E, F, K, C, M
  <2>4. IF on' THEN MacOn(hw', sc'.rxdesc, y, w, DataOf(desc'), sc'.rxlink)
        ELSE MacOff(hw', sc'.rxdesc, y, DoneOf(desc'), sc'.rxlink)
    BY <2>2, <1>35 DEF F, C
  <2>5. At(loc', sc', ready', y, w, DataOf(desc'), LenOf(desc'), hw', on', cut')
    BY <1>36 DEF C, M
  <2> QED BY <2>2, <2>3, <2>4, <2>5 DEF Running
<1>38. Passing(up', ready', sent', cut', hw'.frames)
  BY <1>1, <1>2, <1>22
<1>39. Balanced(sc'.pool, sc'.idle, NbufOf(desc'), BuffersIn(ready', up', loc'), starts', loc'.at)
  <2>1. Cardinality(E) = Cardinality(B) + 1 /\ Cardinality(B) \in Nat
    BY <1>10, <1>21, <1>23, AttachOne, Attachable
  <2>2. Len(FlattenSeq(ready)) \in Nat /\ Len(FlattenSeq(up)) \in Nat
    BY <1>3, FlatCounts, FlatLen
  <2>3. BuffersIn(ready', up', loc') = Len(FlattenSeq(ready)) + Len(FlattenSeq(up)) + (loc.frags - 1) + 0
    BY <1>1, <1>25 DEF BuffersIn
  <2>4. BuffersIn(ready, up, loc) = Len(FlattenSeq(ready)) + Len(FlattenSeq(up)) + loc.frags + 0
    BY <1>1 DEF BuffersIn
  <2> DEFINE v == BuffersIn(ready', up', loc')  o == BuffersIn(ready, up, loc)  b == Cardinality(B)
  <2>5. o = v + 1 /\ v \in Nat
    <3> DEFINE x == Len(FlattenSeq(ready))  t == Len(FlattenSeq(up))  f == loc.frags
    <3>1. v = x + t + (f - 1) + 0 /\ o = x + t + f + 0
      BY <2>3, <2>4
    <3>2. x \in Nat /\ t \in Nat /\ f \in Nat /\ f > 0
      BY <2>2, <1>1, <1>3
    <3> HIDE DEF o, v, x, t, f
    <3> QED BY <3>1, <3>2
  <2>6. 0 + b + o \in {NumDescs - 1, NumDescs}
    BY <1>2, <1>11 DEF Balanced, B
  <2> HIDE DEF v, o, b
  <2>7. 0 + (b + 1) + v \in {NumDescs - 1, NumDescs}
    BY <2>1, <2>5, <2>6, RxAssumption DEF b
  <2>8. 0 + Cardinality(NbufOf(desc')) + BuffersIn(ready', up', loc') \in {NumDescs - 1, NumDescs}
    BY <2>1, <2>7 DEF b, v, E
  <2>9. starts' # 0 /\ loc'.at # "start"
    BY <1>1, <1>3, <1>5, <1>25
  <2> QED BY <2>8, <2>9, <1>19 DEF Balanced
<1>40. Lists(sc'.rxdesc, sc'.idle) /\ Bare(sc'.idle, NbufOf(desc'), LenOf(desc'))
  BY <1>19, <1>27, <1>28 DEF E, M
<1> QED BY <1>26, <1>30, <1>37, <1>38, <1>39, <1>40, FromRing
-----------------------------------------------------------------------------
(* Starting reception.                                                     *)

(* What a step of ath_startrecv has to keep besides the list it builds.    *)
LEMMA FromBuilding ==
    ASSUME TypeInv', NEW k \in Nat, Building(k)',
           Lists(sc'.rxdesc, sc'.idle), Bare(sc'.idle, NbufOf(desc'), LenOf(desc')),
           Passing(up', ready', sent', cut', hw'.frames),
           Balanced(sc'.pool, sc'.idle, NbufOf(desc'), BuffersIn(ready', up', loc'), starts', loc'.at)
    PROVE  IInv'
<1>1. (\E j \in Nat : Building(j))'
  OBVIOUS
<1> QED BY <1>1 DEF IInv

(* The host starts reception.                                              *)
LEMMA StartStep0 ==
    ASSUME IInv, StartRecv
    PROVE  IInv'
<1> DEFINE q == sc.rxdesc
           n == Len(q)
           B == NbufOf(desc)  D == DoneOf(desc)  L == LinkOf(desc)  N == LenOf(desc)
<1>1. /\ loc.at = "poll" /\ ~on /\ starts < MaxStarts
      /\ sc' = [sc EXCEPT !.rxlink = NoDesc, !.held = NoDesc]
      /\ loc' = [loc EXCEPT !.at = "start", !.ds = First(q)]
      /\ starts' = starts + 1
      /\ cut' = (cut \/ \E d \in Range(q) : desc[d].nbuf /\ desc[d].len # NoLen)
      /\ UNCHANGED <<desc, ready, up, hw, on, sent>>
  BY DEF StartRecv
<1>2. TypeInv /\ Lists(q, sc.idle) /\ Bare(sc.idle, B, N) /\ Passing(up, ready, sent, cut, hw.frames)
      /\ Balanced(sc.pool, sc.idle, B, BuffersIn(ready, up, loc), starts, loc.at)
  BY DEF IInv
<1>3. /\ q \in Seq(Descs) /\ n \in Nat /\ desc \in [Descs -> RxDescs] /\ starts \in Nat /\ MaxStarts \in Nat
      /\ ready \in Seq(Seq(Nbufs)) /\ sent \in Nat /\ hw.frames \in Nat /\ cut \in BOOLEAN
  BY <1>2, RxAssumption, Fields DEF TypeInv
<1>4. loc = Polling /\ ready = << >> /\ (Fresh \/ \E z, w \in Nat : Running(z, w))
  BY <1>1, PollPlace
<1>5. /\ n >= 2 /\ q[n] \notin B /\ MacStill(hw, D, NoDesc)
      /\ starts >= 1 => \A i \in 1 .. n - 1 : q[i] \in B
      /\ starts = 0 \/ starts >= 1
  <2>1. CASE Fresh
    BY <2>1 DEF Fresh, MacStill
  <2>2. ASSUME NEW z \in Nat, NEW w \in Nat, Running(z, w)
        PROVE  /\ n >= 2 /\ q[n] \notin B /\ MacStill(hw, D, NoDesc)
               /\ starts >= 1 /\ \A i \in 1 .. n - 1 : q[i] \in B
    <3>1. Ring(q, z, w, B, D, L) /\ MacOff(hw, q, z, D, sc.rxlink) /\ starts >= 1
      BY <1>1, <2>2 DEF Running
    <3>2. MacStill(hw, D, NoDesc)
      BY <3>1 DEF MacOff, MacStill
    <3>3. z \in 1 .. n - 1 /\ q[n] \notin B /\ \A i \in 1 .. n - 1 : q[i] \in B
      BY <3>1 DEF Ring
    <3>4. n >= 2
      <4> HIDE DEF n
      <4> QED BY <3>3, <1>3
    <3> QED BY <3>1, <3>2, <3>3, <3>4
  <2> QED BY <1>3, <1>4, <2>1, <2>2
<1>6. cut' \in BOOLEAN /\ (cut => cut')
  BY <1>1, <1>3
<1>7. ASSUME NEW i \in 1 .. n
      PROVE  cut' \/ N[q[i]] = NoLen
  <2>1. q[i] \in Descs /\ q[i] \in Range(q)
    BY <1>3 DEF Range
  <2>2. N[q[i]] = desc[q[i]].len /\ (q[i] \in B <=> desc[q[i]].nbuf)
    BY <2>1, Zenon DEF LenOf, NbufOf
  <2>3. CASE q[i] \in B
    BY <2>1, <2>2, <2>3, <1>1
  <2>4. CASE q[i] \notin B
    BY <2>1, <2>4, <1>2 DEF Bare
  <2> QED BY <2>3, <2>4
<1>8. First(q) = q[1] /\ q[1] \in DescOrNull
  <2>1. n >= 1 /\ q[1] \in Descs
    BY <1>3, <1>5
  <2> QED BY <2>1, <1>3, FirstIs DEF DescOrNull
<1>9. /\ sc' \in [rxdesc : Seq(Descs), idle : Seq(Descs), held : DescOrNull, rxlink : DescOrNull, pool : Nat]
      /\ sc'.rxdesc = q /\ sc'.idle = sc.idle /\ sc'.held = NoDesc /\ sc'.pool = sc.pool /\ sc'.rxlink = NoDesc
  BY <1>1, <1>2, NoneApart DEF TypeInv
<1>10. /\ loc' \in [at : Places, ds : DescOrNull, head : DescOrNull, tail : DescOrNull,
                    cnt : Nat, bf : Nat, frame : Seq(Nbufs), frags : Nat]
       /\ loc'.at = "start" /\ loc'.ds = q[1] /\ loc'.frags = loc.frags /\ loc'.frame = loc.frame
       /\ loc'.cnt = loc.cnt /\ loc'.bf = loc.bf
  <2> DEFINE x == q[1]
  <2>1. loc' = [loc EXCEPT !.at = "start", !.ds = x] /\ x \in DescOrNull /\ "start" \in Places
    BY <1>1, <1>8 DEF Places
  <2> HIDE DEF x
  <2>2. /\ loc' \in [at : Places, ds : DescOrNull, head : DescOrNull, tail : DescOrNull,
                     cnt : Nat, bf : Nat, frame : Seq(Nbufs), frags : Nat]
        /\ loc'.at = "start" /\ loc'.ds = x /\ loc'.frags = loc.frags /\ loc'.frame = loc.frame
        /\ loc'.cnt = loc.cnt /\ loc'.bf = loc.bf
    BY <2>1, <1>2 DEF TypeInv
  <2> QED BY <2>2 DEF x
<1>11. starts' \in 0 .. MaxStarts
  BY <1>1, <1>3
<1>12. TypeInv'
  BY <1>1, <1>2, <1>6, <1>9, <1>10, <1>11 DEF TypeInv
<1>13. BuildRing(q, 0, B, D, L, N, cut')
  <2>1. 0 \in 0 .. n /\ 1 .. 0 - 1 = {}
    BY <1>3
  <2>2. /\ Len(q) >= 2 /\ q[Len(q)] \notin B
        /\ \A i \in 1 .. Len(q) : cut' \/ N[q[i]] = NoLen
    BY <1>5, <1>7
  <2> DEFINE c == cut'
  <2> HIDE DEF q, c, B, D, L, N
  <2>3. BuildRing(q, 0, B, D, L, N, c)
    BY <2>1, <2>2 DEF BuildRing, c
  <2> QED BY <2>3 DEF c
<1>14. Building(0)'
  <2>1. starts' > 1 => \A i \in 1 .. n - 1 : q[i] \in B
    BY <1>1, <1>3, <1>5
  <2>2. starts' >= 1
    BY <1>1, <1>3
  <2>3. 0 < Len(sc'.rxdesc) /\ loc'.ds = sc'.rxdesc[0 + 1]
    BY <1>3, <1>5, <1>9, <1>10
  <2>4. loc'.frame = << >> /\ loc'.frags = 0 /\ loc'.cnt = 0 /\ loc'.bf = 1
    BY <1>4, <1>10, PollingIs
  <2> HIDE DEF q, n
  <2>5. BuildRing(sc'.rxdesc, 0, NbufOf(desc'), DoneOf(desc'), LinkOf(desc'), LenOf(desc'), cut')
    BY <1>1, <1>9, <1>13
  <2>6. MacStill(hw', DoneOf(desc'), sc'.rxlink)
    BY <1>1, <1>5, <1>9
  <2>7. starts' > 1 => \A i \in 1 .. Len(sc'.rxdesc) - 1 : sc'.rxdesc[i] \in NbufOf(desc')
    BY <2>1, <1>1, <1>9 DEF n
  <2> QED BY <1>1, <1>4, <1>9, <1>10, <2>2, <2>3, <2>4, <2>5, <2>6, <2>7 DEF Building
<1>15. Passing(up', ready', sent', cut', hw'.frames)
  <2> DEFINE c == cut'
  <2>1. c \in BOOLEAN /\ (cut => c) /\ hw.frames <= hw.frames
    BY <1>3, <1>6
  <2> HIDE DEF c
  <2>2. Passing(up, ready, sent, c, hw.frames)
    BY <2>1, <1>2, <1>3, PassLater
  <2> QED BY <2>2, <1>1 DEF c
<1>16. Balanced(sc'.pool, sc'.idle, NbufOf(desc'), BuffersIn(ready', up', loc'), starts', loc'.at)
  <2>1. BuffersIn(ready', up', loc') = BuffersIn(ready, up, loc)
    BY <1>1, <1>10 DEF BuffersIn
  <2>2. starts' # 0 /\ (starts' = 1 => starts = 0)
    BY <1>1, <1>3
  <2> QED BY <1>1, <1>2, <1>9, <2>1, <2>2 DEF Balanced
<1>17. Lists(sc'.rxdesc, sc'.idle) /\ Bare(sc'.idle, NbufOf(desc'), LenOf(desc'))
  BY <1>1, <1>2, <1>9
<1> QED BY <1>12, <1>14, <1>15, <1>16, <1>17, FromBuilding

(* Where the start command is.                                             *)
LEMMA StartPlace ==
    ASSUME IInv, loc.at = "start"
    PROVE  \E k \in Nat : Building(k)
<1>1. ~Fresh
  BY DEF Fresh, Polling
<1>2. ~\E z, w \in Nat : Running(z, w)
  BY DEF Running, At
<1> QED BY <1>1, <1>2 DEF IInv

(* The last descriptor has been handed in.                                 *)
LEMMA StartLastStep ==
    ASSUME IInv, StartEnd
    PROVE  IInv'
<1> DEFINE q == sc.rxdesc
           n == Len(q)
           A == DataOf(desc)
           B == NbufOf(desc)  D == DoneOf(desc)  L == LinkOf(desc)  N == LenOf(desc)
<1>1. /\ loc.at = "start" /\ (loc.ds = NoDesc \/ InitFails(sc, desc))
      /\ hw' = [hw EXCEPT !.rxdp = IF loc.ds = NoDesc THEN First(q) ELSE @]
      /\ loc' = Polling /\ on' = TRUE
      /\ UNCHANGED <<sc, desc, ready, up, starts, sent, cut>>
  BY DEF StartEnd
<1>2. TypeInv /\ Lists(q, sc.idle) /\ Bare(sc.idle, B, N) /\ Passing(up, ready, sent, cut, hw.frames)
      /\ Balanced(sc.pool, sc.idle, B, BuffersIn(ready, up, loc), starts, loc.at)
  BY DEF IInv
<1>3. /\ q \in Seq(Descs) /\ n \in Nat /\ desc \in [Descs -> RxDescs] /\ starts \in Nat /\ sc.pool \in Nat
  BY <1>2, Fields
<1>4. PICK k \in Nat : Building(k)
  BY <1>1, StartPlace
<1>5. /\ BuildRing(q, k, B, D, L, N, cut) /\ starts >= 1
      /\ loc.ds = (IF k < n THEN q[k + 1] ELSE NoDesc)
      /\ sc.held = (IF k = 0 THEN NoDesc ELSE q[k])
      /\ sc.rxlink = (IF k <= 1 THEN NoDesc ELSE q[k - 1])
      /\ MacStill(hw, D, sc.rxlink)
      /\ loc.frame = << >> /\ loc.frags = 0 /\ ready = << >>
      /\ starts > 1 => \A i \in 1 .. n - 1 : q[i] \in B
  BY <1>4 DEF Building
<1>6. /\ k \in 0 .. n /\ n >= 2
      /\ \A i \in 1 .. k - 1 : /\ L[q[i]] = IF i < k - 1 THEN q[i + 1] ELSE NoDesc
                               /\ q[i] \in B /\ q[i] \notin D
      /\ q[n] \notin B
      /\ \A i \in 1 .. n : cut \/ N[q[i]] = NoLen
  BY <1>5 DEF BuildRing
<1>7. \A i \in 1 .. n : q[i] \in Descs
  BY <1>3
<1> HIDE DEF q, n
<1>8. k = n
  <2> SUFFICES ASSUME k # n PROVE FALSE
    OBVIOUS
  <2>1. k < n /\ k + 1 \in 1 .. n
    BY <1>3, <1>6
  <2>2. loc.ds = q[k + 1] /\ q[k + 1] \in Descs
    BY <2>1, <1>5, <1>7
  <2>3. InitFails(sc, desc)
    BY <2>2, <1>1, NoneApart
  <2>4. sc.held # NoDesc /\ ~desc[sc.held].nbuf /\ sc.pool = 0
    BY <2>3 DEF InitFails
  <2>5. k # 0 /\ sc.held = q[k] /\ k \in 1 .. n /\ k \in 1 .. n - 1
    BY <2>1, <2>4, <1>3, <1>5, <1>6
  <2>6. q[k] \notin B
    BY <2>4, <2>5, Zenon DEF NbufOf
  <2>7. starts = 1
    BY <2>5, <2>6, <1>3, <1>5
  <2>8. sc.pool + Cardinality(B) = NumDescs
    BY <2>7, <1>1, <1>2 DEF Balanced
  <2>9. q[k] \in Descs
    BY <2>5, <1>7
  <2>10. B \subseteq Descs
    BY DEF NbufOf
  <2> DEFINE h == q[k]
             E == B \cup {h}
  <2>11. E \subseteq Descs /\ \A e : e \in E <=> e \in B \/ e = h
    BY <2>9, <2>10
  <2> HIDE DEF E, h, B
  <2>12. Cardinality(E) = Cardinality(B) + 1
    BY <2>6, <2>9, <2>10, <2>11, AttachOne DEF h
  <2>13. Cardinality(E) <= NumDescs /\ Cardinality(B) \in Nat
    BY <2>10, <2>11, Attachable
  <2> QED BY <2>4, <2>8, <2>12, <2>13, RxAssumption
<1>9. loc.ds = NoDesc /\ sc.held = q[n] /\ sc.rxlink = q[n - 1]
  BY <1>3, <1>5, <1>6, <1>8
<1>10. First(q) = q[1] /\ q[1] \in Descs /\ q[1] \in DescOrNull
  <2>1. Len(q) >= 1 /\ q[1] \in Descs
    BY <1>3, <1>6, <1>7 DEF n
  <2>2. q \in Seq(Descs)
    BY <1>3 DEF q
  <2> QED BY <2>1, <2>2, FirstIs DEF DescOrNull
<1>11. /\ hw' \in [rxdp : DescOrNull, rxe : BOOLEAN, isr : BOOLEAN, seg : SegsOrNone, frames : 0 .. MaxFrames]
       /\ hw'.rxdp = q[1] /\ hw'.seg = NoSeg /\ hw'.frames = hw.frames
  <2>1. hw' = [hw EXCEPT !.rxdp = q[1]]
    BY <1>1, <1>9, <1>10
  <2>2. hw.seg = NoSeg
    BY <1>5 DEF MacStill
  <2> QED BY <2>1, <2>2, <1>2, <1>10 DEF TypeInv
<1>12. TypeInv'
  BY <1>1, <1>2, <1>11, PollingIs DEF TypeInv
<1>13. n - 1 \in Nat /\ 0 \in Nat
  BY <1>3, <1>6
<1>14. PICK z \in Nat : z = n - 1
  BY <1>13
<1>15. Ring(q, z, 0, B, D, L)
  <2>1. Len(q) = n /\ z \in 1 .. n - 1 /\ 0 \in 0 .. z
    BY <1>3, <1>6, <1>14 DEF n
  <2>2. \A i \in 1 .. n - 1 : ~(i <= 0)
    BY <1>3
  <2> QED BY <2>1, <2>2, <1>6, <1>8, <1>14 DEF Ring
<1>16. Contents(q, 0, A, Len(loc'.frame), LastOf(ready', sent'), hw'.frames)
  BY DEF Contents
<1>17. Lengths(q, 0, A, N, cut)
  <2>1. Len(q) = n /\ \A i \in 1 .. n - 1 : i \in 1 .. n
    BY <1>3 DEF n
  <2> QED BY <2>1, <1>6 DEF Lengths
<1>18. MacOn(hw', q, z, 0, A, sc.rxlink)
  <2>1. 1 \in 1 .. z /\ 0 \in {1 - 1, 1}
    BY <1>3, <1>6, <1>14
  <2>2. \E p \in 1 .. z : hw'.rxdp = q[p] /\ 0 \in {p - 1, p}
    BY <2>1, <1>11
  <2>3. z = Len(q) - 1 /\ sc.rxlink = q[z]
    BY <1>9, <1>14 DEF n
  <2>4. ~(0 >= 1)
    OBVIOUS
  <2> QED BY <2>2, <2>3, <2>4, <1>11 DEF MacOn
<1>19. At(loc', sc', ready', z, 0, DataOf(desc'), LenOf(desc'), hw', on', cut')
  BY <1>1, <1>5, PollingIs DEF At
<1>20. Running(z, 0)'
  <2>1. /\ starts' >= 1 /\ on' = TRUE /\ cut' = cut /\ sc'.rxdesc = q /\ sc'.held = q[Len(q)]
        /\ sc'.rxlink = sc.rxlink /\ desc' = desc
    BY <1>1, <1>5, <1>9 DEF q, n
  <2> QED BY <2>1, <1>15, <1>16, <1>17, <1>18, <1>19 DEF Running
<1>21. Passing(up', ready', sent', cut', hw'.frames)
  BY <1>1, <1>2, <1>11
<1>22. Balanced(sc'.pool, sc'.idle, NbufOf(desc'), BuffersIn(ready', up', loc'), starts', loc'.at)
  <2>1. BuffersIn(ready', up', loc') = BuffersIn(ready, up, loc)
    BY <1>1, <1>5, PollingIs DEF BuffersIn
  <2>2. starts' # 0 /\ loc'.at # "start"
    BY <1>1, <1>3, <1>5, PollingIs
  <2> QED BY <1>1, <1>2, <2>1, <2>2 DEF Balanced
<1>23. Lists(sc'.rxdesc, sc'.idle) /\ Bare(sc'.idle, NbufOf(desc'), LenOf(desc'))
  BY <1>1, <1>2 DEF q
<1> QED BY <1>12, <1>13, <1>20, <1>21, <1>22, <1>23, FromRing

(* The descriptor before the one handed in is set up and linked.           *)
LEMMA BuildMore ==
    ASSUME NEW q \in Seq(Descs), \A i, j \in 1 .. Len(q) : q[i] = q[j] => i = j,
           NEW k \in Nat, k >= 1, k < Len(q), NEW B, NEW D, NEW L, NEW N, NEW ct,
           BuildRing(q, k, B, D, L, N, ct),
           NEW m, NEW r, NbufOf(m) = B, DoneOf(m) = D, LinkOf(m) = L, LenOf(m) = N,
           NEW l, InitViews(m, r, q[k], l), l = IF k <= 1 THEN NoDesc ELSE q[k - 1]
    PROVE  BuildRing(q, k + 1, NbufOf(r), DoneOf(r), LinkOf(r), LenOf(r), ct)
<1> DEFINE n == Len(q)
           h == q[k]
           E == NbufOf(r)  F == DoneOf(r)  K == LinkOf(r)  M == LenOf(r)
<1>1. n \in Nat /\ k \in 1 .. n /\ \A i \in 1 .. n : q[i] \in Descs
  OBVIOUS
<1>2. /\ n >= 2
      /\ \A i \in 1 .. k - 1 : /\ L[q[i]] = IF i < k - 1 THEN q[i + 1] ELSE NoDesc
                               /\ q[i] \in B /\ q[i] \notin D
      /\ q[n] \notin B
      /\ \A i \in 1 .. n : ct \/ N[q[i]] = NoLen
  BY DEF BuildRing
<1>3. /\ \A e : e \in E <=> e \in B \/ e = h
      /\ \A e : e \in F <=> e \in D /\ e # h
      /\ \A e \in Descs :
           /\ K[e] = IF e = h THEN NoDesc ELSE IF e = l THEN h ELSE L[e]
           /\ M[e] = IF e = h /\ h \notin B THEN NoLen ELSE N[e]
  BY Zenon DEF InitViews
<1>4. \A i, j \in 1 .. n : q[i] = q[j] => i = j
  OBVIOUS
<1>5. k < n
  OBVIOUS
<1> HIDE DEF n, E, F, K, M
<1>6. ASSUME NEW i \in 1 .. (k + 1) - 1
      PROVE  /\ K[q[i]] = IF i < (k + 1) - 1 THEN q[i + 1] ELSE NoDesc
             /\ q[i] \in E /\ q[i] \notin F
  <2>1. i \in 1 .. n /\ i <= k /\ q[i] \in Descs /\ (k + 1) - 1 = k
    BY <1>1
  <2>2. CASE i = k
    BY <2>1, <2>2, <1>3
  <2>3. CASE i # k
    <3>1. i \in 1 .. k - 1 /\ i < k
      BY <2>1, <2>3
    <3>2. q[i] # h
      BY <2>1, <2>3, <1>1, <1>4
    <3>3. q[i] \in E /\ q[i] \notin F
      BY <3>1, <3>2, <1>2, <1>3
    <3>4. K[q[i]] = IF q[i] = l THEN h ELSE L[q[i]]
      BY <2>1, <3>2, <1>3
    <3>5. CASE i = k - 1
      <4>1. q[i] = l /\ i + 1 = k
        BY <3>1, <3>5
      <4> QED BY <2>1, <3>1, <3>3, <3>4, <4>1
    <3>6. CASE i # k - 1
      <4>1. i < k - 1 /\ k - 1 \in 1 .. n /\ ~(k <= 1)
        BY <2>1, <3>1, <3>6, <1>1
      <4>2. q[i] # l
        BY <2>1, <4>1, <3>6, <1>4
      <4> QED BY <2>1, <3>1, <3>3, <3>4, <4>1, <4>2, <1>2
    <3> QED BY <3>5, <3>6
  <2> QED BY <2>2, <2>3
<1>7. q[n] \notin E
  <2>1. n \in 1 .. n /\ n # k
    BY <1>1, <1>5
  <2>2. q[n] # h
    BY <2>1, <1>1, <1>4
  <2> QED BY <2>2, <1>2, <1>3
<1>8. ASSUME NEW i \in 1 .. n
      PROVE  ct \/ M[q[i]] = NoLen
  BY <1>1, <1>2, <1>3
<1>9. k + 1 \in 0 .. n
  BY <1>1, <1>5
<1> QED BY <1>2, <1>6, <1>7, <1>8, <1>9 DEF BuildRing, n, E, F, K, M

(* One descriptor is handed in.                                            *)
LEMMA StartOneStep ==
    ASSUME IInv, StartStep
    PROVE  IInv'
<1> DEFINE q == sc.rxdesc
           n == Len(q)
           B == NbufOf(desc)  D == DoneOf(desc)  L == LinkOf(desc)  N == LenOf(desc)
           E == NbufOf(desc')  F == DoneOf(desc')  K == LinkOf(desc')  M == LenOf(desc')
<1>1. /\ loc.at = "start" /\ loc.ds # NoDesc /\ ~InitFails(sc, desc)
      /\ sc' = InitSc(sc, desc, loc.ds) /\ desc' = InitDesc(sc, desc) /\ hw' = InitHw(sc)
      /\ loc' = [loc EXCEPT !.ds = NextIn(q, loc.ds)]
      /\ UNCHANGED <<ready, up, on, starts, sent, cut>>
  BY DEF StartStep
<1>2. TypeInv /\ Lists(q, sc.idle) /\ Bare(sc.idle, B, N) /\ Passing(up, ready, sent, cut, hw.frames)
      /\ Balanced(sc.pool, sc.idle, B, BuffersIn(ready, up, loc), starts, loc.at)
  BY DEF IInv
<1>3. /\ q \in Seq(Descs) /\ n \in Nat /\ desc \in [Descs -> RxDescs] /\ starts \in Nat /\ sc.pool \in Nat
      /\ sc.idle \in Seq(Descs) /\ sc.rxlink \in DescOrNull
      /\ (\A i, j \in 1 .. n : q[i] = q[j] => i = j)
  BY <1>2, Fields DEF Lists
<1>4. PICK k \in Nat : Building(k)
  BY <1>1, StartPlace
<1>5. /\ BuildRing(q, k, B, D, L, N, cut) /\ starts >= 1 /\ ~on
      /\ loc.ds = (IF k < n THEN q[k + 1] ELSE NoDesc)
      /\ sc.held = (IF k = 0 THEN NoDesc ELSE q[k])
      /\ sc.rxlink = (IF k <= 1 THEN NoDesc ELSE q[k - 1])
      /\ MacStill(hw, D, sc.rxlink)
      /\ loc.frame = << >> /\ loc.frags = 0 /\ loc.cnt = 0 /\ loc.bf = 1 /\ ready = << >>
      /\ starts > 1 => \A i \in 1 .. n - 1 : q[i] \in B
  BY <1>4 DEF Building
<1>6. \A i \in 1 .. n : q[i] \in Descs
  BY <1>3
<1> HIDE DEF n
<1>7. k < n /\ loc.ds = q[k + 1] /\ k + 1 \in 1 .. n /\ q[k + 1] \in Descs /\ q[k + 1] \in DescOrNull
  <2>1. k < n /\ loc.ds = q[k + 1]
    BY <1>1, <1>5
  <2>2. k + 1 \in 1 .. n
    BY <2>1, <1>3
  <2> QED BY <2>1, <2>2, <1>6 DEF DescOrNull
<1>8. /\ NextIn(q, q[k + 1]) = IF k + 1 < n THEN q[(k + 1) + 1] ELSE NoDesc
      /\ NextIn(q, q[k + 1]) \in DescOrNull
  <2>1. NextIn(q, q[k + 1]) = IF k + 1 < n THEN q[(k + 1) + 1] ELSE NoDesc
    <3>1. k + 1 \in 1 .. Len(q) /\ q \in Seq(Descs) /\ (\A i, j \in 1 .. Len(q) : q[i] = q[j] => i = j)
      BY <1>3, <1>7 DEF n
    <3> HIDE DEF q
    <3> QED BY <3>1, NextInAt DEF n
  <2>2. k + 1 < n => (k + 1) + 1 \in 1 .. n
    BY <1>3
  <2>3. k + 1 < n => q[(k + 1) + 1] \in Descs
    BY <2>2, <1>6
  <2> QED BY <2>1, <2>3, NoneApart DEF DescOrNull
<1>9. /\ loc' \in [at : Places, ds : DescOrNull, head : DescOrNull, tail : DescOrNull,
                   cnt : Nat, bf : Nat, frame : Seq(Nbufs), frags : Nat]
      /\ loc'.at = "start" /\ loc'.frags = 0 /\ loc'.frame = << >> /\ loc'.cnt = 0 /\ loc'.bf = 1
      /\ loc'.ds = IF k + 1 < n THEN q[(k + 1) + 1] ELSE NoDesc
  <2> DEFINE x == NextIn(q, q[k + 1])
  <2>1. loc' = [loc EXCEPT !.ds = x] /\ x \in DescOrNull
    BY <1>1, <1>7, <1>8
  <2> HIDE DEF x
  <2>2. /\ loc' \in [at : Places, ds : DescOrNull, head : DescOrNull, tail : DescOrNull,
                     cnt : Nat, bf : Nat, frame : Seq(Nbufs), frags : Nat]
        /\ loc'.at = "start" /\ loc'.frags = loc.frags /\ loc'.frame = loc.frame /\ loc'.cnt = loc.cnt
        /\ loc'.bf = loc.bf /\ loc'.ds = x
    BY <2>1, <1>1, <1>2 DEF TypeInv
  <2> QED BY <2>2, <1>5, <1>8 DEF x
<1>10. sc \in [rxdesc : Seq(Descs), idle : Seq(Descs), held : DescOrNull, rxlink : DescOrNull, pool : Nat]
  BY <1>2 DEF TypeInv
<1>11. BuffersIn(ready', up', loc') = BuffersIn(ready, up, loc)
  BY <1>1, <1>5, <1>9 DEF BuffersIn
<1>12. k + 1 \in Nat /\ (k + 1) - 1 = k /\ k + 1 # 0 /\ (k + 1 <= 1 <=> k = 0)
  OBVIOUS
<1>13. CASE k = 0
  <2>1. sc.held = NoDesc /\ sc.rxlink = NoDesc
    BY <1>5, <1>13
  <2>2. /\ sc' \in [rxdesc : Seq(Descs), idle : Seq(Descs), held : DescOrNull, rxlink : DescOrNull, pool : Nat]
        /\ sc'.rxdesc = q /\ sc'.idle = sc.idle /\ sc'.held = q[k + 1] /\ sc'.rxlink = NoDesc /\ sc'.pool = sc.pool
    <3> DEFINE x == q[k + 1]
    <3>1. sc' = [sc EXCEPT !.held = x]
      BY <1>1, <1>7, <1>10, <2>1 DEF InitSc
    <3>2. x \in DescOrNull
      BY <1>7
    <3> HIDE DEF x
    <3>3. /\ sc' \in [rxdesc : Seq(Descs), idle : Seq(Descs), held : DescOrNull, rxlink : DescOrNull, pool : Nat]
          /\ sc'.rxdesc = sc.rxdesc /\ sc'.idle = sc.idle /\ sc'.held = x /\ sc'.rxlink = sc.rxlink /\ sc'.pool = sc.pool
      BY <3>1, <3>2, <1>10
    <3> QED BY <3>3, <2>1 DEF x
  <2>3. desc' = desc /\ hw' = hw
    BY <1>1, <1>3, <2>1, InitDescNone DEF InitHw
  <2>4. BuildRing(q, 1, B, D, L, N, cut)
    <3>1. 1 \in 0 .. n /\ 1 .. 1 - 1 = {}
      BY <1>3, <1>7, <1>13
    <3>2. /\ n >= 2 /\ q[n] \notin B /\ \A i \in 1 .. n : cut \/ N[q[i]] = NoLen
      BY <1>5 DEF BuildRing, n
    <3> HIDE DEF q, B, D, L, N
    <3> QED BY <3>1, <3>2 DEF BuildRing, n
  <2>5. TypeInv'
    BY <1>1, <1>2, <1>9, <2>2, <2>3 DEF TypeInv
  <2>6. Building(k + 1)'
    <3>1. /\ loc'.at = "start" /\ ~on' /\ starts' >= 1
          /\ BuildRing(sc'.rxdesc, k + 1, NbufOf(desc'), DoneOf(desc'), LinkOf(desc'), LenOf(desc'), cut')
      BY <1>1, <1>5, <1>9, <1>13, <2>2, <2>3, <2>4
    <3>2. /\ loc'.ds = IF k + 1 < Len(sc'.rxdesc) THEN sc'.rxdesc[(k + 1) + 1] ELSE NoDesc
          /\ sc'.held = IF k + 1 = 0 THEN NoDesc ELSE sc'.rxdesc[k + 1]
          /\ sc'.rxlink = IF k + 1 <= 1 THEN NoDesc ELSE sc'.rxdesc[(k + 1) - 1]
      BY <1>9, <1>12, <1>13, <2>2 DEF n
    <3>3. MacStill(hw', DoneOf(desc'), sc'.rxlink)
      BY <1>5, <2>1, <2>2, <2>3
    <3>4. /\ loc'.frame = << >> /\ loc'.frags = 0 /\ loc'.cnt = 0 /\ loc'.bf = 1 /\ ready' = << >>
          /\ starts' > 1 => \A i \in 1 .. Len(sc'.rxdesc) - 1 : sc'.rxdesc[i] \in NbufOf(desc')
      BY <1>1, <1>5, <1>9, <2>2, <2>3 DEF n
    <3> QED BY <3>1, <3>2, <3>3, <3>4 DEF Building
  <2>7. Passing(up', ready', sent', cut', hw'.frames)
    BY <1>1, <1>2, <2>3
  <2>8. Balanced(sc'.pool, sc'.idle, NbufOf(desc'), BuffersIn(ready', up', loc'), starts', loc'.at)
    BY <1>1, <1>2, <1>9, <1>11, <2>2, <2>3
  <2>9. Lists(sc'.rxdesc, sc'.idle) /\ Bare(sc'.idle, NbufOf(desc'), LenOf(desc'))
    BY <1>2, <2>2, <2>3
  <2> QED BY <1>12, <2>5, <2>6, <2>7, <2>8, <2>9, FromBuilding
<1>14. CASE k # 0
  <2> DEFINE h == q[k]
  <2>1. k \in 1 .. n /\ k >= 1 /\ sc.held = h /\ h \in Descs /\ h # NoDesc
    <3>1. k \in 1 .. n /\ k >= 1
      BY <1>3, <1>7, <1>14
    <3> QED BY <3>1, <1>5, <1>6, <1>14, NoneApart
  <2> HIDE DEF h
  <2>2. desc[h].nbuf <=> h \in B
    BY <2>1, Zenon DEF NbufOf
  <2>3. h \notin B => sc.pool # 0
    BY <1>1, <2>1, <2>2 DEF InitFails
  <2>4. PICK p \in Nat : p = IF h \in B THEN sc.pool ELSE sc.pool - 1
    <3>1. (IF h \in B THEN sc.pool ELSE sc.pool - 1) \in Nat
      BY <1>3, <2>3
    <3> QED BY <3>1
  <2>5. /\ sc' \in [rxdesc : Seq(Descs), idle : Seq(Descs), held : DescOrNull, rxlink : DescOrNull, pool : Nat]
        /\ sc'.rxdesc = q /\ sc'.idle = sc.idle /\ sc'.held = q[k + 1] /\ sc'.rxlink = h /\ sc'.pool = p
    <3> DEFINE x == q[k + 1]
    <3>1. sc' = [sc EXCEPT !.held = x, !.rxlink = h, !.pool = p]
      BY <1>1, <1>7, <1>10, <2>1, <2>2, <2>4 DEF InitSc
    <3>2. x \in DescOrNull /\ h \in DescOrNull
      BY <1>7, <2>1 DEF DescOrNull
    <3> HIDE DEF x
    <3>3. /\ sc' \in [rxdesc : Seq(Descs), idle : Seq(Descs), held : DescOrNull, rxlink : DescOrNull, pool : Nat]
          /\ sc'.rxdesc = sc.rxdesc /\ sc'.idle = sc.idle /\ sc'.held = x /\ sc'.rxlink = h /\ sc'.pool = p
      BY <3>1, <3>2, <1>10
    <3> QED BY <3>3 DEF x
  <2>6. InitViews(desc, desc', h, sc.rxlink)
    BY <1>1, <1>3, <2>1, InitDescViews
  <2>7. /\ desc' \in [Descs -> RxDescs]
        /\ \A e : e \in E <=> e \in B \/ e = h
        /\ \A e : e \in F <=> e \in D /\ e # h
        /\ \A e \in Descs : M[e] = IF e = h /\ h \notin B THEN NoLen ELSE N[e]
    BY <2>6, Zenon DEF InitViews
  <2>8. /\ hw' \in [rxdp : DescOrNull, rxe : BOOLEAN, isr : BOOLEAN, seg : SegsOrNone, frames : 0 .. MaxFrames]
        /\ hw'.frames = hw.frames
    BY <1>1, <1>2, <1>3, <2>1, InitHwFields
  <2>9. MacStill(hw', F, h)
    <3> DEFINE g == hw'
    <3>1. g = InitHw(sc) /\ sc.held \in Descs
      BY <1>1, <2>1
    <3>2. \A e : e \in F <=> e \in D /\ e # sc.held
      BY <2>1, <2>7
    <3> HIDE DEF g, F, D
    <3>3. MacStill(hw, D, sc.rxlink)
      BY <1>5 DEF D
    <3>4. MacStill(g, F, h)
      BY <3>1, <3>2, <3>3, <1>2, <1>3, InitHwStill
    <3> QED BY <3>4 DEF g, F
  <2>10. BuildRing(q, k + 1, E, F, K, M, cut)
    <3> DEFINE r == desc'  l == sc.rxlink
    <3>1. q \in Seq(Descs) /\ (\A i, j \in 1 .. Len(q) : q[i] = q[j] => i = j) /\ k < Len(q)
      BY <1>3, <1>7 DEF n
    <3>2. InitViews(desc, r, q[k], l) /\ l = IF k <= 1 THEN NoDesc ELSE q[k - 1]
      BY <1>5, <2>6 DEF h
    <3>3. BuildRing(q, k, B, D, L, N, cut)
      BY <1>5
    <3> HIDE DEF q, r, l
    <3>4. BuildRing(q, k + 1, NbufOf(r), DoneOf(r), LinkOf(r), LenOf(r), cut)
      BY <2>1, <3>1, <3>2, <3>3, BuildMore
    <3> QED BY <3>4 DEF r
  <2>11. TypeInv'
    BY <1>1, <1>2, <1>9, <2>5, <2>7, <2>8 DEF TypeInv
  <2>12. Building(k + 1)'
    <3>1. /\ loc'.at = "start" /\ ~on' /\ starts' >= 1
          /\ BuildRing(sc'.rxdesc, k + 1, NbufOf(desc'), DoneOf(desc'), LinkOf(desc'), LenOf(desc'), cut')
      BY <1>1, <1>5, <1>9, <2>5, <2>10
    <3>2. /\ loc'.ds = IF k + 1 < Len(sc'.rxdesc) THEN sc'.rxdesc[(k + 1) + 1] ELSE NoDesc
          /\ sc'.held = IF k + 1 = 0 THEN NoDesc ELSE sc'.rxdesc[k + 1]
          /\ sc'.rxlink = IF k + 1 <= 1 THEN NoDesc ELSE sc'.rxdesc[(k + 1) - 1]
      BY <1>9, <1>12, <1>14, <2>5 DEF n, h
    <3>3. MacStill(hw', DoneOf(desc'), sc'.rxlink)
      BY <2>5, <2>9
    <3>4. starts' > 1 => \A i \in 1 .. Len(sc'.rxdesc) - 1 : sc'.rxdesc[i] \in NbufOf(desc')
      BY <1>1, <1>5, <2>5, <2>7 DEF n
    <3>5. loc'.frame = << >> /\ loc'.frags = 0 /\ loc'.cnt = 0 /\ loc'.bf = 1 /\ ready' = << >>
      BY <1>1, <1>5, <1>9
    <3> QED BY <3>1, <3>2, <3>3, <3>4, <3>5 DEF Building
  <2>13. Passing(up', ready', sent', cut', hw'.frames)
    BY <1>1, <1>2, <2>8
  <2>14. p + Cardinality(E) = sc.pool + Cardinality(B) /\ (sc.pool = 0 => p = 0)
    <3>1. B \subseteq Descs
      BY DEF NbufOf
    <3>2. CASE h \in B
      <4>1. E = B
        <5> HIDE DEF E, B
        <5> QED BY <2>7, <3>2
      <4> QED BY <4>1, <3>2, <2>4
    <3>3. CASE h \notin B
      <4> HIDE DEF E, B
      <4>1. Cardinality(E) = Cardinality(B) + 1 /\ Cardinality(B) \in Nat
        BY <3>1, <3>3, <2>1, <2>7, AttachOne, Attachable
      <4> QED BY <4>1, <3>3, <2>3, <2>4, <1>3, SMTT(60)
    <3> QED BY <3>2, <3>3
  <2>15. Balanced(sc'.pool, sc'.idle, NbufOf(desc'), BuffersIn(ready', up', loc'), starts', loc'.at)
    <3> DEFINE x == Cardinality(E)  y == Cardinality(B)  v == BuffersIn(ready, up, loc)
    <3>1. /\ sc.pool + y + v \in {NumDescs - 1, NumDescs}
          /\ starts = 0 \/ (starts = 1 /\ loc.at = "start") => sc.pool + y = NumDescs /\ sc.idle = << >>
          /\ sc.idle = << >> \/ sc.pool = 0
      BY <1>2 DEF Balanced
    <3>2. /\ p + x + v \in {NumDescs - 1, NumDescs}
          /\ starts = 0 \/ (starts = 1 /\ loc.at = "start") => p + x = NumDescs
      <4>1. p + x = sc.pool + y
        BY <2>14
      <4> HIDE DEF x, y, v
      <4> QED BY <3>1, <4>1
    <3> HIDE DEF x, y, v
    <3>3. /\ sc'.pool = p /\ sc'.idle = sc.idle /\ starts' = starts /\ loc'.at = loc.at
          /\ BuffersIn(ready', up', loc') = v /\ Cardinality(NbufOf(desc')) = x
      BY <1>1, <1>9, <1>11, <2>5 DEF x, v
    <3> QED BY <2>14, <3>1, <3>2, <3>3 DEF Balanced
  <2>16. Lists(sc'.rxdesc, sc'.idle)
    BY <1>2, <2>5
  <2>17. Bare(sc.idle, E, M)
    <3>1. ASSUME NEW e \in Descs, e \notin E
          PROVE  M[e] = NoLen
      BY <3>1, <1>2, <2>7 DEF Bare
    <3>2. ASSUME NEW i \in 1 .. Len(sc.idle)
          PROVE  sc.idle[i] \notin E
      <4>1. sc.idle[i] \notin B
        BY <1>2 DEF Bare
      <4>2. sc.idle[i] # h
        BY <1>2, <2>1 DEF Lists, n, h
      <4> QED BY <4>1, <4>2, <2>7
    <3> QED BY <3>1, <3>2 DEF Bare
  <2>18. Bare(sc'.idle, NbufOf(desc'), LenOf(desc'))
    BY <2>5, <2>17
  <2> QED BY <1>12, <2>11, <2>12, <2>13, <2>15, <2>16, <2>18, FromBuilding
<1> QED BY <1>13, <1>14
-----------------------------------------------------------------------------
(* The MAC.                                                                *)

(* The segments already there stay, and the MAC does not come back.        *)
Moved(q, w, A, C, h, g, o) ==
    /\ \A i \in 1 .. w : C[q[i]] = A[q[i]]
    /\ o => \A i \in 1 .. w : h.rxdp # q[i] => g.rxdp # q[i]

(* What the handler has looked at stays when more segments come and the    *)
(* MAC goes on.                                                            *)
LEMMA ScannedMoved ==
    ASSUME NEW q, NEW c, NEW w \in Nat, NEW A, NEW N, NEW k, NEW all, NEW h, NEW o, NEW ct,
           Scanned(q, c, w, A, N, k, all, h, o, ct), c \in Nat,
           NEW v \in Nat, w <= v, NEW C, NEW g, Moved(q, w, A, C, h, g, o)
    PROVE  Scanned(q, c, v, C, N, k, all, g, o, ct)
<1>1. c <= w /\ c <= v
  BY DEF Scanned
<1>2. ASSUME NEW i \in 1 .. c
      PROVE  C[q[i]] = <<C[q[1]][1], k + i, all>> /\ (ct \/ N[q[i]] = <<C[q[i]]>>)
  <2>1. i \in 1 .. w /\ 1 \in 1 .. w
    BY <1>1
  <2>2. C[q[i]] = A[q[i]] /\ C[q[1]] = A[q[1]]
    BY <2>1 DEF Moved
  <2>3. A[q[i]] = <<A[q[1]][1], k + i, all>> /\ (ct \/ N[q[i]] = <<A[q[i]]>>)
    BY Zenon DEF Scanned
  <2> QED BY <2>2, <2>3
<1>3. ASSUME o, NEW i \in 1 .. c
      PROVE  g.rxdp # q[i]
  <2>1. i \in 1 .. w
    BY <1>1
  <2>2. h.rxdp # q[i]
    BY <1>3 DEF Scanned
  <2> QED BY <1>3, <2>1, <2>2 DEF Moved
<1> QED BY <1>1, <1>2, <1>3 DEF Scanned

(* The place of the main loop stays right when more segments come and the  *)
(* MAC goes on.                                                            *)
LEMMA AtMoved ==
    ASSUME NEW l, NEW s, NEW rd, NEW z \in Nat, NEW w \in Nat, NEW A, NEW N, NEW h, NEW o, NEW ct,
           At(l, s, rd, z, w, A, N, h, o, ct), l.cnt \in Nat,
           NEW v \in Nat, w <= v, NEW C, NEW g, Moved(s.rxdesc, w, A, C, h, g, o)
    PROVE  At(l, s, rd, z, v, C, N, g, o, ct)
<1> DEFINE q == s.rxdesc
<1> HIDE DEF q
<1>1. ASSUME NEW c \in Nat, NEW k, NEW all, Scanned(q, c, w, A, N, k, all, h, o, ct)
      PROVE  Scanned(q, c, v, C, N, k, all, g, o, ct)
  <2>1. Moved(q, w, A, C, h, g, o)
    BY DEF q
  <2> QED BY <1>1, <2>1, ScannedMoved
<1>2. ASSUME ScanAt(l, q, z, w, A, N, h, o, ct)
      PROVE  ScanAt(l, q, z, v, C, N, g, o, ct)
  <2>1. PICK all \in 1 .. MaxSegs : l.cnt < all /\ Scanned(q, l.cnt, w, A, N, 0, all, h, o, ct)
    BY <1>2 DEF ScanAt
  <2>2. Scanned(q, l.cnt, v, C, N, 0, all, g, o, ct)
    BY <2>1, <1>1
  <2> QED BY <1>2, <2>1, <2>2, Zenon DEF ScanAt
<1>3. ASSUME TakeAt(l, q, z, w, A, N, h, o, ct)
      PROVE  TakeAt(l, q, z, v, C, N, g, o, ct)
  <2> DEFINE b == Len(l.frame)
  <2>1. PICK t \in 1 .. z - 1 :
          /\ l.tail = q[t] /\ l.ds = q[t + 1] /\ b + t <= MaxSegs
          /\ Scanned(q, t, w, A, N, b, b + t, h, o, ct)
          /\ \A j \in 1 .. b :
                 /\ l.frame[j].data = <<A[q[1]][1], j, b + t>>
                 /\ ct \/ l.frame[j].len = <<l.frame[j].data>>
    BY <1>3 DEF TakeAt
  <2>2. t \in Nat /\ Scanned(q, t, v, C, N, b, b + t, g, o, ct)
    <3>1. t \in Nat
      OBVIOUS
    <3> QED BY <3>1, <2>1, <1>1
  <2>3. C[q[1]] = A[q[1]]
    <3>1. t <= w
      BY <2>1 DEF Scanned
    <3>2. 1 \in 1 .. w
      BY <3>1
    <3> QED BY <3>2 DEF q, Moved
  <2>4. l.head = q[1] /\ l.cnt = 0 /\ l.frags = 0
    BY <1>3 DEF TakeAt
  <2> QED BY <2>1, <2>2, <2>3, <2>4 DEF TakeAt
<1> QED BY <1>2, <1>3, Zenon DEF At, q

(* One more descriptor holds a segment.                                    *)
Grown(q, w, A, C, g) ==
    /\ \A i \in 1 .. w : C[q[i]] = A[q[i]]
    /\ C[q[w + 1]] = g

(* The ring has one more done descriptor.                                  *)
LEMMA GrownRing ==
    ASSUME NEW q, NEW n \in Nat, Len(q) = n, \A i, j \in 1 .. n : q[i] = q[j] => i = j,
           NEW z \in Nat, NEW w \in Nat, w + 1 <= z, NEW B, NEW D, NEW L, Ring(q, z, w, B, D, L),
           NEW F, \A e : e \in F <=> e \in D \/ e = q[w + 1]
    PROVE  Ring(q, z, w + 1, B, F, L)
<1>1. /\ z \in 1 .. n - 1
      /\ \A i \in 1 .. n - 1 : q[i] \in B /\ (q[i] \in D <=> i <= w)
  BY DEF Ring
<1>2. ASSUME NEW i \in 1 .. n - 1
      PROVE  q[i] \in B /\ (q[i] \in F <=> i <= w + 1)
  <2>1. i \in 1 .. n /\ w + 1 \in 1 .. n
    BY <1>1
  <2>2. q[i] = q[w + 1] <=> i = w + 1
    BY <2>1
  <2>3. q[i] \in F <=> i <= w \/ i = w + 1
    BY <1>1, <2>2
  <2> QED BY <1>1, <2>3
<1>3. w + 1 \in 0 .. z
  OBVIOUS
<1> QED BY <1>2, <1>3 DEF Ring

(* Its segments are in order when the new one comes after the last.        *)
LEMMA GrownContents ==
    ASSUME NEW q, NEW w \in Nat, NEW A, NEW C, NEW g \in Segs, Grown(q, w, A, C, g),
           NEW k, NEW lo \in Nat, NEW hi \in Nat, Contents(q, w, A, k, lo, hi),
           g[2] <= g[3], lo < g[1], hi <= g[1],
           w >= 1 => Follows(A[q[w]], g), w = 0 => g[2] = k + 1
    PROVE  Contents(q, w + 1, C, k, lo, g[1])
<1> DEFINE v == w + 1
<1>1. (\A i \in 1 .. w : C[q[i]] = A[q[i]]) /\ C[q[v]] = g
  BY Zenon DEF Grown
<1>2. \A i \in 1 .. v : i \in 1 .. w \/ i = v
  OBVIOUS
<1>3. \A i \in 1 .. w : /\ A[q[i]] \in Segs /\ A[q[i]][2] <= A[q[i]][3]
                        /\ lo < A[q[i]][1] /\ A[q[i]][1] <= hi
  BY DEF Contents
<1>4. g[1] \in Nat /\ \A i \in 1 .. w : A[q[i]][1] \in Nat
  <2>1. \A s \in Segs : s[1] \in Nat
    BY SegParts, RxAssumption
  <2> QED BY <2>1, <1>3
<1>5. v \in Nat /\ v - 1 = w
  OBVIOUS
<1> HIDE DEF v
<1>6. ASSUME NEW i \in 1 .. v
      PROVE  /\ C[q[i]] \in Segs /\ C[q[i]][2] <= C[q[i]][3]
             /\ lo < C[q[i]][1] /\ C[q[i]][1] <= g[1]
  <2>1. CASE i \in 1 .. w
    <3>1. C[q[i]] = A[q[i]]
      BY <2>1, <1>1
    <3>2. A[q[i]][1] <= hi /\ A[q[i]][1] \in Nat
      BY <2>1, <1>3, <1>4
    <3>3. A[q[i]][1] <= g[1]
      BY <3>2, <1>4
    <3> QED BY <2>1, <3>1, <3>3, <1>3
  <2>2. CASE i = v
    BY <2>2, <1>1, <1>4
  <2> QED BY <2>1, <2>2, <1>2
<1>7. ASSUME NEW i \in 1 .. w
      PROVE  Follows(C[q[i]], C[q[i + 1]])
  <2>1. CASE i = w
    <3>1. C[q[i]] = A[q[w]] /\ w >= 1
      BY <2>1, <1>1
    <3>2. i + 1 = v
      BY <2>1 DEF v
    <3> QED BY <3>1, <3>2, <1>1
  <2>2. CASE i # w
    <3>1. i \in 1 .. w - 1 /\ i + 1 \in 1 .. w
      BY <2>2
    <3>2. Follows(A[q[i]], A[q[i + 1]])
      BY <3>1 DEF Contents
    <3>3. C[q[i]] = A[q[i]] /\ C[q[i + 1]] = A[q[i + 1]]
      BY <3>1, <1>1
    <3> QED BY <3>2, <3>3
  <2> QED BY <2>1, <2>2
<1>8. ASSUME NEW i \in 1 .. v, NEW j \in 1 .. v, i <= j
      PROVE  C[q[i]][1] <= C[q[j]][1]
  <2>1. CASE j = v
    BY <2>1, <1>1, <1>6
  <2>2. CASE j # v
    <3>1. i \in 1 .. w /\ j \in 1 .. w
      BY <2>2, <1>8, <1>2, <1>5
    <3>2. A[q[i]][1] <= A[q[j]][1]
      BY <3>1, <1>8 DEF Contents
    <3> QED BY <3>1, <3>2, <1>1
  <2> QED BY <2>1, <2>2
<1>9. C[q[1]][2] = k + 1
  <2>1. CASE w = 0
    <3>1. v = 1
      BY <2>1 DEF v
    <3> QED BY <2>1, <3>1, <1>1
  <2>2. CASE w # 0
    <3>1. 1 \in 1 .. w /\ w >= 1
      BY <2>2
    <3>2. A[q[1]][2] = k + 1
      BY <3>1 DEF Contents
    <3> QED BY <3>1, <3>2, <1>1
  <2> QED BY <2>1, <2>2
<1>10. Contents(q, v, C, k, lo, g[1])
  BY <1>5, <1>6, <1>7, <1>8, <1>9 DEF Contents
<1> QED BY <1>10 DEF v

(* The lengths are not touched.                                            *)
LEMMA GrownLengths ==
    ASSUME NEW q, NEW w \in Nat, NEW A, NEW C, NEW g, Grown(q, w, A, C, g),
           NEW N, NEW ct, Lengths(q, w, A, N, ct)
    PROVE  Lengths(q, w + 1, C, N, ct)
<1>1. ASSUME NEW i \in 1 .. Len(q) - 1
      PROVE  ct \/ N[q[i]] = NoLen \/ (i <= w + 1 /\ N[q[i]] = <<C[q[i]]>>)
  <2>1. ct \/ N[q[i]] = NoLen \/ (i <= w /\ N[q[i]] = <<A[q[i]]>>)
    BY DEF Lengths
  <2>2. ASSUME i <= w
        PROVE  C[q[i]] = A[q[i]]
    <3>1. i \in 1 .. w
      BY <2>2
    <3> QED BY <3>1 DEF Grown
  <2>3. CASE ct \/ N[q[i]] = NoLen
    BY <2>3
  <2>4. CASE i <= w /\ N[q[i]] = <<A[q[i]]>>
    <3>1. i <= w + 1
      BY <2>4
    <3> QED BY <2>2, <2>4, <3>1
  <2> QED BY <2>1, <2>3, <2>4
<1> QED BY <1>1 DEF Lengths

(* The segment the MAC writes comes after the last one it has written.     *)
LEMMA NextSegment ==
    ASSUME TypeInv, NEW z \in Nat, NEW w \in Nat, Running(z, w), on,
           Passing(up, ready, sent, cut, hw.frames), NEW g \in Receivable
    PROVE  /\ g \in Segs /\ g[2] <= g[3] /\ LastOf(ready, sent) < g[1] /\ hw.frames <= g[1]
           /\ w >= 1 => Follows(DataOf(desc)[sc.rxdesc[w]], g)
           /\ w = 0 => g[2] = Len(loc.frame) + 1
<1> DEFINE q == sc.rxdesc
           a == DataOf(desc)[q[w]]
           lo == LastOf(ready, sent)
<1>1. /\ Contents(q, w, DataOf(desc), Len(loc.frame), lo, hw.frames)
      /\ hw.seg = (IF w >= 1 /\ a[2] # a[3] THEN a ELSE NoSeg)
      /\ hw.seg # NoSeg => hw.seg[1] = hw.frames
      /\ At(loc, sc, ready, z, w, DataOf(desc), LenOf(desc), hw, on, cut)
  BY DEF Running, MacOn
<1>2. hw.frames \in Nat /\ hw.frames <= MaxFrames /\ ready \in Seq(Seq(Nbufs)) /\ sent \in Nat
  BY Fields
<1>3. lo \in Nat /\ lo <= hw.frames
  BY <1>2, LastBounds
<1>4. ASSUME w >= 1
      PROVE  a \in Segs /\ a[2] <= a[3] /\ lo < a[1] /\ a[1] <= hw.frames
  <2>1. w \in 1 .. w
    BY <1>4
  <2> QED BY <2>1, <1>1 DEF Contents
<1> HIDE DEF a, q, lo
<1>5. CASE hw.seg = NoSeg
  <2>1. hw.frames < MaxFrames /\ \E n \in 1 .. MaxSegs : g = <<hw.frames + 1, 1, n>>
    BY <1>5, Zenon DEF Receivable
  <2>2. PICK n \in 1 .. MaxSegs : g = <<hw.frames + 1, 1, n>>
    BY <2>1
  <2>3. g[1] = hw.frames + 1 /\ g[2] = 1 /\ g[3] = n
    BY <2>2
  <2>4. hw.frames + 1 \in 1 .. MaxFrames /\ 1 \in 1 .. MaxSegs
    BY <1>2, <2>1, RxAssumption
  <2>5. g \in Segs
    BY <2>2, <2>4, SegParts
  <2>6. ASSUME w >= 1
        PROVE  Follows(a, g)
    <3>1. a[2] = a[3]
      BY <1>1, <1>4, <1>5, <2>6, NoneApart
    <3>2. a[1] \in Nat
      BY <1>4, <2>6, SegParts, RxAssumption
    <3>3. g[1] > a[1]
      BY <1>2, <1>4, <2>3, <2>6, <3>2
    <3> QED BY <3>1, <3>3, <2>3 DEF Follows
  <2>7. ASSUME w = 0
        PROVE  Len(loc.frame) = 0
    <3>1. loc.at # "take"
      <4>1. SUFFICES ASSUME TakeAt(loc, sc.rxdesc, z, w, DataOf(desc), LenOf(desc), hw, on, cut)
                     PROVE  FALSE
        BY <1>1 DEF At
      <4>2. \E t \in 1 .. z - 1 : t <= w
        BY <4>1 DEF TakeAt, Scanned
      <4> QED BY <4>2, <2>7
    <3>2. loc.frame = << >>
      BY <1>1, <3>1, PollingIs DEF At, ScanAt
    <3> QED BY <3>2
  <2>8. g[2] <= g[3] /\ lo < g[1] /\ hw.frames <= g[1]
    BY <1>2, <1>3, <2>3
  <2> QED BY <2>3, <2>5, <2>6, <2>7, <2>8 DEF a, q, lo
<1>6. CASE hw.seg # NoSeg
  <2>1. w >= 1 /\ a[2] # a[3] /\ hw.seg = a /\ a[1] = hw.frames
    BY <1>1, <1>6
  <2>2. g = <<a[1], a[2] + 1, a[3]>>
    BY <1>6, <2>1, Zenon DEF Receivable
  <2>3. a \in Segs /\ a[2] <= a[3] /\ lo < a[1]
    BY <2>1, <1>4
  <2>4. a[1] \in 1 .. MaxFrames /\ a[2] \in 1 .. MaxSegs /\ a[3] \in 1 .. MaxSegs
    BY <2>3, SegParts
  <2>5. a[2] + 1 \in 1 .. MaxSegs /\ a[2] + 1 <= a[3]
    BY <2>1, <2>3, <2>4, RxAssumption
  <2>6. g[1] = a[1] /\ g[2] = a[2] + 1 /\ g[3] = a[3]
    BY <2>2
  <2>7. g \in Segs
    BY <2>2, <2>4, <2>5, SegParts
  <2>8. Follows(a, g)
    BY <2>1, <2>2 DEF Follows
  <2>9. g[2] <= g[3] /\ lo < g[1] /\ hw.frames <= g[1] /\ w # 0
    BY <2>1, <2>3, <2>5, <2>6, <1>2
  <2> QED BY <2>7, <2>8, <2>9 DEF a, q, lo
<1> QED BY <1>5, <1>6

(* Reception is on only when the ring runs.                                *)
LEMMA OnPlace ==
    ASSUME IInv, on
    PROVE  \E z, w \in Nat : Running(z, w)
<1>1. ~Fresh
  BY DEF Fresh
<1>2. ~\E k \in Nat : Building(k)
  BY DEF Building
<1> QED BY <1>1, <1>2 DEF IInv

(* The MAC writes a segment.                                               *)
LEMMA ReceiveStep ==
    ASSUME IInv, HwReceive
    PROVE  IInv'
<1> DEFINE q == sc.rxdesc
           n == Len(q)
           d == hw.rxdp
           B == NbufOf(desc)  D == DoneOf(desc)  L == LinkOf(desc)
           A == DataOf(desc)  N == LenOf(desc)  C == DataOf(desc')
           b == Len(loc.frame)
           lo == LastOf(ready, sent)
<1>1. /\ on /\ d # NoDesc /\ ~desc[d].done
      /\ UNCHANGED <<sc, ready, up, loc, on, starts, sent, cut>>
  BY DEF HwReceive
<1>2. PICK g \in Receivable :
        /\ desc' = [desc EXCEPT ![d] = [@ EXCEPT !.done = TRUE, !.data = g]]
        /\ hw' = [hw EXCEPT !.frames = g[1],
                            !.seg = IF g[2] = g[3] THEN NoSeg ELSE g,
                            !.isr = @ \/ g[2] = g[3]]
  BY DEF HwReceive
<1>3. TypeInv /\ Lists(q, sc.idle) /\ Bare(sc.idle, B, N) /\ Passing(up, ready, sent, cut, hw.frames)
  BY DEF IInv
<1>4. /\ q \in Seq(Descs) /\ n \in Nat /\ desc \in [Descs -> RxDescs] /\ starts \in Nat
      /\ hw.frames \in Nat /\ ready \in Seq(Seq(Nbufs)) /\ sent \in Nat /\ loc.cnt \in Nat
      /\ (\A i, j \in 1 .. n : q[i] = q[j] => i = j)
  BY <1>3, Fields DEF Lists
<1>5. PICK z \in Nat, w \in Nat : Running(z, w)
  BY <1>1, OnPlace
<1>6. /\ starts >= 1 /\ Ring(q, z, w, B, D, L) /\ sc.held = q[n]
      /\ Contents(q, w, A, b, lo, hw.frames) /\ Lengths(q, w, A, N, cut)
      /\ MacOn(hw, q, z, w, A, sc.rxlink)
      /\ At(loc, sc, ready, z, w, A, N, hw, on, cut)
  BY <1>1, <1>5 DEF Running
<1>7. PICK p \in 1 .. z : d = q[p] /\ w \in {p - 1, p}
  BY <1>6 DEF MacOn
<1>8. z = n - 1 /\ sc.rxlink = q[z]
  BY <1>6 DEF MacOn
<1> HIDE DEF n
<1>9. p \in 1 .. n - 1 /\ p \in 1 .. n /\ q[p] \in Descs
  <2>1. p \in 1 .. n - 1 /\ p \in 1 .. n
    BY <1>4, <1>8
  <2> QED BY <2>1, <1>4 DEF n
<1>10. p = w + 1 /\ w + 1 <= z /\ d = q[w + 1] /\ d \in Descs
  <2>1. q[p] \notin D
    BY <1>1, <1>7, <1>9, <1>4, Zenon DEF DoneOf
  <2>2. ~(p <= w)
    BY <2>1, <1>6, <1>9 DEF Ring, n
  <2> QED BY <2>2, <1>7, <1>9
<1>11. /\ g \in Segs /\ g[2] <= g[3] /\ lo < g[1] /\ hw.frames <= g[1]
       /\ w >= 1 => Follows(A[q[w]], g)
       /\ w = 0 => g[2] = b + 1
  BY <1>1, <1>3, <1>5, NextSegment
<1>12. ReceiveViews(desc, desc', d, g)
  <2> DEFINE r == desc'
  <2>1. r = [desc EXCEPT ![d] = [@ EXCEPT !.done = TRUE, !.data = g]]
    BY <1>2
  <2> HIDE DEF r, d
  <2>2. ReceiveViews(desc, r, d, g)
    BY <2>1, <1>4, <1>10, <1>11, SegReceived
  <2> QED BY <2>2 DEF r
<1> HIDE DEF d
<1>13. /\ desc' \in [Descs -> RxDescs]
       /\ \A e : e \in NbufOf(desc') <=> e \in B
       /\ \A e : e \in DoneOf(desc') <=> e \in D \/ e = d
       /\ \A e \in Descs : /\ LinkOf(desc')[e] = L[e] /\ LenOf(desc')[e] = N[e]
                           /\ C[e] = IF e = d THEN g ELSE A[e]
  BY <1>12, Zenon DEF ReceiveViews
<1>14. NbufOf(desc') = B /\ LinkOf(desc') = L /\ LenOf(desc') = N
  <2>1. NbufOf(desc') = B
    BY <1>13
  <2>2. L = [e \in Descs |-> L[e]] /\ LinkOf(desc') = [e \in Descs |-> LinkOf(desc')[e]]
    BY DEF LinkOf
  <2>3. N = [e \in Descs |-> N[e]] /\ LenOf(desc') = [e \in Descs |-> LenOf(desc')[e]]
    BY DEF LenOf
  <2> QED BY <2>1, <2>2, <2>3, <1>13
<1>15. Grown(q, w, A, C, g)
  <2>1. ASSUME NEW i \in 1 .. w
        PROVE  C[q[i]] = A[q[i]]
    <3>1. i \in 1 .. n /\ i # w + 1 /\ w + 1 \in 1 .. n
      BY <1>4, <1>8, <1>10
    <3>2. q[i] \in Descs
      BY <3>1, <1>4 DEF n
    <3>3. q[i] # d
      BY <3>1, <1>4, <1>10
    <3> QED BY <3>2, <3>3, <1>13
  <2>2. C[q[w + 1]] = g
    BY <1>10, <1>13
  <2> QED BY <2>1, <2>2 DEF Grown
<1>16. /\ hw' \in [rxdp : DescOrNull, rxe : BOOLEAN, isr : BOOLEAN, seg : SegsOrNone, frames : 0 .. MaxFrames]
       /\ hw'.rxdp = d /\ hw'.frames = g[1] /\ hw'.seg = IF g[2] = g[3] THEN NoSeg ELSE g
  <2> DEFINE x == g[1]
             y == IF g[2] = g[3] THEN NoSeg ELSE g
             i == hw.isr \/ g[2] = g[3]
  <2>1. x \in 0 .. MaxFrames
    BY <1>11, SegParts, RxAssumption
  <2>2. y \in SegsOrNone
    BY <1>11, NoneApart
  <2>3. hw' = [hw EXCEPT !.frames = x, !.seg = y, !.isr = i]
    BY <1>2, <1>3 DEF TypeInv
  <2>4. i \in BOOLEAN
    OBVIOUS
  <2> HIDE DEF x, y, i
  <2>5. /\ hw' \in [rxdp : DescOrNull, rxe : BOOLEAN, isr : BOOLEAN, seg : SegsOrNone, frames : 0 .. MaxFrames]
        /\ hw'.rxdp = hw.rxdp /\ hw'.frames = x /\ hw'.seg = y
    BY <2>1, <2>2, <2>3, <2>4, <1>3 DEF TypeInv
  <2> QED BY <2>5 DEF x, y, d
<1>17. TypeInv'
  BY <1>1, <1>3, <1>13, <1>16 DEF TypeInv
<1> DEFINE F == DoneOf(desc')
<1>18. \A e : e \in F <=> e \in D \/ e = q[w + 1]
  BY <1>10, <1>13
<1>18a. lo \in Nat
  BY <1>3, <1>4, LastBounds
<1>19. Ring(q, z, w + 1, B, F, L)
  <2> HIDE DEF q, B, D, L, F
  <2>1. n = Len(q) /\ n \in Nat /\ w + 1 <= z /\ Ring(q, z, w, B, D, L)
    BY <1>4, <1>6, <1>10 DEF n, q
  <2>2. \A i, j \in 1 .. n : q[i] = q[j] => i = j
    BY <1>4
  <2> QED BY <2>1, <2>2, <1>18, GrownRing
<1>20. Contents(q, w + 1, C, b, lo, g[1])
  <2> HIDE DEF q, A, C, b, lo
  <2> QED BY <1>4, <1>6, <1>11, <1>15, <1>18a, GrownContents
<1>21. Lengths(q, w + 1, C, N, cut)
  <2> HIDE DEF q, A, C, N
  <2> QED BY <1>6, <1>15, GrownLengths
<1>22. MacOn(hw', q, z, w + 1, C, sc.rxlink)
  <2>1. w + 1 \in 1 .. z /\ hw'.rxdp = q[w + 1] /\ w + 1 \in {(w + 1) - 1, w + 1}
    BY <1>10, <1>16
  <2>2. C[q[w + 1]] = g /\ w + 1 >= 1
    BY <1>15 DEF Grown
  <2>3. hw'.seg = IF w + 1 >= 1 /\ C[q[w + 1]][2] # C[q[w + 1]][3] THEN C[q[w + 1]] ELSE NoSeg
    BY <2>2, <1>16
  <2>4. hw'.seg # NoSeg => hw'.seg[1] = hw'.frames
    BY <1>16
  <2>5. \E i \in 1 .. z : hw'.rxdp = q[i] /\ w + 1 \in {i - 1, i}
    BY <2>1
  <2> HIDE DEF q, C
  <2> QED BY <2>3, <2>4, <2>5, <1>8 DEF MacOn, n, q
<1>23. At(loc, sc, ready, z, w + 1, C, N, hw', on, cut)
  <2> DEFINE h == hw'
  <2>1. Moved(sc.rxdesc, w, A, C, hw, h, on)
    BY <1>15, <1>16 DEF Moved, Grown, d
  <2>2. w + 1 \in Nat /\ w <= w + 1
    OBVIOUS
  <2> HIDE DEF h, A, C, N
  <2>3. At(loc, sc, ready, z, w + 1, C, N, h, on, cut)
    BY <2>1, <2>2, <1>4, <1>6, AtMoved
  <2> QED BY <2>3 DEF h
<1>24. PICK v \in Nat : v = w + 1
  OBVIOUS
<1>25. Running(z, v)'
  BY <1>1, <1>6, <1>14, <1>16, <1>19, <1>20, <1>21, <1>22, <1>23, <1>24 DEF Running, n
<1>26. Passing(up', ready', sent', cut', hw'.frames)
  <2>0. g[1] \in 1 .. MaxFrames
    BY <1>11, SegParts
  <2>1. g[1] \in Nat /\ cut \in BOOLEAN
    BY <2>0, <1>3, RxAssumption DEF TypeInv
  <2>2. Passing(up, ready, sent, cut, g[1])
    BY <2>1, <1>3, <1>4, <1>11, PassLater
  <2> QED BY <2>2, <1>1, <1>16
<1>27. Balanced(sc'.pool, sc'.idle, NbufOf(desc'), BuffersIn(ready', up', loc'), starts', loc'.at)
  BY <1>1, <1>14 DEF IInv
<1>28. Lists(sc'.rxdesc, sc'.idle) /\ Bare(sc'.idle, NbufOf(desc'), LenOf(desc'))
  BY <1>1, <1>3, <1>14
<1> QED BY <1>17, <1>25, <1>26, <1>27, <1>28, FromRing

(* The MAC goes on to the next descriptor, or stops at the end of the      *)
(* list.                                                                   *)
LEMMA AdvanceStep ==
    ASSUME IInv, HwAdvance
    PROVE  IInv'
<1> DEFINE q == sc.rxdesc
           n == Len(q)
           d == hw.rxdp
           B == NbufOf(desc)  D == DoneOf(desc)  L == LinkOf(desc)
           A == DataOf(desc)  N == LenOf(desc)
<1>1. /\ hw.rxe /\ d # NoDesc /\ desc[d].done
      /\ UNCHANGED <<sc, desc, ready, up, loc, on, starts, sent, cut>>
  BY DEF HwAdvance
<1>2. TypeInv /\ Lists(q, sc.idle) /\ Bare(sc.idle, B, N) /\ Passing(up, ready, sent, cut, hw.frames)
  BY DEF IInv
<1>3. /\ q \in Seq(Descs) /\ n \in Nat /\ desc \in [Descs -> RxDescs] /\ loc.cnt \in Nat /\ hw.rxdp \in DescOrNull
      /\ (\A i, j \in 1 .. n : q[i] = q[j] => i = j)
  BY <1>2, Fields DEF Lists
<1>4. d \in Descs /\ d \in D
  <2>1. d \in Descs
    BY <1>1, <1>3 DEF DescOrNull
  <2> QED BY <2>1, <1>1 DEF DoneOf
<1>5. on
  <2> SUFFICES ASSUME ~on
               PROVE  FALSE
    OBVIOUS
  <2>1. ~Fresh
    BY <1>1 DEF Fresh
  <2>2. ASSUME NEW k \in Nat, Building(k)
        PROVE  FALSE
    BY <2>2, <1>1, <1>4 DEF Building, MacStill
  <2>3. ASSUME NEW z \in Nat, NEW w \in Nat, Running(z, w)
        PROVE  FALSE
    BY <2>3, <1>1, <1>4 DEF Running, MacOff, MacStill
  <2> QED BY <2>1, <2>2, <2>3 DEF IInv
<1>6. PICK z \in Nat, w \in Nat : Running(z, w)
  BY <1>5, OnPlace
<1>7. /\ Ring(q, z, w, B, D, L) /\ MacOn(hw, q, z, w, A, sc.rxlink)
      /\ At(loc, sc, ready, z, w, A, N, hw, on, cut)
  BY <1>5, <1>6 DEF Running
<1>8. PICK p \in 1 .. z : d = q[p] /\ w \in {p - 1, p}
  BY <1>7 DEF MacOn
<1>9. z = n - 1
  BY <1>7 DEF MacOn
<1> HIDE DEF n
<1>10. p = w /\ L[q[p]] = IF p < z THEN q[p + 1] ELSE NoDesc
  <2>1. p \in 1 .. n - 1
    BY <1>9
  <2>2. p <= w
    BY <2>1, <1>4, <1>7, <1>8 DEF Ring, n
  <2> QED BY <2>2, <1>7, <1>8 DEF Ring
<1>11. desc[d].link = IF w < z THEN q[w + 1] ELSE NoDesc
  <2>1. L[d] = desc[d].link
    BY <1>4, Zenon DEF LinkOf
  <2> QED BY <2>1, <1>8, <1>10
<1>12. w < z => w + 1 \in 1 .. z /\ w + 1 \in 1 .. n /\ q[w + 1] \in Descs
  <2>1. w < z => w + 1 \in 1 .. z /\ w + 1 \in 1 .. n
    BY <1>3, <1>9
  <2> QED BY <2>1, <1>3 DEF n
<1>13. /\ hw' \in [rxdp : DescOrNull, rxe : BOOLEAN, isr : BOOLEAN, seg : SegsOrNone, frames : 0 .. MaxFrames]
       /\ hw'.rxdp = (IF w < z THEN q[w + 1] ELSE d)
       /\ hw'.seg = hw.seg /\ hw'.frames = hw.frames
  <2>1. CASE w < z
    <3> DEFINE x == q[w + 1]
    <3>1. desc[d].link = x /\ x # NoDesc /\ x \in DescOrNull
      BY <2>1, <1>11, <1>12, NoneApart DEF DescOrNull
    <3>2. hw' = [hw EXCEPT !.rxdp = x]
      BY <3>1 DEF HwAdvance
    <3> HIDE DEF x
    <3>3. /\ hw' \in [rxdp : DescOrNull, rxe : BOOLEAN, isr : BOOLEAN, seg : SegsOrNone, frames : 0 .. MaxFrames]
          /\ hw'.rxdp = x /\ hw'.seg = hw.seg /\ hw'.frames = hw.frames
      BY <3>1, <3>2, <1>2 DEF TypeInv
    <3> QED BY <2>1, <3>3 DEF x
  <2>2. CASE ~(w < z)
    <3>1. hw' = [hw EXCEPT !.rxe = FALSE, !.isr = TRUE]
      BY <2>2, <1>11 DEF HwAdvance
    <3> QED BY <2>2, <3>1, <1>2 DEF TypeInv
  <2> QED BY <2>1, <2>2
<1>14. TypeInv'
  BY <1>1, <1>2, <1>13 DEF TypeInv
<1>15. MacOn(hw', q, z, w, A, sc.rxlink)
  <2> DEFINE h == hw'
  <2>1. \E i \in 1 .. z : h.rxdp = q[i] /\ w \in {i - 1, i}
    <3>1. CASE w < z
      <4>1. h.rxdp = q[w + 1] /\ w \in {(w + 1) - 1, w + 1} /\ w + 1 \in 1 .. z
        BY <3>1, <1>12, <1>13
      <4> QED BY <4>1
    <3>2. CASE ~(w < z)
      BY <3>2, <1>8, <1>13
    <3> QED BY <3>1, <3>2
  <2>2. h.seg = hw.seg /\ h.frames = hw.frames
    BY <1>13
  <2> HIDE DEF h, q, A
  <2>3. MacOn(h, q, z, w, A, sc.rxlink)
    BY <2>1, <2>2, <1>7 DEF MacOn
  <2> QED BY <2>3 DEF h
<1>16. At(loc, sc, ready, z, w, A, N, hw', on, cut)
  <2> DEFINE h == hw'
  <2>1. ASSUME NEW i \in 1 .. w, hw.rxdp # q[i]
        PROVE  h.rxdp # q[i]
    <3>1. CASE w < z
      <4>1. i \in 1 .. n /\ w + 1 \in 1 .. n /\ i # w + 1
        BY <3>1, <1>3, <1>9
      <4> QED BY <3>1, <4>1, <1>3, <1>13
    <3>2. CASE ~(w < z)
      BY <2>1, <3>2, <1>13
    <3> QED BY <3>1, <3>2
  <2>2. Moved(sc.rxdesc, w, A, A, hw, h, on)
    BY <2>1 DEF Moved
  <2>3. w <= w
    OBVIOUS
  <2> HIDE DEF h, A, N
  <2>4. At(loc, sc, ready, z, w, A, N, h, on, cut)
    BY <2>2, <2>3, <1>3, <1>7, AtMoved
  <2> QED BY <2>4 DEF h
<1>17. Running(z, w)'
  BY <1>1, <1>5, <1>6, <1>13, <1>15, <1>16 DEF Running
<1>18. Passing(up', ready', sent', cut', hw'.frames)
  BY <1>1, <1>2, <1>13
<1>19. Balanced(sc'.pool, sc'.idle, NbufOf(desc'), BuffersIn(ready', up', loc'), starts', loc'.at)
  BY <1>1 DEF IInv
<1>20. Lists(sc'.rxdesc, sc'.idle) /\ Bare(sc'.idle, NbufOf(desc'), LenOf(desc'))
  BY <1>1, <1>2
<1> QED BY <1>14, <1>17, <1>18, <1>19, <1>20, FromRing
-----------------------------------------------------------------------------
(* The invariant.                                                          *)

(* After ath_tgt_attach every buffer is in the pool and every descriptor   *)
(* in the ring.                                                            *)
LEMMA InitInv ==
    ASSUME Init
    PROVE  IInv
<1> DEFINE q == [i \in Descs |-> i]
           e == << >>
<1>1. /\ sc = [rxdesc |-> q, idle |-> e, held |-> NoDesc, rxlink |-> NoDesc, pool |-> NumDescs]
      /\ desc = [d \in Descs |->
                   [link |-> IF d = NumDescs THEN NoDesc ELSE d + 1,
                    nbuf |-> FALSE, done |-> FALSE, data |-> NoSeg, len |-> NoLen]]
      /\ ready = e /\ up = e /\ loc = Polling
      /\ hw = [rxdp |-> NoDesc, rxe |-> FALSE, isr |-> FALSE, seg |-> NoSeg, frames |-> 0]
      /\ on = FALSE /\ starts = 0 /\ sent = 0 /\ cut = FALSE
  BY DEF Init
<1>2. NumDescs \in Nat /\ NumDescs >= 3 /\ MaxFrames \in Nat /\ MaxStarts \in Nat
  BY RxAssumption
<1>3. q \in Seq(Descs) /\ Len(q) = NumDescs /\ \A i \in 1 .. NumDescs : q[i] = i
  BY <1>2 DEF Descs
<1>4. e \in Seq(Descs) /\ e \in Seq(Seq(Nbufs)) /\ Len(e) = 0
  OBVIOUS
<1> HIDE DEF q, e
<1>5. desc \in [Descs -> RxDescs]
  <2>1. ASSUME NEW d \in Descs
        PROVE  (IF d = NumDescs THEN NoDesc ELSE d + 1) \in DescOrNull
    BY <1>2 DEF Descs, DescOrNull, NoDesc
  <2> QED BY <2>1, <1>1, NoneApart DEF RxDescs
<1>6. /\ NoDesc \in DescOrNull /\ NoSeg \in SegsOrNone /\ 0 \in 0 .. MaxFrames /\ 0 \in 0 .. MaxStarts
  BY <1>2, NoneApart
<1>7. sc.rxdesc = q /\ sc.idle = e /\ sc.pool = NumDescs
      /\ sc \in [rxdesc : Seq(Descs), idle : Seq(Descs), held : DescOrNull,
                 rxlink : DescOrNull, pool : Nat]
  BY <1>1, <1>2, <1>3, <1>4, <1>6
<1>8. hw.rxe = FALSE /\ hw.isr = FALSE /\ hw.seg = NoSeg /\ hw.frames = 0
      /\ hw \in [rxdp : DescOrNull, rxe : BOOLEAN, isr : BOOLEAN, seg : SegsOrNone, frames : 0 .. MaxFrames]
  <2> DEFINE x == NoSeg
  <2>1. x \in SegsOrNone
    BY <1>6
  <2>2. hw = [rxdp |-> NoDesc, rxe |-> FALSE, isr |-> FALSE, seg |-> x, frames |-> 0]
    BY <1>1
  <2> HIDE DEF x
  <2>3. hw.rxe = FALSE /\ hw.isr = FALSE /\ hw.seg = x /\ hw.frames = 0
        /\ hw \in [rxdp : DescOrNull, rxe : BOOLEAN, isr : BOOLEAN, seg : SegsOrNone, frames : 0 .. MaxFrames]
    BY <2>1, <2>2, <1>6
  <2> QED BY <2>3 DEF x
<1>9. TypeInv
  BY <1>1, <1>4, <1>5, <1>6, <1>7, <1>8, PollingIs DEF TypeInv
<1>10. Lists(sc.rxdesc, sc.idle)
  <2>1. \A i, j \in 1 .. NumDescs : q[i] = q[j] => i = j
    BY <1>3
  <2>2. \A d \in Descs : \E i \in 1 .. NumDescs : d = q[i]
    BY <1>3 DEF Descs
  <2>3. Lists(q, e)
    BY <2>1, <2>2, <1>3, <1>4 DEF Lists
  <2> QED BY <2>3, <1>7
<1>11. NbufOf(desc) = {} /\ \A d \in Descs : LenOf(desc)[d] = NoLen
  <2>1. \A d \in Descs : desc[d].nbuf = FALSE /\ desc[d].len = NoLen
    BY <1>1
  <2> QED BY <2>1 DEF NbufOf, LenOf
<1>12. Bare(sc.idle, NbufOf(desc), LenOf(desc))
  BY <1>4, <1>7, <1>11 DEF Bare
<1>13. Fresh
  BY <1>1, <1>2, <1>3, <1>7, <1>8, <1>11 DEF Fresh, e
<1>14. Passing(up, ready, sent, cut, hw.frames)
  BY <1>1, <1>4, <1>8 DEF Passing
<1>15. Balanced(sc.pool, sc.idle, NbufOf(desc), BuffersIn(ready, up, loc), starts, loc.at)
  <2>1. Cardinality(NbufOf(desc)) = 0
    BY <1>11, FS_EmptySet
  <2>2. BuffersIn(ready, up, loc) = 0
    BY <1>1, PollingIs, FlatEmpty DEF BuffersIn, e
  <2>3. sc.idle = << >>
    BY <1>7 DEF e
  <2> QED BY <2>1, <2>2, <2>3, <1>2, <1>7 DEF Balanced
<1> QED BY <1>9, <1>10, <1>12, <1>13, <1>14, <1>15 DEF IInv

(* Every step keeps it.                                                    *)
LEMMA NextInv ==
    ASSUME IInv, [Next]_vars
    PROVE  IInv'
<1>1. CASE StartStep
  BY <1>1, StartOneStep
<1>2. CASE StartEnd
  BY <1>2, StartLastStep
<1>3. CASE AthIntr
  BY <1>3, IntrStep
<1>4. CASE ScanEnd
  BY <1>4, ScanEndStep
<1>5. CASE ScanMore
  BY <1>5, ScanMoreStep
<1>6. CASE ScanTake
  BY <1>6, ScanTakeStep
<1>7. CASE TakeDesc
  BY <1>7, TakeStep
<1>8. CASE RxTasklet
  BY <1>8, TaskletStep
<1>9. CASE SendComplete
  BY <1>9, SendStep
<1>10. CASE CompleteStep
  BY <1>10, CompleteOneStep
<1>11. CASE CompleteEnd
  BY <1>11, CompleteEndStep
<1>12. CASE StartRecv
  BY <1>12, StartStep0
<1>13. CASE StopRecv
  BY <1>13, StopStep
<1>14. CASE HwReceive
  BY <1>14, ReceiveStep
<1>15. CASE HwAdvance
  BY <1>15, AdvanceStep
<1>16. CASE UNCHANGED vars
  BY <1>16 DEF vars, IInv, TypeInv, Fresh, Building, Running
<1> QED
  BY <1>1, <1>2, <1>3, <1>4, <1>5, <1>6, <1>7, <1>8, <1>9, <1>10, <1>11, <1>12, <1>13, <1>14, <1>15, <1>16
     DEF Next, Firmware, Host

(* The invariant holds in every reachable state: it says of each place of  *)
(* the main loop how far the list is built or how much of it the MAC has   *)
(* filled, and where every buffer is.                                      *)
THEOREM Invariance == Spec => []IInv
<1>1. Init => IInv
  BY InitInv
<1>2. IInv /\ [Next]_vars => IInv'
  BY NextInv
<1> QED BY <1>1, <1>2, PTL DEF Spec
-----------------------------------------------------------------------------
(* What it implies.                                                        *)

(* The buffers of the frames on their way are counted by naturals.         *)
LEMMA BuffersCount ==
    ASSUME TypeInv
    PROVE  /\ Len(FlattenSeq(ready)) \in Nat /\ Len(FlattenSeq(up)) \in Nat
           /\ BuffersIn(ready, up, loc) \in Nat
           /\ Len(FlattenSeq(ready)) <= BuffersIn(ready, up, loc)
<1>1. Len(FlattenSeq(ready)) \in Nat /\ Len(FlattenSeq(up)) \in Nat
  BY Fields, FlatCounts, FlatLen
<1>2. loc.frags \in Nat /\ Len(loc.frame) \in Nat
  BY Fields
<1> QED BY <1>1, <1>2 DEF BuffersIn

(* Some descriptor of the ring has no buffer: the one that is held, or the *)
(* last.                                                                   *)
LEMMA OneBare ==
    ASSUME IInv
    PROVE  sc.rxdesc \in Seq(Descs) /\ Len(sc.rxdesc) >= 1 /\ sc.rxdesc[Len(sc.rxdesc)] \notin NbufOf(desc)
<1>1. sc.rxdesc \in Seq(Descs)
  BY Fields DEF IInv
<1>2. CASE Fresh
  BY <1>1, <1>2 DEF Fresh
<1>3. ASSUME NEW k \in Nat, Building(k)
      PROVE  Len(sc.rxdesc) >= 1 /\ sc.rxdesc[Len(sc.rxdesc)] \notin NbufOf(desc)
  BY <1>1, <1>3 DEF Building, BuildRing
<1>4. ASSUME NEW z \in Nat, NEW w \in Nat, Running(z, w)
      PROVE  Len(sc.rxdesc) >= 1 /\ sc.rxdesc[Len(sc.rxdesc)] \notin NbufOf(desc)
  BY <1>1, <1>4 DEF Running, Ring
<1> QED BY <1>1, <1>2, <1>3, <1>4 DEF IInv

(* While a descriptor is idle a frame is on its way, so that there is a    *)
(* completion to bring it back.                                            *)
LEMMA IdleHasFrame ==
    ASSUME IInv, sc.idle # << >>
    PROVE  sc.pool = 0 /\ BuffersIn(ready, up, loc) > 0
<1> DEFINE B == NbufOf(desc)
           h == sc.rxdesc[Len(sc.rxdesc)]
           g == sc.idle[1]
           E == B \cup {h}
           F == E \cup {g}
<1>1. TypeInv /\ sc.pool = 0 /\ sc.pool + Cardinality(B) + BuffersIn(ready, up, loc) \in {NumDescs - 1, NumDescs}
  BY DEF IInv, Balanced
<1>2. sc.idle \in Seq(Descs) /\ desc \in [Descs -> RxDescs] /\ BuffersIn(ready, up, loc) \in Nat
  BY <1>1, Fields, BuffersCount
<1>3. 1 \in 1 .. Len(sc.idle) /\ g \in Descs
  BY <1>2
<1>4. Len(sc.rxdesc) \in 1 .. Len(sc.rxdesc) /\ h \in Descs /\ h \notin B
  BY OneBare
<1>5. g \notin B /\ h # g
  BY <1>3, <1>4 DEF IInv, Bare, Lists
<1>6. B \subseteq Descs
  BY DEF NbufOf
<1> HIDE DEF B, h, g
<1>7. /\ \A e : e \in E <=> e \in B \/ e = h
      /\ \A e : e \in F <=> e \in E \/ e = g
      /\ g \notin E /\ E \subseteq Descs /\ F \subseteq Descs
  BY <1>3, <1>4, <1>5, <1>6
<1> HIDE DEF E, F
<1>8. Cardinality(E) = Cardinality(B) + 1
  BY <1>4, <1>6, <1>7, AttachOne
<1>9. Cardinality(F) = Cardinality(E) + 1
  BY <1>3, <1>7, AttachOne
<1>10. Cardinality(F) <= NumDescs /\ Cardinality(B) \in Nat
  BY <1>6, <1>7, Attachable
<1> QED BY <1>1, <1>2, <1>8, <1>9, <1>10, RxAssumption DEF B

(* Every receive buffer but at most one is in the pool, attached to a      *)
(* descriptor or in one frame on its way, whatever ath_rxdesc_init and     *)
(* ath_rx_complete did.                                                    *)
THEOREM BuffersConserved == Spec => []BufferConservation
<1>1. IInv => BufferConservation
  <2> SUFFICES ASSUME IInv
               PROVE  BufferConservation
    OBVIOUS
  <2>1. sc.pool + Cardinality(NbufOf(desc)) + BuffersIn(ready, up, loc) \in {NumDescs - 1, NumDescs}
    BY DEF IInv, Balanced
  <2>2. Attached = Cardinality(NbufOf(desc)) /\ InFrames = BuffersIn(ready, up, loc)
    BY DEF Attached, InFrames, NbufOf, BuffersIn
  <2>3. ASSUME NEW d \in Range(sc.idle)
        PROVE  ~desc[d].nbuf
    <3>1. sc.idle \in Seq(Descs)
      BY Fields DEF IInv
    <3>2. PICK i \in 1 .. Len(sc.idle) : d = sc.idle[i]
      BY <3>1 DEF Range
    <3>3. d \in Descs /\ d \notin NbufOf(desc)
      BY <3>1, <3>2 DEF IInv, Bare
    <3> QED BY <3>3 DEF NbufOf
  <2>4. sc.idle = << >> \/ (sc.pool = 0 /\ InFrames > 0)
    BY <2>2, IdleHasFrame
  <2> QED BY <2>1, <2>2, <2>3, <2>4 DEF BufferConservation
<1> QED BY <1>1, Invariance, PTL

(* Two sequences joined.                                                   *)
LEMMA JoinedIs ==
    ASSUME NEW S, NEW q \in Seq(S), NEW a \in Seq(S)
    PROVE  /\ DOMAIN (q \o a) = 1 .. Len(q) + Len(a)
           /\ \A i \in 1 .. Len(q) + Len(a) : (q \o a)[i] = IF i <= Len(q) THEN q[i] ELSE a[i - Len(q)]
<1>1. q \o a \in Seq(S) /\ Len(q \o a) = Len(q) + Len(a)
  OBVIOUS
<1> QED BY <1>1

(* The MAC never loses the ring: the links lead it to the end, whatever    *)
(* the handler takes out and the completions put back.                     *)
THEOREM MacInRing == Spec => []HwInRing
<1>1. IInv => HwInRing
  <2> SUFFICES ASSUME IInv, on
               PROVE  HwInRing
    BY DEF HwInRing
  <2> DEFINE q == sc.rxdesc
             n == Len(q)
             B == NbufOf(desc)  D == DoneOf(desc)  L == LinkOf(desc)  A == DataOf(desc)
  <2>1. /\ q \in Seq(Descs) /\ sc.idle \in Seq(Descs) /\ n \in Nat /\ Len(sc.idle) \in Nat
        /\ Lists(q, sc.idle)
    BY Fields, SMTT(60) DEF IInv
  <2>2. PICK z \in Nat, w \in Nat : Running(z, w)
    BY OnPlace
  <2>3. Ring(q, z, w, B, D, L) /\ sc.held = q[n] /\ MacOn(hw, q, z, w, A, sc.rxlink)
    BY <2>2 DEF Running
  <2>4. PICK p \in 1 .. z : hw.rxdp = q[p] /\ w \in {p - 1, p}
    BY <2>3 DEF MacOn
  <2>5. z = n - 1 /\ sc.rxlink = q[z]
    BY <2>3 DEF MacOn
  <2>6. \A i \in 1 .. n : q[i] \in Descs
    BY <2>1
  <2>7. IsInjective(q \o sc.idle)
    <3> DEFINE a == sc.idle
               m == Len(a)
               s == q \o a
    <3>1. /\ DOMAIN s = 1 .. n + m /\ n \in Nat /\ m \in Nat
          /\ \A i \in 1 .. n + m : s[i] = IF i <= n THEN q[i] ELSE a[i - n]
      BY <2>1, JoinedIs
    <3>2. /\ \A i, j \in 1 .. n : q[i] = q[j] => i = j
          /\ \A i, j \in 1 .. m : a[i] = a[j] => i = j
          /\ \A i \in 1 .. n, j \in 1 .. m : q[i] # a[j]
      BY <2>1 DEF Lists
    <3> HIDE DEF s, q, a, n, m
    <3>3. ASSUME NEW i \in 1 .. n + m, NEW j \in 1 .. n + m, s[i] = s[j]
          PROVE  i = j
      <4>1. i <= n => i \in 1 .. n
        OBVIOUS
      <4>2. ~(i <= n) => i - n \in 1 .. m
        BY <3>1
      <4>3. j <= n => j \in 1 .. n
        OBVIOUS
      <4>4. ~(j <= n) => j - n \in 1 .. m
        BY <3>1
      <4>5. CASE i <= n
        BY <4>1, <4>3, <4>4, <4>5, <3>1, <3>2, <3>3
      <4>6. CASE ~(i <= n)
        <5>1. ~(j <= n)
          BY <4>2, <4>3, <4>6, <3>1, <3>2, <3>3
        <5>2. i - n = j - n
          BY <4>2, <4>4, <4>6, <5>1, <3>1, <3>2, <3>3
        <5> QED BY <5>2, <3>1
      <4> QED BY <4>5, <4>6
    <3>4. IsInjective(s)
      BY <3>1, <3>3 DEF IsInjective
    <3> QED BY <3>4 DEF s, q, a
  <2>8. Range(q) \cup Range(sc.idle) = Descs
    <3>1. \A d : d \in Range(q) <=> \E i \in 1 .. n : d = q[i]
      BY <2>1 DEF Range
    <3>2. \A d : d \in Range(sc.idle) <=> \E i \in 1 .. Len(sc.idle) : d = sc.idle[i]
      BY <2>1 DEF Range
    <3>3. \A i \in 1 .. Len(sc.idle) : sc.idle[i] \in Descs
      BY <2>1
    <3>4. \A d \in Descs : (\E i \in 1 .. n : d = q[i]) \/ (\E i \in 1 .. Len(sc.idle) : d = sc.idle[i])
      BY <2>1 DEF Lists
    <3> HIDE DEF q, n
    <3> QED BY <3>1, <3>2, <3>3, <3>4, <2>6
  <2> HIDE DEF n
  <2>9. \A d \in Descs : L[d] = desc[d].link /\ (d \in B <=> desc[d].nbuf) /\ (d \in D <=> desc[d].done)
    BY Zenon DEF LinkOf, NbufOf, DoneOf
  <2>10. /\ \A i \in 1 .. z : L[q[i]] = IF i < z THEN q[i + 1] ELSE NoDesc
         /\ \A i \in 1 .. n - 1 : q[i] \in B /\ (q[i] \in D <=> i <= w)
    BY <2>3 DEF Ring, n
  <2>11. desc[q[n - 1]].link = NoDesc /\ sc.rxlink = q[n - 1]
    <3>1. z \in 1 .. z /\ z \in 1 .. n
      BY <2>1, <2>5
    <3> QED BY <3>1, <2>5, <2>6, <2>9, <2>10
  <2>12. \A i \in p .. n - 1 : desc[q[i]].nbuf
    <3> SUFFICES ASSUME NEW i \in p .. n - 1
                 PROVE  desc[q[i]].nbuf
      OBVIOUS
    <3>1. i \in 1 .. n - 1 /\ i \in 1 .. n
      BY <2>1, <2>5
    <3> QED BY <3>1, <2>6, <2>9, <2>10
  <2>13. \A i \in p + 1 .. n - 1 : desc[q[i - 1]].link = q[i] /\ ~desc[q[i]].done
    <3> SUFFICES ASSUME NEW i \in p + 1 .. n - 1
                 PROVE  desc[q[i - 1]].link = q[i] /\ ~desc[q[i]].done
      OBVIOUS
    <3>1. i \in 1 .. n - 1 /\ i \in 1 .. n /\ i - 1 \in 1 .. z /\ i - 1 \in 1 .. n /\ i - 1 < z /\ ~(i <= w)
          /\ (i - 1) + 1 = i
      BY <2>1, <2>4, <2>5
    <3> QED BY <3>1, <2>6, <2>9, <2>10
  <2>14. p \in 1 .. n - 1 /\ q[p] = hw.rxdp
    BY <2>4, <2>5
  <2> QED BY <2>3, <2>7, <2>8, <2>11, <2>12, <2>13, <2>14 DEF HwInRing, n
<1> QED BY <1>1, Invariance, PTL

(* A message is one whole frame and the frames come in order.              *)
THEOREM FramesWhole == Spec => []WholeFramesInOrder
<1>1. IInv => WholeFramesInOrder
  <2> SUFFICES ASSUME IInv
               PROVE  WholeFramesInOrder
    OBVIOUS
  <2>1. Passing(up, ready, sent, cut, hw.frames)
    BY DEF IInv
  <2>2. \A fr : RightFrame(fr, cut) => Whole(fr)
    BY DEF RightFrame, Whole
  <2> QED BY <2>1, <2>2, Zenon DEF Passing, WholeFramesInOrder
<1> QED BY <1>1, Invariance, PTL

(* Frames that are not empty have no fewer buffers than there are frames.  *)
LEMMA FlatLonger ==
    ASSUME NEW S, NEW s \in Seq(Seq(S)), \A i \in 1 .. Len(s) : Len(s[i]) >= 1
    PROVE  Len(s) <= Len(FlattenSeq(s))
<1> DEFINE n == Len(s)
<1>1. n \in Nat /\ \A i \in 1 .. n : Len(s[i]) \in Nat
  OBVIOUS
<1>2. PICK c : Counts(s, c) /\ Len(FlattenSeq(s)) = c[n]
  BY FlatCounts
<1>3. /\ c \in [0 .. n -> Nat] /\ c[0] = 0
      /\ \A i \in 1 .. n : c[i] = c[i - 1] + Len(s[i])
  BY <1>2 DEF Counts
<1> DEFINE M == {k \in Nat : k <= n => k <= c[k]}
<1> HIDE DEF n
<1>4. 0 \in M
  BY <1>3
<1>5. ASSUME NEW k \in Nat, k \in M, k + 1 <= n
      PROVE  k + 1 <= c[k + 1]
  <2>1. k \in 0 .. n /\ k + 1 \in 1 .. n /\ (k + 1) - 1 = k
    BY <1>1, <1>5
  <2>2. c[k + 1] = c[k] + Len(s[k + 1]) /\ c[k] \in Nat /\ k <= c[k]
    BY <2>1, <1>3, <1>5
  <2>3. Len(s[k + 1]) >= 1 /\ Len(s[k + 1]) \in Nat
    BY <2>1, <1>1 DEF n
  <2> QED BY <2>2, <2>3
<1>6. \A k \in Nat : k \in M => k + 1 \in M
  BY <1>1, <1>5
<1>7. n \in M
  <2> HIDE DEF M
  <2> QED BY <1>1, <1>4, <1>6, SetInduction
<1> QED BY <1>1, <1>2, <1>7 DEF n

(* The counters of the handler stay within their bounds.                   *)
LEMMA LocalsBounded ==
    ASSUME IInv
    PROVE  loc.cnt <= MaxSegs /\ loc.frags <= MaxSegs /\ (loc.bf = 1 \/ loc.bf = Len(ready) + 1)
<1>0. loc.cnt \in Nat /\ MaxSegs \in Nat
  BY Fields, RxAssumption DEF IInv
<1>1. CASE Fresh
  BY <1>1, PollingIs, RxAssumption DEF Fresh
<1>2. ASSUME NEW k \in Nat, Building(k)
      PROVE  loc.cnt = 0 /\ loc.frags = 0 /\ loc.bf = 1
  BY <1>2 DEF Building
<1>3. ASSUME NEW z \in Nat, NEW w \in Nat, Running(z, w)
      PROVE  loc.cnt <= MaxSegs /\ loc.frags <= MaxSegs /\ (loc.bf = 1 \/ loc.bf = Len(ready) + 1)
  <2> DEFINE A == DataOf(desc)  N == LenOf(desc)
  <2>1. At(loc, sc, ready, z, w, A, N, hw, on, cut)
    BY <1>3 DEF Running
  <2> HIDE DEF A, N
  <2>2. CASE loc.at = "poll"
    BY <2>1, <2>2, <1>0, PollingIs DEF At
  <2>3. CASE loc.at = "scan"
    <3>1. loc.frags = 0 /\ loc.bf = Len(ready) + 1 /\ \E all \in 1 .. MaxSegs : loc.cnt < all
      BY <2>1, <2>3, Zenon DEF At, ScanAt
    <3> QED BY <3>1, <1>0
  <2>4. CASE loc.at = "take"
    <3>1. loc.frags = 0 /\ loc.bf = Len(ready) + 1 /\ loc.cnt = 0
      BY <2>1, <2>4 DEF At, TakeAt
    <3> QED BY <3>1, <1>0
  <2>5. CASE loc.at = "tasklet"
    BY <2>1, <2>5, <1>0 DEF At
  <2>6. CASE loc.at = "complete"
    BY <2>1, <2>6, <1>0 DEF At
  <2> QED BY <2>1, <2>2, <2>3, <2>4, <2>5, <2>6 DEF At
<1> QED BY <1>0, <1>1, <1>2, <1>3 DEF IInv

(* Type correctness: in particular the pool never goes below zero nor      *)
(* above its size, and no pass needs more ath_rx_bufs than there are.      *)
THEOREM TypeCorrect == Spec => []TypeOK
<1>1. IInv => TypeOK
  <2> SUFFICES ASSUME IInv
               PROVE  TypeOK
    OBVIOUS
  <2>1. TypeInv /\ Passing(up, ready, sent, cut, hw.frames)
        /\ sc.pool + Cardinality(NbufOf(desc)) + BuffersIn(ready, up, loc) \in {NumDescs - 1, NumDescs}
    BY DEF IInv, Balanced
  <2>2. NumDescs \in Nat /\ MaxSegs \in Nat /\ MaxSegs <= NumDescs /\ MaxFrames \in Nat
    BY RxAssumption
  <2>3. NbufOf(desc) \subseteq Descs
    BY DEF NbufOf
  <2>4. Cardinality(NbufOf(desc)) \in Nat /\ BuffersIn(ready, up, loc) \in Nat /\ sc.pool \in Nat
        /\ Len(FlattenSeq(ready)) \in Nat /\ Len(FlattenSeq(ready)) <= BuffersIn(ready, up, loc)
    BY <2>1, <2>3, Attachable, BuffersCount, Fields
  <2>5. sc.pool \in 0 .. NumDescs /\ BuffersIn(ready, up, loc) <= NumDescs
    BY <2>1, <2>2, <2>4
  <2>6. ready \in Seq(Seq(Nbufs)) /\ Len(ready) \in Nat
    BY <2>1, Fields
  <2>7. Len(ready) <= NumDescs
    <3>1. ASSUME NEW i \in 1 .. Len(ready)
          PROVE  Len(ready[i]) >= 1
      BY <2>1 DEF Passing, RightFrame
    <3>2. Len(ready) <= Len(FlattenSeq(ready))
      BY <3>1, <2>6, FlatLonger
    <3> QED BY <3>2, <2>2, <2>4, <2>5, <2>6
  <2>8. sc \in Softcs
    BY <2>1, <2>5 DEF TypeInv, Softcs
  <2>9. loc.cnt \in 0 .. NumDescs /\ loc.frags \in 0 .. MaxSegs /\ loc.bf \in 1 .. NumDescs + 1
    <3>1. loc.cnt \in Nat /\ loc.frags \in Nat /\ loc.bf \in Nat
      BY <2>1, Fields
    <3> QED BY <3>1, <2>2, <2>6, <2>7, LocalsBounded
  <2>10. loc \in Locals
    BY <2>1, <2>9 DEF TypeInv, Locals
  <2>11. sent \in 0 .. MaxFrames
    <3>1. sent \in Nat /\ hw.frames \in Nat /\ hw.frames <= MaxFrames /\ sent <= hw.frames
      BY <2>1, Fields DEF Passing
    <3> QED BY <3>1, <2>2
  <2> QED BY <2>1, <2>7, <2>8, <2>10, <2>11 DEF TypeOK, TypeInv, Macs
<1> QED BY <1>1, Invariance, PTL
=============================================================================
