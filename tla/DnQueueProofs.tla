--------------------------- MODULE DnQueueProofs ---------------------------
(* Proofs about DnQueue for any number of buffers and any lengths of       *)
(* messages.                                                               *)
EXTENDS DnQueue, FiniteSetTheorems, WellFoundedInduction, TLAPS

Putting == pc \in {"link", "copy", "own"}
Swapped == pc \in {"copy", "own"}

Values == ((1..MaxMsgs) \X (1..MaxLen)) \cup {NULL}

TypeInv ==
    /\ mem \in [Descs -> HwDescs(Descs, Bufs)] /\ vd \in [Descs -> Bufs]
    /\ pc \in {"run", "link", "copy", "own", "trigger"}
    /\ put \in [first : Descs, tdesc : HwDescs(Descs, Bufs)]
    /\ isr \in BOOLEAN /\ intr \in BOOLEAN
    /\ hw \in [cur : Descs, got : Seq(Descs), start : BOOLEAN]
    /\ configured \in BOOLEAN
    /\ fill \in [Bufs -> Values]
    /\ arrived \in Seq(Fifo!Messages)
    /\ msg = None \/ msg \in [id : 1..MaxMsgs, len : 1..MaxLen]

(* No two descriptors carry the same buffer.                               *)
Carried(w) == \A d, e \in Descs : w[d] = w[e] => d = e

(* The descriptors the pipe has put into the queue are numbered by Q in    *)
(* the order of the queue: lo is at its head, hi the terminator.           *)
Ring(m, Q, lo, hi, h, t) ==
    /\ \A i \in lo..hi : Q[i] \in Descs
    /\ \A i, k \in lo..hi : Q[i] = Q[k] => i = k
    /\ \A i \in lo..(hi - 1) : m[Q[i]].next = Q[i + 1]
    /\ h = Q[lo] /\ t = Q[hi] /\ m[t].own = "SW"

(* Message j of those received takes the descriptors from S[j - 1] to      *)
(* before S[j].                                                            *)
MessageAt(m, w, fl, Q, f, e, s) ==
    /\ e = f + Len(s)
    /\ m[Q[f]].last = Q[e - 1]
    /\ \A i \in f..(e - 1) : /\ m[Q[i]].own = "SW" /\ (m[Q[i]].ls <=> i = e - 1)
                             /\ fl[w[Q[i]]] = s[i - f + 1]

Received(m, w, fl, Q, S, x) ==
    /\ \A j \in 0..Len(x) : S[j] \in Nat
    /\ \A j, k \in 0..Len(x) : j < k => S[j] < S[k]
    /\ \A j \in 1..Len(x) : MessageAt(m, w, fl, Q, S[j - 1], S[j], x[j])

(* The descriptors from r on are the engine's.                             *)
Free(m, w, Q, r, hi) ==
    \A i \in r..(hi - 1) : m[Q[i]].own = "HW" /\ m[Q[i]].ls = FALSE /\ m[Q[i]].data = w[Q[i]]

(* It has filled the first of them with the message it is receiving.       *)
EngineAt(e, g, fl, w, Q, r, hi) ==
    /\ r + Len(e.got) <= hi /\ e.cur = Q[r + Len(e.got)]
    /\ \A i \in 1..Len(e.got) : e.got[i] = Q[r + i - 1] /\ fl[w[Q[r + i - 1]]] = <<g.id, i>>
    /\ IF Len(e.got) = 0 THEN g = None ELSE g # None /\ g.len > Len(e.got)

(* The chain P being put: linked and given to the hardware, and then with  *)
(* its first descriptor copied and its buffers exchanged.                  *)
Given(w, c, i) ==
    [own |-> "HW", ls |-> FALSE, last |-> IF i = 1 THEN Last(c) ELSE NULL,
     next |-> IF i < Len(c) THEN c[i + 1] ELSE NULL, data |-> w[c[i]]]

LinkedPut(m, w, p, P) ==
    p.first = P[1] /\ \A i \in 1..Len(P) : m[P[i]] = Given(w, P, i)

(* What follows descriptor i of P in the queue.                            *)
Following(P, i) == IF i < Len(P) THEN P[i + 1] ELSE P[1]

SwappedPut(m, w, p, P, t) ==
    /\ p.first = P[1] /\ m[P[1]].own = "SW"
    /\ p.tdesc.own = "SW" /\ p.tdesc.ls = FALSE /\ p.tdesc.data = w[t] /\ p.tdesc.next = Following(P, 1)
    /\ \A i \in 2..Len(P) : /\ m[P[i]].own = "HW" /\ m[P[i]].ls = FALSE /\ m[P[i]].data = w[P[i]]
                            /\ m[P[i]].next = Following(P, i)

PutOf(P) ==
    /\ Putting <=> Len(P) >= 1
    /\ pc = "link" => LinkedPut(mem, vd, put, P)
    /\ Swapped => SwappedPut(mem, vd, put, P, term)
    /\ pc = "own" => mem[term] = put.tdesc

(* The queue, the chain being put and the VBUFs the upper layers hold      *)
(* share no descriptor, and no descriptor is elsewhere.                    *)
Apart(Q, lo, hi, P, H) ==
    /\ P \in Seq(Descs) /\ IsInjective(P)
    /\ \A c \in H : c \in Seq(Descs) /\ IsInjective(c) /\ Len(c) \in 1..MaxLen
    /\ \A i \in 1..Len(P), k \in lo..hi : P[i] # Q[k]
    /\ \A c \in H : \A i \in 1..Len(c) : (\A k \in lo..hi : c[i] # Q[k]) /\ (\A k \in 1..Len(P) : c[i] # P[k])
    /\ \A c, e \in H : \A i \in 1..Len(c), k \in 1..Len(e) : c[i] = e[k] => c = e

Covered(Q, lo, hi, P, H) ==
    \A d \in Descs : \/ \E k \in lo..hi : d = Q[k]
                     \/ \E k \in 1..Len(P) : d = P[k]
                     \/ \E c \in H : \E k \in 1..Len(c) : d = c[k]

(* The messages that are around have different numbers.                    *)
ContentsOf(w, fl, c) == [i \in DOMAIN c |-> fl[w[c[i]]]]

Numbered(x, H, w, fl, g) ==
    /\ \A c \in H : ContentsOf(w, fl, c) \in Fifo!Messages
    /\ \A j, k \in 1..Len(x) : x[j][1][1] = x[k][1][1] => j = k
    /\ \A c, e \in H : ContentsOf(w, fl, c)[1][1] = ContentsOf(w, fl, e)[1][1] => c = e
    /\ \A c \in H : \A j \in 1..Len(x) : x[j][1][1] # ContentsOf(w, fl, c)[1][1]
    /\ g # None => /\ \A j \in 1..Len(x) : x[j][1][1] # g.id
                   /\ \A c \in H : ContentsOf(w, fl, c)[1][1] # g.id

Core(Q, S, hi, P) ==
    /\ hi \in Nat /\ S[Len(arrived)] <= hi
    /\ Ring(mem, Q, S[0], hi, head, term)
    /\ Received(mem, vd, fill, Q, S, arrived)
    /\ Free(mem, vd, Q, S[Len(arrived)], hi)
    /\ EngineAt(hw, msg, fill, vd, Q, S[Len(arrived)], hi)
    /\ Apart(Q, S[0], hi, P, held)
    /\ PutOf(P)
    /\ IF configured THEN Covered(Q, S[0], hi, P, held)
       ELSE held = {} /\ S[0] = hi /\ P = << >> /\ term = Terminator
    /\ Numbered(arrived, held, vd, fill, msg)

IInv == TypeInv /\ Carried(vd) /\ \E Q, S, hi, P : Core(Q, S, hi, P)
----------------------------------------------------------------------------
(* Induction over the natural numbers, for a set.                          *)

(* A set of naturals has a least element.                                  *)
LEMMA LeastOf ==
    ASSUME NEW T \in SUBSET Nat, T # {}
    PROVE  \E x \in T : \A y \in T : x <= y
<1> DEFINE R == OpToRel(<, Nat)
<1>1. IsWellFoundedOn(R, Nat)
  BY NatLessThanWellFounded
<1> HIDE DEF R
<1>2. T \subseteq Nat
  OBVIOUS
<1>3. \E x \in T : \A y \in T : ~(<<y, x>> \in R)
  BY <1>1, <1>2, WFMin
<1>4. PICK x \in T : \A y \in T : ~(<<y, x>> \in R)
  BY <1>3
<1>5. ASSUME NEW y \in T
      PROVE  x <= y
  <2>1. ~(<<y, x>> \in R)
    BY <1>4
  <2>2. ~(y < x)
    BY <2>1 DEF R, OpToRel
  <2> QED BY <2>2
<1> QED BY <1>4, <1>5

(* Induction over the naturals, for a set.                                 *)
LEMMA SetInduction ==
    ASSUME NEW M, 0 \in M, \A n \in Nat : n \in M => n + 1 \in M
    PROVE  \A n \in Nat : n \in M
<1> DEFINE T == {n \in Nat : n \notin M}
<1> SUFFICES ASSUME T # {} PROVE FALSE
  OBVIOUS
<1>1. PICK x \in T : \A y \in T : x <= y
  BY LeastOf
<1>2. x # 0 /\ x \in Nat /\ x \notin M
  OBVIOUS
<1>3. x - 1 \in Nat /\ x - 1 \notin T
  BY <1>1, <1>2
<1>4. x - 1 \in M
  BY <1>3
<1>5. (x - 1) + 1 \in M
  BY <1>3, <1>4
<1> QED BY <1>2, <1>5

(* ChainTo walks along nextAddr.                                           *)
Walk(f, m, d, n) ==
    [i \in 1..n |-> IF i = 1 THEN d ELSE LET e == f[i - 1] IN IF e = NULL THEN NULL ELSE m[e].next]

WalkOf(m, d, n) == CHOOSE f : f = Walk(f, m, d, n)

(* As far as the first of the ends.                                        *)
FirstIn(E) == CHOOSE k \in E : \A j \in E : k <= j
UpToFirst(at, E) == IF E = {} THEN << >> ELSE [i \in 1..FirstIn(E) |-> at[i]]

(* PacketAt and QueueChain follow the walk as far as the first end.        *)
LEMMA PacketIs ==
    ASSUME NEW m, NEW d
    PROVE  PacketAt(m, d) =
             UpToFirst(WalkOf(m, d, Cardinality(DOMAIN m)), {k \in 1..Cardinality(DOMAIN m) : WalkOf(m, d, Cardinality(DOMAIN m))[k] # NULL /\ m[WalkOf(m, d, Cardinality(DOMAIN m))[k]].ls})
BY Zenon DEF PacketAt, ChainTo, Walk, WalkOf, UpToFirst, FirstIn

(* The same for the whole queue.                                           *)
LEMMA QueueIs ==
    ASSUME NEW m, NEW d, NEW t
    PROVE  QueueChain(m, d, t) =
             UpToFirst(WalkOf(m, d, Cardinality(DOMAIN m)), {k \in 1..Cardinality(DOMAIN m) : WalkOf(m, d, Cardinality(DOMAIN m))[k] # NULL /\ WalkOf(m, d, Cardinality(DOMAIN m))[k] = t})
BY Zenon DEF QueueChain, ChainTo, Walk, WalkOf, UpToFirst, FirstIn

(* The walk has a value for every number of steps.                         *)
LEMMA WalkExists ==
    ASSUME NEW m, NEW d
    PROVE  \A n \in Nat : \E f : f = Walk(f, m, d, n)
<1> DEFINE M == {n \in Nat : \E f : f = Walk(f, m, d, n)}
<1>1. 0 \in M
  <2> DEFINE f == [i \in 1..0 |-> d]
  <2>1. 1..0 = {}
    OBVIOUS
  <2> HIDE DEF f
  <2>2. f = Walk(f, m, d, 0)
    BY <2>1 DEF f, Walk
  <2> QED BY <2>2
<1>2. ASSUME NEW n \in Nat, n \in M
      PROVE  n + 1 \in M
  <2>1. PICK f : f = Walk(f, m, d, n)
    BY <1>2
  <2> DEFINE S(g, i) == IF i = 1 THEN d ELSE LET e == g[i - 1] IN IF e = NULL THEN NULL ELSE m[e].next
             g == [i \in 1..(n + 1) |-> S(f, i)]
  <2>2. \A i \in 1..n : f[i] = S(f, i) /\ i \in 1..(n + 1)
    <3>1. f = [i \in 1..n |-> S(f, i)]
      BY <2>1, Zenon DEF Walk
    <3> HIDE DEF S
    <3> QED BY <3>1
  <2>3. \A i \in 1..(n + 1) : g[i] = S(f, i)
    OBVIOUS
  <2> HIDE DEF g
  <2>4. \A i \in 1..(n + 1) : S(g, i) = S(f, i)
    <3> TAKE i \in 1..(n + 1)
    <3>1. CASE i = 1
      BY <3>1
    <3>2. CASE i # 1
      <4>1. i - 1 \in 1..n
        BY <3>2
      <4>2. g[i - 1] = f[i - 1]
        BY <2>2, <2>3, <4>1, Zenon
      <4> QED BY <4>2, Zenon
    <3> QED BY <3>1, <3>2
  <2>5. g = [i \in 1..(n + 1) |-> S(g, i)]
    BY <2>4, Zenon DEF g
  <2>6. g = Walk(g, m, d, n + 1)
    BY <2>5, Zenon DEF Walk
  <2> QED BY <2>6
<1> HIDE DEF M
<1>3. \A n \in Nat : n \in M
  BY <1>1, <1>2, SetInduction
<1> QED BY <1>3 DEF M

(* A sequence that begins at d and follows nextAddr is what the walk sees. *)
LEMMA WalkIs ==
    ASSUME NEW m, NEW d, NEW n \in Nat, NEW T, NEW s \in Seq(T), Len(s) <= n, Len(s) >= 1, s[1] = d,
           \A i \in 1..(Len(s) - 1) : s[i] # NULL /\ m[s[i]].next = s[i + 1]
    PROVE  \A i \in 1..Len(s) : WalkOf(m, d, n)[i] = s[i]
<1> DEFINE at == WalkOf(m, d, n)
           l == Len(s)
           M == {i \in Nat : i \in 1..l => at[i] = s[i]}
<1>1. at = Walk(at, m, d, n)
  BY WalkExists, Zenon DEF WalkOf
<1> HIDE DEF at
<1>2. l \in Nat /\ l <= n /\ l >= 1
  OBVIOUS
<1> HIDE DEF l
<1>3. at = [i \in 1..n |-> IF i = 1 THEN d ELSE LET e == at[i - 1] IN IF e = NULL THEN NULL ELSE m[e].next]
  BY <1>1, Zenon DEF Walk
<1>4. \A i \in 1..n : at[i] = IF i = 1 THEN d ELSE LET e == at[i - 1] IN IF e = NULL THEN NULL ELSE m[e].next
  BY <1>3, Zenon
<1>5. 0 \in M
  OBVIOUS
<1>6. ASSUME NEW i \in Nat, i \in M
      PROVE  i + 1 \in M
  <2> SUFFICES ASSUME i + 1 \in 1..l PROVE at[i + 1] = s[i + 1]
    OBVIOUS
  <2>1. i + 1 \in 1..n
    BY <1>2
  <2>2. CASE i = 0
    <3>1. at[1] = d /\ i + 1 = 1
      BY <1>4, <2>1, <2>2
    <3> QED BY <3>1
  <2>3. CASE i # 0
    <3>1. i \in 1..l /\ i \in 1..(l - 1) /\ i + 1 # 1 /\ (i + 1) - 1 = i
      BY <1>2, <2>3
    <3>2. at[i] = s[i]
      BY <1>6, <3>1
    <3>3. s[i] # NULL /\ m[s[i]].next = s[i + 1]
      BY <3>1 DEF l
    <3>4. at[i + 1] = LET e == at[i] IN IF e = NULL THEN NULL ELSE m[e].next
      BY <1>4, <2>1, <3>1
    <3> QED BY <3>2, <3>3, <3>4
  <2> QED BY <2>2, <2>3
<1> HIDE DEF M
<1>7. \A i \in Nat : i \in M
  BY <1>5, <1>6, SetInduction
<1> QED BY <1>2, <1>7 DEF M, at, l

(* The first of the ends.                                                  *)
LEMMA FirstOf ==
    ASSUME NEW n \in Nat, NEW E \in SUBSET (1..n), NEW k \in 1..n, \A i \in 1..k : i \in E <=> i = k
    PROVE  E # {} /\ FirstIn(E) = k
<1>1. k \in E
  OBVIOUS
<1>2. \A i \in E : k <= i
  OBVIOUS
<1>3. \A j \in E : (\A i \in E : j <= i) => j = k
  BY <1>1, <1>2
<1> QED BY <1>1, <1>2, <1>3 DEF FirstIn

(* A chain of different descriptors is no longer than there are any.       *)
LEMMA ChainBound ==
    ASSUME NEW D, IsFiniteSet(D), NEW s \in Seq(D), IsInjective(s)
    PROVE  Len(s) \in Nat /\ Cardinality(D) \in Nat /\ Len(s) <= Cardinality(D)
<1>1. Len(s) \in Nat /\ s \in [1..Len(s) -> D]
  OBVIOUS
<1>2. s \in Injection(1..Len(s), D)
  BY <1>1 DEF Injection, IsInjective
<1>3. Cardinality(1..Len(s)) <= Cardinality(D)
  BY <1>2, FS_Injection
<1>4. Cardinality(1..Len(s)) = IF 1 > Len(s) THEN 0 ELSE Len(s) - 1 + 1
  BY <1>1, FS_Interval
<1>5. Cardinality(D) \in Nat
  BY FS_CardinalityType
<1> QED BY <1>1, <1>3, <1>4, <1>5

(* The chain that PacketAt and QueueChain find.                            *)
LEMMA ChainIs ==
    ASSUME NEW D, IsFiniteSet(D), NULL \notin D, NEW m, DOMAIN m = D, NEW s \in Seq(D), IsInjective(s), s # << >>,
           \A i \in 1..(Len(s) - 1) : m[s[i]].next = s[i + 1]
    PROVE  /\ (\A i \in 1..Len(s) : m[s[i]].ls <=> i = Len(s)) => PacketAt(m, s[1]) = s
           /\ QueueChain(m, s[1], s[Len(s)]) = s
<1> DEFINE n == Cardinality(DOMAIN m)
           l == Len(s)
           at == WalkOf(m, s[1], n)
<1>1. l \in Nat /\ n \in Nat /\ l <= n
  BY ChainBound
<1>2. l >= 1 /\ s = [i \in 1..l |-> s[i]] /\ \A i \in 1..l : s[i] \in D
  OBVIOUS
<1>3. \A i \in 1..(l - 1) : s[i] # NULL
  BY <1>1, <1>2
<1>4. \A i \in 1..l : at[i] = s[i]
  <2>1. Len(s) <= n /\ Len(s) >= 1 /\ \A i \in 1..(Len(s) - 1) : s[i] # NULL /\ m[s[i]].next = s[i + 1]
    BY <1>1, <1>2, <1>3
  <2> HIDE DEF n
  <2> QED BY <1>1, <2>1, WalkIs
<1> HIDE DEF at, l, n
<1>5. l \in 1..n /\ \A i \in 1..l : i \in 1..n
  BY <1>1, <1>2
<1>6. [i \in 1..l |-> at[i]] = s
  BY <1>2, <1>4
<1>7. ASSUME \A i \in 1..l : m[s[i]].ls <=> i = l
      PROVE  PacketAt(m, s[1]) = s
  <2> DEFINE E == {k \in 1..n : at[k] # NULL /\ m[at[k]].ls}
  <2>1. PacketAt(m, s[1]) = UpToFirst(at, E)
    BY PacketIs, Zenon DEF at, n
  <2>2. E \in SUBSET (1..n) /\ \A i \in 1..l : i \in E <=> i = l
    BY <1>2, <1>4, <1>5, <1>7
  <2> HIDE DEF E
  <2>3. E # {} /\ FirstIn(E) = l
    BY <1>1, <1>5, <2>2, FirstOf
  <2> QED BY <1>6, <2>1, <2>3 DEF UpToFirst
<1>8. QueueChain(m, s[1], s[l]) = s
  <2> DEFINE E == {k \in 1..n : at[k] # NULL /\ at[k] = s[l]}
  <2>1. QueueChain(m, s[1], s[l]) = UpToFirst(at, E)
    BY QueueIs, Zenon DEF at, n
  <2>2. \A i \in 1..l : s[i] = s[l] <=> i = l
    <3>1. DOMAIN s = 1..l
      BY DEF l
    <3> QED BY <1>5, <1>1, <1>2, <3>1 DEF IsInjective
  <2>3. E \in SUBSET (1..n) /\ \A i \in 1..l : i \in E <=> i = l
    BY <1>2, <1>4, <1>5, <2>2
  <2> HIDE DEF E
  <2>4. E # {} /\ FirstIn(E) = l
    BY <1>1, <1>5, <2>3, FirstOf
  <2> QED BY <1>6, <2>1, <2>4 DEF UpToFirst
<1> QED BY <1>7, <1>8 DEF l
----------------------------------------------------------------------------
(* The positions of the messages in the queue.                             *)

(* The bounds are natural numbers.                                         *)
LEMMA Bounds == /\ NumDescs \in Nat /\ MaxLen \in Nat /\ MaxLen >= 1 /\ MaxLen <= NumDescs /\ MaxMsgs \in Nat
                /\ Terminator \in Descs /\ NULL \in Bufs /\ IsFiniteSet(Descs)
<1>1. NumDescs \in Nat /\ MaxLen \in Nat /\ MaxLen >= 1 /\ MaxLen <= NumDescs /\ MaxMsgs \in Nat
  BY DnAssumption
<1>2. Terminator \in Descs /\ NULL \in Bufs
  BY <1>1 DEF Terminator, Descs, Bufs
<1>3. IsFiniteSet(0..NumDescs)
  BY <1>1, FS_Interval
<1>4. IsFiniteSet({NULL})
  BY FS_Singleton
<1>5. IsFiniteSet(Descs)
  BY <1>3, <1>4, FS_Product DEF Descs
<1> QED BY <1>1, <1>2, <1>5

(* The messages follow each other from the head of the queue.              *)
LEMMA Positions ==
    ASSUME NEW Q, NEW S, NEW hi, NEW P, TypeInv, Core(Q, S, hi, P)
    PROVE  LET n == Len(arrived)
           IN  /\ n \in Nat /\ hi \in Nat /\ S[0] \in Nat /\ S[n] \in Nat /\ S[0] <= S[n] /\ S[n] <= hi
               /\ \A j \in 1..n : /\ S[j - 1] \in Nat /\ S[j] \in Nat /\ S[0] <= S[j - 1]
                                  /\ S[j - 1] < S[j] /\ S[j] <= S[n]
<1> DEFINE n == Len(arrived)
<1>1. n \in Nat /\ hi \in Nat /\ S[n] <= hi
  BY DEF TypeInv, Core
<1>2. (\A j \in 0..n : S[j] \in Nat) /\ \A j, k \in 0..n : j < k => S[j] < S[k]
  BY DEF Core, Received
<1> HIDE DEF n
<1>3. \A j, k \in 0..n : j <= k => S[j] <= S[k]
  <2> SUFFICES ASSUME NEW j \in 0..n, NEW k \in 0..n, j <= k PROVE S[j] <= S[k]
    OBVIOUS
  <2>1. CASE j = k
    BY <1>2, <2>1
  <2>2. CASE j < k
    BY <1>2, <2>2
  <2> QED BY <2>1, <2>2
<1>4. 0 \in 0..n /\ n \in 0..n /\ 0 <= n
  BY <1>1
<1>5. S[0] \in Nat /\ S[n] \in Nat /\ S[0] <= S[n]
  BY <1>2, <1>3, <1>4
<1>6. ASSUME NEW j \in 1..n
      PROVE  S[j - 1] \in Nat /\ S[j] \in Nat /\ S[0] <= S[j - 1] /\ S[j - 1] < S[j] /\ S[j] <= S[n]
  <2>1. j - 1 \in 0..n /\ j \in 0..n /\ 0 <= j - 1 /\ j - 1 < j /\ j <= n
    BY <1>1
  <2> QED BY <1>2, <1>3, <1>4, <2>1
<1> QED BY <1>1, <1>5, <1>6 DEF n

(* What leaves the descriptors, the messages and the engine's place alone  *)
(* keeps the invariant.                                                    *)
LEMMA QuietKeeps ==
    ASSUME IInv, UNCHANGED <<mem, vd, head, term, configured, held, msg, fill, arrived>>,
           hw' \in [cur : Descs, got : Seq(Descs), start : BOOLEAN], hw'.cur = hw.cur, hw'.got = hw.got,
           isr' \in BOOLEAN, intr' \in BOOLEAN,
           \/ UNCHANGED <<pc, put>>
           \/ pc = "trigger" /\ pc' = "run" /\ put' \in [first : Descs, tdesc : HwDescs(Descs, Bufs)]
    PROVE  IInv'
<1>1. PICK Q, S, hi, P : Core(Q, S, hi, P)
  BY DEF IInv
<1>2. TypeInv' /\ Carried(vd)'
  BY DEF IInv, TypeInv
<1>3. PutOf(P)'
  <2>1. CASE UNCHANGED <<pc, put>>
    BY <1>1, <2>1 DEF Core, PutOf, Putting, Swapped
  <2>2. CASE pc = "trigger" /\ pc' = "run"
    BY <1>1, <2>2 DEF Core, PutOf, Putting, Swapped
  <2> QED BY <2>1, <2>2
<1>4. EngineAt(hw, msg, fill, vd, Q, S[Len(arrived)], hi)'
  BY <1>1 DEF Core, EngineAt
<1>5. Core(Q, S, hi, P)'
  BY <1>1, <1>3, <1>4 DEF Core
<1> QED BY <1>2, <1>5 DEF IInv

(* Entering and leaving the handler, the engine's stop and start.          *)
LEMMA QuietSteps ==
    ASSUME IInv,
           \/ HandlerEnter \/ HandlerEnd \/ HwIdle
           \/ Trigger /\ UNCHANGED dnVars
           \/ UNCHANGED vars
    PROVE  IInv'
<1>1. /\ hw \in [cur : Descs, got : Seq(Descs), start : BOOLEAN] /\ isr \in BOOLEAN /\ intr \in BOOLEAN
  BY DEF IInv, TypeInv
<1>2. CASE HandlerEnter \/ HandlerEnd
  BY <1>1, <1>2, QuietKeeps DEF HandlerEnter, HandlerEnd, IsrEnter, IsrEnd, dnVars
<1>3. CASE HwIdle
  <2>1. hw' \in [cur : Descs, got : Seq(Descs), start : BOOLEAN] /\ hw'.cur = hw.cur /\ hw'.got = hw.got
    BY <1>1, <1>3 DEF HwIdle, HwStop
  <2> QED BY <1>1, <1>3, <2>1, QuietKeeps DEF HwIdle, HwStop, dnVars
<1>4. CASE Trigger /\ UNCHANGED dnVars
  <2>1. hw' \in [cur : Descs, got : Seq(Descs), start : BOOLEAN] /\ hw'.cur = hw.cur /\ hw'.got = hw.got
    BY <1>1, <1>4 DEF Trigger
  <2>2. InitDesc(NULL) \in HwDescs(Descs, Bufs)
    BY Bounds DEF InitDesc, HwDescs, Owners
  <2>3. put' \in [first : Descs, tdesc : HwDescs(Descs, Bufs)]
    BY <1>4, <2>2, Bounds DEF Trigger, NoPut
  <2> QED BY <1>1, <1>4, <2>1, <2>3, QuietKeeps DEF Trigger, dnVars
<1>5. CASE UNCHANGED vars
  BY <1>1, <1>5, QuietKeeps DEF vars, queueVars, dnVars
<1> QED BY <1>2, <1>3, <1>4, <1>5

(* Writes elsewhere leave the queue as it is.                              *)
LEMMA QueueSame ==
    ASSUME NEW Q, NEW S, NEW hi, NEW P, TypeInv, Core(Q, S, hi, P),
           NEW m, NEW w, NEW fl, m[Q[hi]].own = "SW",
           \A i \in S[0]..(hi - 1) : m[Q[i]] = mem[Q[i]] /\ w[Q[i]] = vd[Q[i]] /\ fl[vd[Q[i]]] = fill[vd[Q[i]]]
    PROVE  /\ Ring(m, Q, S[0], hi, head, term)
           /\ Received(m, w, fl, Q, S, arrived)
           /\ Free(m, w, Q, S[Len(arrived)], hi)
           /\ EngineAt(hw, msg, fl, w, Q, S[Len(arrived)], hi)
<1> DEFINE n == Len(arrived)
           r == S[n]
           lo == S[0]
<1>1. /\ n \in Nat /\ hi \in Nat /\ lo \in Nat /\ r \in Nat /\ lo <= r /\ r <= hi
      /\ \A j \in 1..n : S[j - 1] \in Nat /\ S[j] \in Nat /\ lo <= S[j - 1] /\ S[j - 1] < S[j] /\ S[j] <= r
  BY Positions
<1>2. /\ Ring(mem, Q, lo, hi, head, term) /\ Received(mem, vd, fill, Q, S, arrived)
      /\ Free(mem, vd, Q, r, hi) /\ EngineAt(hw, msg, fill, vd, Q, r, hi)
  BY DEF Core
<1>3. hw.got \in Seq(Descs)
  BY DEF TypeInv
<1> HIDE DEF r, lo, n
<1>4. \A i \in lo..(hi - 1) : m[Q[i]] = mem[Q[i]] /\ w[Q[i]] = vd[Q[i]] /\ fl[vd[Q[i]]] = fill[vd[Q[i]]]
  BY DEF lo
<1>5. Ring(m, Q, lo, hi, head, term)
  BY <1>1, <1>2, <1>4 DEF Ring
<1>6. Received(m, w, fl, Q, S, arrived)
  <2>1. ASSUME NEW j \in 1..n
        PROVE  MessageAt(m, w, fl, Q, S[j - 1], S[j], arrived[j])
    <3> DEFINE f == S[j - 1]
               e == S[j]
    <3>1. f \in Nat /\ e \in Nat /\ lo <= f /\ f < e /\ e <= r
      BY <1>1
    <3>2. MessageAt(mem, vd, fill, Q, f, e, arrived[j])
      BY <1>2 DEF Received, n
    <3> HIDE DEF f, e
    <3>3. f \in lo..(hi - 1) /\ \A i \in f..(e - 1) : i \in lo..(hi - 1)
      BY <1>1, <3>1
    <3>4. \A i \in f..(e - 1) : m[Q[i]] = mem[Q[i]] /\ fl[w[Q[i]]] = fill[vd[Q[i]]]
      BY <1>4, <3>3, Zenon
    <3>5. m[Q[f]] = mem[Q[f]]
      BY <1>4, <3>3, Zenon
    <3>6. MessageAt(m, w, fl, Q, f, e, arrived[j])
      BY <3>2, <3>4, <3>5 DEF MessageAt
    <3> QED BY <3>6 DEF f, e
  <2> QED BY <1>2, <2>1 DEF Received, n
<1>7. Free(m, w, Q, r, hi)
  <2>1. \A i \in r..(hi - 1) : i \in lo..(hi - 1)
    BY <1>1
  <2> QED BY <1>2, <1>4, <2>1, Zenon DEF Free
<1>8. EngineAt(hw, msg, fl, w, Q, r, hi)
  <2> DEFINE k == Len(hw.got)
  <2>1. k \in Nat /\ r + k <= hi
    BY <1>2, <1>3 DEF EngineAt
  <2>2. \A i \in 1..k : hw.got[i] = Q[r + i - 1] /\ fill[vd[Q[r + i - 1]]] = <<msg.id, i>>
    BY <1>2 DEF EngineAt
  <2> HIDE DEF k
  <2>3. \A i \in 1..k : r + i - 1 \in lo..(hi - 1)
    BY <1>1, <2>1
  <2>4. \A i \in 1..k : fl[w[Q[r + i - 1]]] = <<msg.id, i>>
    BY <1>4, <2>2, <2>3, Zenon
  <2> QED BY <1>2, <2>4 DEF EngineAt, k
<1> QED BY <1>5, <1>6, <1>7, <1>8 DEF lo, r, n

(* The contents of a VBUF depend on its own descriptors.                   *)
LEMMA ContentsSame ==
    ASSUME NEW c \in Seq(Descs), NEW w, NEW fl, NEW w2, NEW fl2,
           \A i \in 1..Len(c) : fl2[w2[c[i]]] = fl[w[c[i]]]
    PROVE  ContentsOf(w2, fl2, c) = ContentsOf(w, fl, c)
<1>1. DOMAIN c = 1..Len(c)
  OBVIOUS
<1> QED BY <1>1 DEF ContentsOf

(* VBUFs with the same contents stay numbered.                             *)
LEMMA NumberedSame ==
    ASSUME NEW x, NEW H, NEW w, NEW fl, NEW w2, NEW fl2, NEW g, Numbered(x, H, w, fl, g),
           \A c \in H : ContentsOf(w2, fl2, c) = ContentsOf(w, fl, c)
    PROVE  Numbered(x, H, w2, fl2, g)
BY Zenon DEF Numbered

(* The first descriptor is copied over the terminator.                     *)
LEMMA PutCopyKeeps ==
    ASSUME IInv, PutCopy, UNCHANGED dnVars
    PROVE  IInv'
<1>1. /\ pc = "copy" /\ pc' = "own" /\ mem' = [mem EXCEPT ![term] = put.tdesc]
      /\ UNCHANGED <<vd, head, term, put, isr, hw, intr, configured, held, msg, fill, arrived>>
  BY DEF PutCopy, dnVars
<1>2. PICK Q, S, hi, P : Core(Q, S, hi, P)
  BY DEF IInv
<1> DEFINE lo == S[0]
<1>3. TypeInv /\ Carried(vd)
  BY DEF IInv
<1>4. /\ mem \in [Descs -> HwDescs(Descs, Bufs)] /\ put \in [first : Descs, tdesc : HwDescs(Descs, Bufs)]
  BY <1>3 DEF TypeInv
<1>5. lo \in Nat /\ hi \in Nat /\ lo <= hi
  BY <1>2, <1>3, Positions
<1>6. /\ Ring(mem, Q, lo, hi, head, term) /\ Apart(Q, lo, hi, P, held) /\ PutOf(P)
  BY <1>2 DEF Core
<1> HIDE DEF lo
<1>7. hi \in lo..hi /\ \A i \in lo..(hi - 1) : i \in lo..hi /\ i # hi
  BY <1>5
<1>8. term = Q[hi] /\ term \in Descs /\ \A i \in lo..(hi - 1) : Q[i] \in Descs /\ Q[i] # term
  BY <1>6, <1>7 DEF Ring
<1>9. P \in Seq(Descs) /\ Len(P) >= 1 /\ SwappedPut(mem, vd, put, P, term)
  BY <1>1, <1>6 DEF PutOf, Apart, Putting, Swapped
<1>10. \A i \in 1..Len(P) : P[i] \in Descs /\ P[i] # term
  BY <1>6, <1>7, <1>8, <1>9 DEF Apart
<1>11. /\ mem' \in [Descs -> HwDescs(Descs, Bufs)] /\ mem'[term] = put.tdesc
       /\ \A d \in Descs : d # term => mem'[d] = mem[d]
  BY <1>1, <1>4, <1>8
<1>12. TypeInv' /\ Carried(vd)'
  BY <1>1, <1>3, <1>11 DEF TypeInv
<1>13. put.tdesc.own = "SW"
  BY <1>9 DEF SwappedPut
<1>14. \A i \in lo..(hi - 1) : mem'[Q[i]] = mem[Q[i]]
  BY <1>8, <1>11
<1>15. /\ Ring(mem', Q, lo, hi, head, term) /\ Received(mem', vd, fill, Q, S, arrived)
       /\ Free(mem', vd, Q, S[Len(arrived)], hi) /\ EngineAt(hw, msg, fill, vd, Q, S[Len(arrived)], hi)
  <2>1. \A i \in S[0]..(hi - 1) : mem'[Q[i]] = mem[Q[i]] /\ vd[Q[i]] = vd[Q[i]] /\ fill[vd[Q[i]]] = fill[vd[Q[i]]]
    BY <1>14 DEF lo
  <2>2. mem'[Q[hi]].own = "SW"
    BY <1>8, <1>11, <1>13
  <2> QED BY <1>2, <1>3, <2>1, <2>2, QueueSame, Zenon DEF lo
<1>16. PutOf(P)'
  <2>1. 1 \in 1..Len(P) /\ \A i \in 2..Len(P) : i \in 1..Len(P)
    BY <1>9
  <2>2. SwappedPut(mem', vd, put, P, term)
    BY <1>9, <1>10, <1>11, <2>1 DEF SwappedPut
  <2> QED BY <1>1, <1>9, <1>11, <2>2 DEF PutOf, Putting, Swapped
<1>17. Core(Q, S, hi, P)'
  BY <1>1, <1>2, <1>15, <1>16 DEF Core, lo
<1> QED BY <1>12, <1>17 DEF IInv

(* Two descriptors exchange what they carry.                               *)
LEMMA SwapFacts ==
    ASSUME NEW w \in [Descs -> Bufs], NEW t \in Descs, NEW f \in Descs, t # f, Carried(w)
    PROVE  /\ Swap(w, t, f) \in [Descs -> Bufs] /\ Carried(Swap(w, t, f)) /\ Swap(w, t, f)[t] = w[f]
           /\ \A d \in Descs : d # t /\ d # f => Swap(w, t, f)[d] = w[d]
<1> DEFINE v == Swap(w, t, f)
<1>1. /\ v \in [Descs -> Bufs] /\ v[t] = w[f] /\ v[f] = w[t]
      /\ \A d \in Descs : d # t /\ d # f => v[d] = w[d]
  BY DEF Swap
<1> HIDE DEF v
<1>2. Carried(v)
  BY <1>1 DEF Carried
<1> QED BY <1>1, <1>2 DEF v

(* The ring of the chain is closed, its first descriptor taken back: what  *)
(* PutLink writes, and what it copies.                                     *)
Closed(m, P) == [CloseRing(m, P[1]) EXCEPT ![P[1]].own = "SW"]
Copied(m, P) == [CloseRing(m, P[1])[P[1]] EXCEPT !.own = "SW"]

(* The chain after that.                                                   *)
ClosedChain(m, w, P, g, d) ==
    /\ g \in [Descs -> HwDescs(Descs, Bufs)] /\ d \in HwDescs(Descs, Bufs)
    /\ \A e \in Descs : (\A i \in 1..Len(P) : e # P[i]) => g[e] = m[e]
    /\ g[P[1]].own = "SW"
    /\ d.own = "SW" /\ d.ls = FALSE /\ d.data = w[P[1]] /\ d.next = Following(P, 1)
    /\ \A i \in 2..Len(P) : /\ g[P[i]].own = "HW" /\ g[P[i]].ls = FALSE /\ g[P[i]].data = w[P[i]]
                            /\ g[P[i]].next = Following(P, i)

(* PutLink leaves it so.                                                   *)
LEMMA ClosedFacts ==
    ASSUME NEW m \in [Descs -> HwDescs(Descs, Bufs)], NEW w, NEW p, NEW P \in Seq(Descs), IsInjective(P),
           Len(P) >= 1, LinkedPut(m, w, p, P)
    PROVE  ClosedChain(m, w, P, Closed(m, P), Copied(m, P))
<1> DEFINE n == Len(P)
           f == P[1]
           z == P[n]
           y == [m[z] EXCEPT !.next = f]
           c == CloseRing(m, P[1])
           d == Copied(m, P)
           g == Closed(m, P)
<1>0. d = [c[P[1]] EXCEPT !.own = "SW"] /\ g = [c EXCEPT ![P[1]].own = "SW"]
  BY DEF Closed, Copied
<1> HIDE DEF d, g
<1>1. n \in Nat /\ n >= 1 /\ 1 \in 1..n /\ n \in 1..n /\ DOMAIN P = 1..n /\ \A i \in 1..n : P[i] \in Descs
  OBVIOUS
<1>2. \A i, k \in 1..n : P[i] = P[k] => i = k
  BY <1>1 DEF IsInjective
<1>3. \A i \in 1..n : m[P[i]] = Given(w, P, i)
  BY DEF LinkedPut
<1>4. \A i \in 1..n : /\ m[P[i]].own = "HW" /\ m[P[i]].ls = FALSE /\ m[P[i]].data = w[P[i]]
                      /\ m[P[i]].last = (IF i = 1 THEN z ELSE NULL)
                      /\ m[P[i]].next = (IF i < n THEN P[i + 1] ELSE NULL)
  <2> TAKE i \in 1..n
  <2> DEFINE a == IF i = 1 THEN z ELSE NULL
             b == IF i < n THEN P[i + 1] ELSE NULL
             v == w[P[i]]
  <2>1. m[P[i]] = [own |-> "HW", ls |-> FALSE, last |-> a, next |-> b, data |-> v]
    BY <1>3, Zenon DEF Given, Last
  <2> HIDE DEF a, b, v
  <2>2. m[P[i]].own = "HW" /\ m[P[i]].ls = FALSE /\ m[P[i]].data = v /\ m[P[i]].last = a /\ m[P[i]].next = b
    BY <2>1
  <2> QED BY <2>2, Zenon DEF a, b, v
<1>5. m[f].last = z /\ f \in Descs /\ z \in Descs
  BY <1>1, <1>4
<1> HIDE DEF n, f, z
<1>6. /\ y \in HwDescs(Descs, Bufs) /\ y.next = f /\ y.data = m[z].data /\ y.ls = m[z].ls /\ y.own = m[z].own
  BY <1>5 DEF HwDescs
<1>7. c = [m EXCEPT ![z] = y]
  BY <1>5 DEF CloseRing, f
<1> HIDE DEF y, c
<1>8. c \in [Descs -> HwDescs(Descs, Bufs)] /\ c[z] = y /\ \A e \in Descs : e # z => c[e] = m[e]
  BY <1>5, <1>6, <1>7
<1>9. \A i \in 1..n : /\ c[P[i]].own = "HW" /\ c[P[i]].ls = FALSE /\ c[P[i]].data = w[P[i]]
                      /\ c[P[i]].next = Following(P, i)
  <2> TAKE i \in 1..n
  <2>1. CASE i = n
    <3>1. P[i] = z /\ ~(i < n)
      BY <1>1, <2>1 DEF z
    <3>2. c[P[i]] = y /\ Following(P, i) = f
      BY <1>8, <3>1 DEF Following, n, f
    <3> QED BY <1>4, <1>6, <3>1, <3>2
  <2>2. CASE i # n
    <3>1. P[i] # z /\ i < n
      BY <1>1, <1>2, <2>2 DEF z
    <3>2. c[P[i]] = m[P[i]] /\ Following(P, i) = P[i + 1]
      BY <1>1, <1>8, <3>1 DEF Following, n
    <3> QED BY <1>4, <3>1, <3>2
  <2> QED BY <2>1, <2>2
<1>10. c[f] \in HwDescs(Descs, Bufs) /\ d = [c[f] EXCEPT !.own = "SW"]
  BY <1>0, <1>5, <1>8 DEF f
<1>11. /\ d \in HwDescs(Descs, Bufs) /\ d.own = "SW" /\ d.ls = c[f].ls /\ d.data = c[f].data /\ d.next = c[f].next
  BY <1>10 DEF HwDescs, Owners
<1>12. g = [c EXCEPT ![f] = d]
  BY <1>0, <1>5, <1>8, <1>10 DEF f
<1>13. g \in [Descs -> HwDescs(Descs, Bufs)] /\ g[f] = d /\ \A e \in Descs : e # f => g[e] = c[e]
  BY <1>5, <1>8, <1>11, <1>12
<1>14. \A e \in Descs : (\A i \in 1..n : e # P[i]) => g[e] = m[e]
  BY <1>1, <1>8, <1>13 DEF f, z
<1>15. \A i \in 2..n : g[P[i]] = c[P[i]] /\ i \in 1..n
  BY <1>1, <1>2, <1>13 DEF f
<1>16. d.ls = FALSE /\ d.data = w[P[1]] /\ d.next = Following(P, 1)
  BY <1>1, <1>9, <1>11 DEF f
<1>17. \A i \in 2..n : /\ g[P[i]].own = "HW" /\ g[P[i]].ls = FALSE /\ g[P[i]].data = w[P[i]]
                       /\ g[P[i]].next = Following(P, i)
  BY <1>9, <1>15
<1> QED BY <1>11, <1>13, <1>14, <1>16, <1>17 DEF n, f, d, g, ClosedChain

(* The ring is closed, the first descriptor copied and taken back, and     *)
(* the buffers exchanged.                                                  *)
LEMMA PutLinkKeeps ==
    ASSUME IInv, PutLink(CloseRing(mem, put.first)), UNCHANGED dnVars
    PROVE  /\ IInv'
           /\ \A c \in held : Contents(c)' = Contents(c)
<1> DEFINE cl == CloseRing(mem, put.first)
<1>1. /\ pc = "link" /\ pc' = "copy" /\ put' = [put EXCEPT !.tdesc = [cl[put.first] EXCEPT !.own = "SW"]]
      /\ mem' = [cl EXCEPT ![put.first].own = "SW"] /\ vd' = Swap(vd, term, put.first)
      /\ UNCHANGED <<head, term, isr, hw, intr, configured, held, msg, fill, arrived>>
  BY DEF PutLink, dnVars
<1>2. PICK Q, S, hi, P : Core(Q, S, hi, P)
  BY DEF IInv
<1> DEFINE lo == S[0]
           td == [cl[P[1]] EXCEPT !.own = "SW"]
<1>3. TypeInv /\ Carried(vd)
  BY DEF IInv
<1>4. /\ mem \in [Descs -> HwDescs(Descs, Bufs)] /\ put \in [first : Descs, tdesc : HwDescs(Descs, Bufs)]
      /\ vd \in [Descs -> Bufs]
  BY <1>3 DEF TypeInv
<1>5. lo \in Nat /\ hi \in Nat /\ lo <= hi
  BY <1>2, <1>3, Positions
<1>6. Ring(mem, Q, lo, hi, head, term) /\ Apart(Q, lo, hi, P, held) /\ PutOf(P) /\ Numbered(arrived, held, vd, fill, msg)
  BY <1>2 DEF Core
<1> HIDE DEF lo
<1>7. hi \in lo..hi /\ \A i \in lo..(hi - 1) : i \in lo..hi /\ i # hi
  BY <1>5
<1>8. term = Q[hi] /\ term \in Descs /\ mem[term].own = "SW" /\ \A i \in lo..(hi - 1) : Q[i] \in Descs /\ Q[i] # term
  BY <1>6, <1>7 DEF Ring
<1>9. P \in Seq(Descs) /\ IsInjective(P) /\ Len(P) >= 1 /\ LinkedPut(mem, vd, put, P) /\ put.first = P[1]
  BY <1>1, <1>6 DEF PutOf, Apart, Putting, Swapped, LinkedPut
<1>10. \A i \in 1..Len(P) : P[i] \in Descs /\ P[i] # term /\ \A k \in lo..hi : Q[k] # P[i]
  BY <1>6, <1>7, <1>8, <1>9 DEF Apart
<1>11. 1 \in 1..Len(P) /\ \A i \in 2..Len(P) : i \in 1..Len(P) /\ P[i] # P[1]
  BY <1>9 DEF IsInjective
<1>12. /\ mem' \in [Descs -> HwDescs(Descs, Bufs)] /\ td \in HwDescs(Descs, Bufs)
       /\ \A e \in Descs : (\A i \in 1..Len(P) : e # P[i]) => mem'[e] = mem[e]
       /\ mem'[P[1]].own = "SW"
       /\ td.own = "SW" /\ td.ls = FALSE /\ td.data = vd[P[1]] /\ td.next = Following(P, 1)
       /\ \A i \in 2..Len(P) : /\ mem'[P[i]].own = "HW" /\ mem'[P[i]].ls = FALSE /\ mem'[P[i]].data = vd[P[i]]
                               /\ mem'[P[i]].next = Following(P, i)
  <2>1. mem' = Closed(mem, P) /\ td = Copied(mem, P)
    BY <1>1, <1>9 DEF Closed, Copied
  <2> HIDE DEF td
  <2>2. ClosedChain(mem, vd, P, Closed(mem, P), Copied(mem, P))
    BY <1>4, <1>9, ClosedFacts, Zenon
  <2> QED BY <2>1, <2>2, Zenon DEF ClosedChain
<1>13. /\ vd' \in [Descs -> Bufs] /\ Carried(vd') /\ vd'[term] = vd[P[1]]
       /\ \A d \in Descs : d # term /\ d # P[1] => vd'[d] = vd[d]
  BY <1>1, <1>3, <1>4, <1>8, <1>9, <1>10, <1>11, SwapFacts
<1>14. put' = [first |-> P[1], tdesc |-> td] /\ put'.first = P[1] /\ put'.tdesc = td
  BY <1>1, <1>4, <1>9
<1> HIDE DEF td
<1>15. TypeInv' /\ Carried(vd)'
  <2>1. put' \in [first : Descs, tdesc : HwDescs(Descs, Bufs)]
    BY <1>10, <1>11, <1>12, <1>14
  <2> QED BY <1>1, <1>3, <1>12, <1>13, <2>1 DEF TypeInv, Carried
<1>16. \A i \in lo..(hi - 1) : mem'[Q[i]] = mem[Q[i]] /\ vd'[Q[i]] = vd[Q[i]]
  BY <1>7, <1>8, <1>10, <1>11, <1>12, <1>13
<1>17. /\ Ring(mem', Q, lo, hi, head, term) /\ Received(mem', vd', fill, Q, S, arrived)
       /\ Free(mem', vd', Q, S[Len(arrived)], hi) /\ EngineAt(hw, msg, fill, vd', Q, S[Len(arrived)], hi)
  <2>1. \A i \in S[0]..(hi - 1) : mem'[Q[i]] = mem[Q[i]] /\ vd'[Q[i]] = vd[Q[i]] /\ fill[vd[Q[i]]] = fill[vd[Q[i]]]
    BY <1>16 DEF lo
  <2>2. mem'[Q[hi]].own = "SW"
    BY <1>8, <1>10, <1>12
  <2> QED BY <1>2, <1>3, <2>1, <2>2, QueueSame, Zenon DEF lo
<1>18. PutOf(P)'
  <2>1. \A i \in 2..Len(P) : vd'[P[i]] = vd[P[i]]
    BY <1>10, <1>11, <1>13
  <2>2. SwappedPut(mem', vd', put', P, term)
    BY <1>12, <1>13, <1>14, <2>1 DEF SwappedPut
  <2> QED BY <1>1, <1>9, <2>2 DEF PutOf, Putting, Swapped
<1>19. \A c \in held : c \in Seq(Descs) /\ ContentsOf(vd', fill, c) = ContentsOf(vd, fill, c)
  <2> TAKE c \in held
  <2>1. c \in Seq(Descs) /\ \A i \in 1..Len(c) : (\A k \in lo..hi : c[i] # Q[k]) /\ (\A k \in 1..Len(P) : c[i] # P[k])
    BY <1>6 DEF Apart
  <2>2. \A i \in 1..Len(c) : c[i] \in Descs /\ c[i] # term /\ c[i] # P[1]
    BY <1>7, <1>8, <1>11, <2>1
  <2>3. \A i \in 1..Len(c) : fill[vd'[c[i]]] = fill[vd[c[i]]]
    BY <1>13, <2>2
  <2> QED BY <2>1, <2>3, ContentsSame
<1>20. Numbered(arrived, held, vd', fill, msg)
  BY <1>6, <1>19, NumberedSame
<1>21. Core(Q, S, hi, P)'
  BY <1>1, <1>2, <1>17, <1>18, <1>20 DEF Core, lo
<1>22. \A c \in held : Contents(c)' = Contents(c)
  BY <1>1, <1>19, Zenon DEF Contents, ContentsOf
<1> QED BY <1>15, <1>21, <1>22 DEF IInv

(* Messages stay received when their descriptors keep what they hold and   *)
(* their place in the queue.                                               *)
LEMMA ReceivedSame ==
    ASSUME NEW Q, NEW S, NEW hi, NEW P, TypeInv, Core(Q, S, hi, P), NEW m, NEW w, NEW fl, NEW Q2,
           \A i \in S[0]..(S[Len(arrived)] - 1) : /\ Q2[i] = Q[i] /\ m[Q[i]] = mem[Q[i]]
                                                  /\ fl[w[Q[i]]] = fill[vd[Q[i]]]
    PROVE  Received(m, w, fl, Q2, S, arrived)
<1> DEFINE n == Len(arrived)
           r == S[n]
           lo == S[0]
<1>1. /\ n \in Nat /\ lo \in Nat /\ r \in Nat
      /\ \A j \in 1..n : S[j - 1] \in Nat /\ S[j] \in Nat /\ lo <= S[j - 1] /\ S[j - 1] < S[j] /\ S[j] <= r
  BY Positions
<1>2. Received(mem, vd, fill, Q, S, arrived)
  BY DEF Core
<1> HIDE DEF r, lo, n
<1>3. \A i \in lo..(r - 1) : Q2[i] = Q[i] /\ m[Q[i]] = mem[Q[i]] /\ fl[w[Q[i]]] = fill[vd[Q[i]]]
  BY DEF lo, r, n
<1>4. ASSUME NEW j \in 1..n
      PROVE  MessageAt(m, w, fl, Q2, S[j - 1], S[j], arrived[j])
  <2> DEFINE f == S[j - 1]
             e == S[j]
  <2>1. f \in Nat /\ e \in Nat /\ lo <= f /\ f < e /\ e <= r
    BY <1>1
  <2>2. MessageAt(mem, vd, fill, Q, f, e, arrived[j])
    BY <1>2 DEF Received, n
  <2> HIDE DEF f, e
  <2>3. f \in lo..(r - 1) /\ e - 1 \in lo..(r - 1) /\ \A i \in f..(e - 1) : i \in lo..(r - 1)
    BY <1>1, <2>1
  <2>4. \A i \in f..(e - 1) : Q2[i] = Q[i] /\ m[Q2[i]] = mem[Q[i]] /\ fl[w[Q2[i]]] = fill[vd[Q[i]]]
    BY <1>3, <2>3, Zenon
  <2>5. m[Q2[f]] = mem[Q[f]] /\ Q2[e - 1] = Q[e - 1]
    BY <1>3, <2>3, Zenon
  <2>6. MessageAt(m, w, fl, Q2, f, e, arrived[j])
    BY <2>2, <2>4, <2>5 DEF MessageAt
  <2> QED BY <2>6 DEF f, e
<1> QED BY <1>2, <1>4 DEF Received, n

(* The old terminator goes to the hardware: the chain is in the queue.     *)
LEMMA PutOwnKeeps ==
    ASSUME IInv, PutOwn, UNCHANGED dnVars
    PROVE  IInv'
<1>1. /\ pc = "own" /\ pc' = "trigger" /\ mem' = [mem EXCEPT ![term].own = "HW"] /\ term' = put.first
      /\ UNCHANGED <<vd, head, put, isr, hw, intr, configured, held, msg, fill, arrived>>
  BY DEF PutOwn, dnVars
<1>2. PICK Q, S, hi, P : Core(Q, S, hi, P)
  BY DEF IInv
<1> DEFINE lo == S[0]
           r == S[Len(arrived)]
           n == Len(P)
           z == << >>
           R == [i \in Nat |-> IF i <= hi THEN Q[i] ELSE IF i < hi + n THEN P[i - hi + 1] ELSE P[1]]
           t == [mem[term] EXCEPT !.own = "HW"]
<1>3. TypeInv /\ Carried(vd)
  BY DEF IInv
<1>4. /\ mem \in [Descs -> HwDescs(Descs, Bufs)] /\ hw.got \in Seq(Descs) /\ put.first \in Descs
  BY <1>3 DEF TypeInv
<1>5. lo \in Nat /\ hi \in Nat /\ r \in Nat /\ lo <= r /\ r <= hi
  BY <1>2, <1>3, Positions
<1>6. /\ Ring(mem, Q, lo, hi, head, term) /\ Apart(Q, lo, hi, P, held) /\ PutOf(P) /\ Free(mem, vd, Q, r, hi)
      /\ EngineAt(hw, msg, fill, vd, Q, r, hi) /\ Numbered(arrived, held, vd, fill, msg)
  BY <1>2 DEF Core
<1>7. P \in Seq(Descs) /\ IsInjective(P) /\ n \in Nat /\ n >= 1 /\ SwappedPut(mem, vd, put, P, term) /\ mem[term] = put.tdesc
  BY <1>1, <1>6 DEF PutOf, Apart, Putting, Swapped
<1>8. configured /\ Covered(Q, lo, hi, P, held)
  <2>1. P # << >>
    BY <1>7
  <2> QED BY <1>2, <2>1 DEF Core
<1>9. /\ \A i \in 1..n : P[i] \in Descs /\ \A k \in lo..hi : P[i] # Q[k]
      /\ \A i, k \in 1..n : P[i] = P[k] => i = k
  BY <1>6, <1>7 DEF Apart, IsInjective
<1> HIDE DEF lo, r, n, z
<1>10. hi \in lo..hi /\ 1 \in 1..n /\ \A i \in lo..(hi - 1) : i \in lo..hi /\ i # hi
  BY <1>5, <1>7
<1>11. /\ term = Q[hi] /\ term \in Descs /\ mem[term].own = "SW"
       /\ \A i \in lo..(hi - 1) : Q[i] \in Descs /\ Q[i] # term /\ mem[Q[i]].next = Q[i + 1]
       /\ \A i, k \in lo..hi : Q[i] = Q[k] => i = k
       /\ \A i \in lo..hi : Q[i] \in Descs
       /\ head = Q[lo]
  BY <1>6, <1>10 DEF Ring
<1>12. /\ t \in HwDescs(Descs, Bufs) /\ t.own = "HW" /\ t.ls = mem[term].ls /\ t.data = mem[term].data /\ t.next = mem[term].next
  BY <1>4, <1>11 DEF HwDescs, Owners
<1>13. mem' = [mem EXCEPT ![term] = t]
  BY <1>1, <1>4, <1>11
<1> HIDE DEF t
<1>14. mem' \in [Descs -> HwDescs(Descs, Bufs)] /\ mem'[term] = t /\ \A d \in Descs : d # term => mem'[d] = mem[d]
  BY <1>4, <1>11, <1>12, <1>13
<1>15. term' = P[1] /\ t.ls = FALSE /\ t.data = vd[term] /\ t.next = (IF 1 < n THEN P[2] ELSE P[1])
       /\ mem[P[1]].own = "SW"
       /\ \A i \in 2..n : /\ mem[P[i]].own = "HW" /\ mem[P[i]].ls = FALSE /\ mem[P[i]].data = vd[P[i]]
                          /\ mem[P[i]].next = (IF i < n THEN P[i + 1] ELSE P[1])
  BY <1>1, <1>7, <1>12 DEF SwappedPut, Following, n
<1>16. \A i \in 1..n : mem'[P[i]] = mem[P[i]] /\ P[i] # term
  BY <1>9, <1>10, <1>11, <1>14
<1>17. /\ \A i \in lo..hi : R[i] = Q[i]
       /\ \A i \in (hi + 1)..((hi + n) - 1) : R[i] = P[i - hi + 1] /\ i - hi + 1 \in 2..n
       /\ R[hi + n] = P[1]
  BY <1>5, <1>7
<1>18. \A i \in lo..(hi + n) : \/ i \in lo..(hi - 1) \/ i = hi \/ i \in (hi + 1)..((hi + n) - 1) \/ i = hi + n
  BY <1>5, <1>7
<1> HIDE DEF R
<1>19. Ring(mem', R, lo, hi + n, head, term')
  <2>1. \A i \in lo..(hi + n) : R[i] \in Descs
    <3> TAKE i \in lo..(hi + n)
    <3>1. CASE i \in lo..(hi - 1) \/ i = hi
      BY <1>10, <1>11, <1>17, <3>1
    <3>2. CASE i \in (hi + 1)..((hi + n) - 1)
      <4>1. PICK p \in 2..n : R[i] = P[p] /\ p \in 1..n
        BY <1>7, <1>17, <3>2
      <4> QED BY <1>9, <4>1
    <3>3. CASE i = hi + n
      BY <1>9, <1>10, <1>17, <3>3
    <3> QED BY <1>18, <3>1, <3>2, <3>3
  <2>2. ASSUME NEW i \in lo..(hi + n), NEW k \in lo..(hi + n), R[i] = R[k]
        PROVE  i = k
    <3> DEFINE p(j) == IF j < hi + n THEN j - hi + 1 ELSE 1
    <3>1. \A j \in lo..(hi + n) : \/ j \in lo..hi /\ R[j] = Q[j]
                                  \/ j > hi /\ p(j) \in 1..n /\ R[j] = P[p(j)]
      <4> TAKE j \in lo..(hi + n)
      <4>1. CASE j \in lo..(hi - 1) \/ j = hi
        BY <1>10, <1>17, <4>1
      <4>2. CASE j \in (hi + 1)..((hi + n) - 1)
        <5>1. p(j) = j - hi + 1 /\ j > hi /\ p(j) \in 1..n
          BY <1>5, <1>7, <4>2
        <5> HIDE DEF p
        <5> QED BY <1>17, <4>2, <5>1
      <4>3. CASE j = hi + n
        <5>1. p(j) = 1 /\ j > hi /\ p(j) \in 1..n
          BY <1>5, <1>7, <4>3
        <5> HIDE DEF p
        <5> QED BY <1>17, <4>3, <5>1
      <4> QED BY <1>18, <4>1, <4>2, <4>3
    <3>2. \A j, l \in (hi + 1)..(hi + n) : p(j) = p(l) => j = l
      BY <1>5, <1>7
    <3> HIDE DEF p
    <3>3. CASE i \in lo..hi /\ R[i] = Q[i]
      <4>1. CASE k \in lo..hi /\ R[k] = Q[k]
        <5>1. Q[i] = Q[k]
          BY <2>2, <3>3, <4>1
        <5> QED BY <1>11, <3>3, <4>1, <5>1, Zenon
      <4>2. CASE p(k) \in 1..n /\ R[k] = P[p(k)]
        <5>1. Q[i] = P[p(k)]
          BY <2>2, <3>3, <4>2, Zenon
        <5> QED BY <1>9, <3>3, <4>2, <5>1, Zenon
      <4> QED BY <3>1, <4>1, <4>2, Zenon
    <3>4. CASE i > hi /\ p(i) \in 1..n /\ R[i] = P[p(i)]
      <4>1. k > hi /\ p(k) \in 1..n /\ R[k] = P[p(k)]
        BY <1>9, <2>2, <3>1, <3>4, ZenonT(60)
      <4>2. i \in (hi + 1)..(hi + n) /\ k \in (hi + 1)..(hi + n) /\ p(i) = p(k)
        <5>1. P[p(i)] = P[p(k)]
          BY <2>2, <3>4, <4>1, Zenon
        <5>2. p(i) = p(k)
          BY <1>9, <3>4, <4>1, <5>1, Zenon
        <5>3. i \in (hi + 1)..(hi + n) /\ k \in (hi + 1)..(hi + n)
          BY <1>5, <1>7, <3>4, <4>1
        <5> QED BY <5>2, <5>3, Zenon
      <4> QED BY <3>2, <4>2
    <3> QED BY <3>1, <3>3, <3>4
  <2>3. ASSUME NEW i \in lo..((hi + n) - 1)
        PROVE  mem'[R[i]].next = R[i + 1]
    <3>1. CASE i \in lo..(hi - 1)
      <4>1. i \in lo..hi /\ i + 1 \in lo..hi
        BY <1>5, <3>1
      <4> QED BY <1>11, <1>14, <1>17, <3>1, <4>1
    <3>2. CASE i = hi
      <4>1. mem'[R[i]].next = (IF 1 < n THEN P[2] ELSE P[1])
        BY <1>10, <1>11, <1>14, <1>15, <1>17, <3>2
      <4>2. CASE n = 1
        BY <1>17, <3>2, <4>1, <4>2
      <4>3. CASE n > 1
        <5> DEFINE j == hi + 1
        <5>1. j \in (hi + 1)..((hi + n) - 1) /\ j - hi + 1 = 2
          BY <1>5, <1>7, <4>3
        <5> HIDE DEF j
        <5>3. R[j] = P[2]
          BY <1>17, <5>1
        <5>2. R[hi + 1] = P[2]
          BY <5>3 DEF j
        <5> QED BY <3>2, <4>1, <4>3, <5>2
      <4> QED BY <1>7, <4>2, <4>3
    <3>3. CASE i \in (hi + 1)..((hi + n) - 1)
      <4> DEFINE p == i - hi + 1
      <4>1. R[i] = P[p] /\ p \in 2..n /\ p \in 1..n
        BY <1>5, <1>7, <1>17, <3>3
      <4>2. mem'[R[i]].next = (IF p < n THEN P[p + 1] ELSE P[1])
        <5> HIDE DEF p
        <5> QED BY <1>15, <1>16, <4>1
      <4>3. CASE p < n
        <5>1. i + 1 \in (hi + 1)..((hi + n) - 1) /\ (i + 1) - hi + 1 = p + 1
          BY <1>5, <1>7, <3>3, <4>3
        <5>2. R[i + 1] = P[p + 1]
          BY <1>17, <5>1
        <5> QED BY <4>2, <4>3, <5>2
      <4>4. CASE p = n
        <5>1. i + 1 = hi + n
          BY <1>5, <1>7, <3>3, <4>4
        <5> HIDE DEF p
        <5>2. ~(p < n)
          BY <1>7, <4>4
        <5>3. mem'[R[i]].next = P[1]
          BY <4>2, <5>2
        <5> QED BY <1>17, <5>1, <5>3
      <4> QED BY <1>7, <4>1, <4>3, <4>4
    <3> QED BY <1>5, <1>7, <1>18, <3>1, <3>2, <3>3
  <2>4. head = R[lo] /\ term' = R[hi + n] /\ mem'[term'].own = "SW"
    <3>1. lo \in lo..hi
      BY <1>5
    <3>2. head = R[lo]
      BY <1>11, <1>17, <3>1
    <3>3. mem'[P[1]].own = "SW"
      BY <1>10, <1>15, <1>16
    <3> QED BY <1>15, <1>17, <3>2, <3>3
  <2> QED BY <2>1, <2>2, <2>3, <2>4, Zenon DEF Ring
<1>20. Received(mem', vd, fill, R, S, arrived)
  <2>1. \A i \in lo..(r - 1) : i \in lo..hi /\ i \in lo..(hi - 1)
    BY <1>5
  <2>2. \A i \in lo..(r - 1) : R[i] = Q[i] /\ mem'[Q[i]] = mem[Q[i]] /\ fill[vd[Q[i]]] = fill[vd[Q[i]]]
    BY <1>11, <1>14, <1>17, <2>1
  <2> QED BY <1>2, <1>3, <2>2, ReceivedSame, Zenon DEF lo, r
<1>21. Free(mem', vd, R, r, hi + n)
  <2>1. ASSUME NEW i \in r..((hi + n) - 1)
        PROVE  mem'[R[i]].own = "HW" /\ mem'[R[i]].ls = FALSE /\ mem'[R[i]].data = vd[R[i]]
    <3>1. CASE i < hi
      <4>1. i \in lo..hi /\ i \in lo..(hi - 1) /\ i \in r..(hi - 1)
        BY <1>5, <3>1
      <4>2. R[i] = Q[i] /\ mem'[Q[i]] = mem[Q[i]]
        BY <1>11, <1>14, <1>17, <4>1
      <4> QED BY <1>6, <4>1, <4>2, Zenon DEF Free
    <3>2. CASE i = hi
      BY <1>10, <1>11, <1>12, <1>14, <1>15, <1>17, <3>2
    <3>3. CASE i > hi
      <4>1. i \in (hi + 1)..((hi + n) - 1)
        BY <1>5, <1>7, <3>3
      <4>2. PICK p \in 2..n : R[i] = P[p] /\ p \in 1..n
        BY <1>17, <1>7, <4>1
      <4>3. mem'[P[p]] = mem[P[p]]
        BY <1>16, <4>2
      <4>4. mem[P[p]].own = "HW" /\ mem[P[p]].ls = FALSE /\ mem[P[p]].data = vd[P[p]]
        BY <1>15, <4>2, Zenon
      <4> QED BY <4>2, <4>3, <4>4
    <3>4. i < hi \/ i = hi \/ i > hi
      BY <1>5
    <3> QED BY <3>1, <3>2, <3>3, <3>4, Zenon
  <2> QED BY <2>1, Zenon DEF Free
<1>22. EngineAt(hw, msg, fill, vd, R, r, hi + n)
  <2> DEFINE k == Len(hw.got)
  <2>1. k \in Nat /\ r + k <= hi /\ hw.cur = Q[r + k]
    BY <1>4, <1>6 DEF EngineAt
  <2>2. \A i \in 1..k : hw.got[i] = Q[r + i - 1] /\ fill[vd[Q[r + i - 1]]] = <<msg.id, i>>
    BY <1>6 DEF EngineAt
  <2>3. IF k = 0 THEN msg = None ELSE msg # None /\ msg.len > k
    BY <1>6 DEF EngineAt
  <2> HIDE DEF k
  <2>4. r + k \in lo..hi /\ r + k <= hi + n /\ \A i \in 1..k : r + i - 1 \in lo..hi
    BY <1>5, <1>7, <2>1
  <2>5. hw.cur = R[r + k]
    BY <1>17, <2>1, <2>4
  <2>6. \A i \in 1..k : R[r + i - 1] = Q[r + i - 1]
    BY <1>17, <2>4
  <2> QED BY <2>2, <2>3, <2>4, <2>5, <2>6 DEF EngineAt, k
<1>23. z \in Seq(Descs) /\ IsInjective(z) /\ Len(z) = 0
  BY DEF z, IsInjective
<1>24. \A k \in lo..(hi + n) : (\E j \in lo..hi : R[k] = Q[j]) \/ (\E j \in 1..n : R[k] = P[j])
  <2> TAKE k \in lo..(hi + n)
  <2>1. CASE k \in lo..hi
    BY <1>17, <2>1
  <2>2. CASE k \in (hi + 1)..((hi + n) - 1)
    BY <1>7, <1>17, <2>2
  <2>3. CASE k = hi + n
    BY <1>10, <1>17, <2>3
  <2> QED BY <1>10, <1>18, <2>1, <2>2, <2>3
<1>25. Apart(R, lo, hi + n, z, held)
  <2>1. /\ \A c \in held : c \in Seq(Descs) /\ IsInjective(c) /\ Len(c) \in 1..MaxLen
        /\ \A c \in held : \A i \in 1..Len(c) : (\A k \in lo..hi : c[i] # Q[k]) /\ (\A k \in 1..n : c[i] # P[k])
        /\ \A c, e \in held : \A i \in 1..Len(c), k \in 1..Len(e) : c[i] = e[k] => c = e
    BY <1>6 DEF Apart, n
  <2>2. 1..Len(z) = {}
    BY <1>23
  <2>3. \A c \in held : \A i \in 1..Len(c) : \A k \in lo..(hi + n) : c[i] # R[k]
    <3> SUFFICES ASSUME NEW c \in held, NEW i \in 1..Len(c), NEW k \in lo..(hi + n)
                 PROVE  c[i] # R[k]
      BY Zenon
    <3>1. CASE \E j \in lo..hi : R[k] = Q[j]
      BY <2>1, <3>1, Zenon
    <3>2. CASE \E j \in 1..n : R[k] = P[j]
      BY <2>1, <3>2, Zenon
    <3> QED BY <1>24, <3>1, <3>2, Zenon
  <2> QED BY <1>23, <2>1, <2>2, <2>3 DEF Apart
<1>26. \A d \in Descs : (\E k \in lo..hi : d = Q[k]) \/ (\E k \in 1..n : d = P[k]) => \E k \in lo..(hi + n) : d = R[k]
  <2>1. ASSUME NEW k \in lo..hi
        PROVE  k \in lo..(hi + n) /\ R[k] = Q[k]
    BY <1>5, <1>7, <1>17
  <2>2. ASSUME NEW k \in 1..n
        PROVE  \E j \in lo..(hi + n) : R[j] = P[k]
    <3>1. CASE k = 1
      <4>1. hi + n \in lo..(hi + n)
        BY <1>5, <1>7
      <4> QED BY <1>17, <3>1, <4>1
    <3>2. CASE k # 1
      <4> DEFINE j == hi + k - 1
      <4>1. j \in (hi + 1)..((hi + n) - 1) /\ j \in lo..(hi + n) /\ j - hi + 1 = k
        BY <1>5, <1>7, <3>2
      <4>2. R[j] = P[k]
        BY <1>17, <4>1
      <4> QED BY <4>1, <4>2
    <3> QED BY <3>1, <3>2
  <2> QED BY <2>1, <2>2, Zenon
<1>27. Covered(R, lo, hi + n, z, held)
  BY <1>8, <1>26, Zenon DEF Covered, n
<1>28. PutOf(z)'
  BY <1>1, <1>23 DEF PutOf, Putting, Swapped
<1>29. TypeInv' /\ Carried(vd)'
  BY <1>1, <1>3, <1>14 DEF TypeInv
<1>30. hi + n \in Nat /\ r <= hi + n
  BY <1>5, <1>7
<1>31. Core(R, S, hi + n, z)'
  BY <1>1, <1>6, <1>8, <1>19, <1>20, <1>21, <1>22, <1>25, <1>27, <1>28, <1>30 DEF Core, lo, r
<1> QED BY <1>29, <1>31 DEF IInv
----------------------------------------------------------------------------
(* The put begins.                                                         *)

(* A chain linked and given to the hardware, and nothing else written.     *)
LEMMA GivenFacts ==
    ASSUME NEW m \in [Descs -> HwDescs(Descs, Bufs)], NEW w \in [Descs -> Bufs],
           NEW c \in Seq(Descs), IsInjective(c)
    PROVE  LET g == GiveToHw(Linked(m, w, c, FALSE), c)
           IN  /\ g \in [Descs -> HwDescs(Descs, Bufs)]
               /\ \A d \in Descs : d \notin ToSet(c) => g[d] = m[d]
               /\ \A i \in 1..Len(c) : g[c[i]] = Given(w, c, i)
<1> DEFINE l == Linked(m, w, c, FALSE)
           g == GiveToHw(l, c)
<1>1. DOMAIN m = Descs /\ Len(c) \in Nat /\ DOMAIN c = 1..Len(c)
  OBVIOUS
<1>2. DOMAIN l = Descs
  BY <1>1 DEF Linked
<1>3. g = [d \in Descs |-> IF d \in ToSet(c) THEN [l[d] EXCEPT !.own = "HW"] ELSE l[d]]
  BY <1>2 DEF GiveToHw
<1>4. ASSUME NEW d \in Descs, d \notin ToSet(c)
      PROVE  g[d] = m[d]
  <2>1. l[d] = m[d]
    BY <1>1, <1>4, Zenon DEF Linked
  <2> HIDE DEF l
  <2> QED BY <1>3, <1>4, <2>1
<1>5. ASSUME NEW i \in 1..Len(c)
      PROVE  g[c[i]] = Given(w, c, i) /\ Given(w, c, i) \in HwDescs(Descs, Bufs)
  <2> DEFINE d == c[i]
             k == CHOOSE j \in DOMAIN c : c[j] = d
             a == FALSE
             b == IF i = 1 THEN Last(c) ELSE NULL
             x == IF i < Len(c) THEN c[i + 1] ELSE NULL
             y == w[d]
  <2>1. d \in Descs /\ d \in ToSet(c)
    BY <1>1 DEF ToSet
  <2>2. k = i
    <3>1. k \in DOMAIN c /\ c[k] = c[i]
      BY <1>1
    <3> QED BY <1>1, <3>1 DEF IsInjective
  <2>3. l[d] = [own |-> "SW", ls |-> (FALSE /\ k = Len(c)), last |-> IF k = 1 THEN Last(c) ELSE NULL,
                next |-> IF k < Len(c) THEN c[k + 1] ELSE NULL, data |-> w[d]]
    BY <1>1, <2>1, Zenon DEF Linked
  <2> HIDE DEF k
  <2>10. (FALSE /\ i = Len(c)) = FALSE
    OBVIOUS
  <2>4. l[d] = [own |-> "SW", ls |-> a, last |-> b, next |-> x, data |-> y]
    BY <2>2, <2>3, <2>10, Zenon
  <2>5. b \in Descs \cup {NULL} /\ x \in Descs \cup {NULL} /\ y \in Bufs /\ a \in BOOLEAN
    <3>1. i < Len(c) => i + 1 \in 1..Len(c)
      BY <1>1
    <3>2. Len(c) \in 1..Len(c)
      BY <1>1
    <3> QED BY <2>1, <3>1, <3>2 DEF Last
  <2> HIDE DEF a, b, x, y, l
  <2>6. g[d] = [l[d] EXCEPT !.own = "HW"]
    BY <1>3, <2>1
  <2> HIDE DEF g
  <2>7. g[d] = [own |-> "HW", ls |-> a, last |-> b, next |-> x, data |-> y]
    BY <2>4, <2>6
  <2>8. [own |-> "HW", ls |-> a, last |-> b, next |-> x, data |-> y] \in HwDescs(Descs, Bufs)
    BY <2>5 DEF HwDescs, Owners
  <2>9. Given(w, c, i) = [own |-> "HW", ls |-> a, last |-> b, next |-> x, data |-> y]
    BY Zenon DEF Given, a, b, x, y, d
  <2> QED BY <2>7, <2>8, <2>9
<1>6. g \in [Descs -> HwDescs(Descs, Bufs)]
  <2>1. \A d \in Descs : g[d] \in HwDescs(Descs, Bufs)
    <3> TAKE d \in Descs
    <3>1. CASE d \in ToSet(c)
      <4>1. PICK i \in 1..Len(c) : d = c[i]
        BY <1>1, <3>1 DEF ToSet
      <4> QED BY <1>5, <4>1
    <3>2. CASE d \notin ToSet(c)
      BY <1>4, <3>2
    <3> QED BY <3>1, <3>2
  <2>2. g = [d \in Descs |-> g[d]]
    BY <1>3
  <2> QED BY <2>1, <2>2
<1> HIDE DEF g
<1>7. /\ g \in [Descs -> HwDescs(Descs, Bufs)]
      /\ \A d \in Descs : d \notin ToSet(c) => g[d] = m[d]
      /\ \A i \in 1..Len(c) : g[c[i]] = Given(w, c, i)
  BY <1>4, <1>5, <1>6
<1> QED BY <1>7 DEF g, l


(* A chain of descriptors that are not in the queue is put.                *)
LEMMA PutBeginKeeps ==
    ASSUME IInv, NEW Q, NEW S, NEW hi, NEW P, Core(Q, S, hi, P), NEW c \in Seq(Descs), IsInjective(c), Len(c) >= 1,
           PutBegin(c, FALSE), UNCHANGED <<msg, arrived>>, held' \subseteq held, configured', configured' \in BOOLEAN,
           fill' \in [Bufs -> Values],
           \A i \in 1..Len(c) : \A k \in S[0]..hi : c[i] # Q[k],
           \A e \in held' : \A i \in 1..Len(e) : \A k \in 1..Len(c) : e[i] # c[k],
           \A d \in Descs : (\A i \in 1..Len(c) : d # c[i]) => fill'[vd[d]] = fill[vd[d]],
           Covered(Q, S[0], hi, c, held')
    PROVE  /\ IInv'
           /\ \A e \in held' : ContentsOf(vd, fill', e) = ContentsOf(vd, fill, e)
<1> DEFINE lo == S[0]
<1>1. /\ pc = "run" /\ pc' = "link" /\ mem' = GiveToHw(Linked(mem, vd, c, FALSE), c)
      /\ put' = [put EXCEPT !.first = c[1]] /\ UNCHANGED <<vd, head, term, isr, hw, intr>>
  BY DEF PutBegin
<1>2. TypeInv /\ Carried(vd)
  BY DEF IInv
<1>3. /\ mem \in [Descs -> HwDescs(Descs, Bufs)] /\ put \in [first : Descs, tdesc : HwDescs(Descs, Bufs)]
      /\ vd \in [Descs -> Bufs]
  BY <1>2 DEF TypeInv
<1>4. lo \in Nat /\ hi \in Nat /\ lo <= hi
  BY <1>2, Positions
<1>5. /\ Ring(mem, Q, lo, hi, head, term) /\ Apart(Q, lo, hi, P, held) /\ Numbered(arrived, held, vd, fill, msg)
      /\ hi \in Nat /\ S[Len(arrived)] <= hi
  BY DEF Core
<1> HIDE DEF lo
<1>6. /\ \A i \in 1..Len(c) : c[i] \in Descs /\ \A k \in lo..hi : c[i] # Q[k]
      /\ Covered(Q, lo, hi, c, held')
  BY DEF lo
<1>7. 1 \in 1..Len(c) /\ hi \in lo..hi /\ \A i \in lo..(hi - 1) : i \in lo..hi
  BY <1>4
<1>8. (\A i \in lo..hi : Q[i] \in Descs) /\ term = Q[hi] /\ mem[term].own = "SW"
  BY <1>5 DEF Ring
<1>9. /\ mem' \in [Descs -> HwDescs(Descs, Bufs)]
      /\ \A d \in Descs : d \notin ToSet(c) => mem'[d] = mem[d]
      /\ \A i \in 1..Len(c) : mem'[c[i]] = Given(vd, c, i)
  <2> DEFINE g == GiveToHw(Linked(mem, vd, c, FALSE), c)
  <2>1. /\ g \in [Descs -> HwDescs(Descs, Bufs)]
        /\ \A d \in Descs : d \notin ToSet(c) => g[d] = mem[d]
        /\ \A i \in 1..Len(c) : g[c[i]] = Given(vd, c, i)
    BY <1>3, GivenFacts, ZenonT(60)
  <2>2. mem' = g
    BY <1>1
  <2> HIDE DEF g
  <2> QED BY <2>1, <2>2, Zenon
<1>10. \A d \in Descs : (\A i \in 1..Len(c) : d # c[i]) => mem'[d] = mem[d] /\ fill'[vd[d]] = fill[vd[d]]
  <2>1. \A d : d \in ToSet(c) => \E i \in 1..Len(c) : d = c[i]
    BY DEF ToSet
  <2> QED BY <1>9, <2>1, Zenon
<1>11. \A i \in lo..hi : mem'[Q[i]] = mem[Q[i]] /\ fill'[vd[Q[i]]] = fill[vd[Q[i]]]
  BY <1>6, <1>8, <1>10, Zenon
<1>12. /\ Ring(mem', Q, lo, hi, head, term) /\ Received(mem', vd, fill', Q, S, arrived)
       /\ Free(mem', vd, Q, S[Len(arrived)], hi) /\ EngineAt(hw, msg, fill', vd, Q, S[Len(arrived)], hi)
  <2>1. \A i \in S[0]..(hi - 1) : mem'[Q[i]] = mem[Q[i]] /\ vd[Q[i]] = vd[Q[i]] /\ fill'[vd[Q[i]]] = fill[vd[Q[i]]]
    BY <1>7, <1>11, Zenon DEF lo
  <2>2. mem'[Q[hi]].own = "SW"
    BY <1>7, <1>8, <1>11
  <2> QED BY <1>2, <2>1, <2>2, QueueSame, Zenon DEF lo
<1>13. put'.first = c[1] /\ put' \in [first : Descs, tdesc : HwDescs(Descs, Bufs)]
  BY <1>1, <1>3, <1>6, <1>7
<1>14. TypeInv' /\ Carried(vd)'
  BY <1>1, <1>2, <1>9, <1>13 DEF TypeInv
<1>15. PutOf(c)'
  <2>1. LinkedPut(mem', vd', put', c)
    BY <1>1, <1>9, <1>13, Zenon DEF LinkedPut
  <2> QED BY <1>1, <2>1 DEF PutOf, Putting, Swapped
<1>16. Apart(Q, lo, hi, c, held')
  <2>1. /\ \A e \in held : e \in Seq(Descs) /\ IsInjective(e) /\ Len(e) \in 1..MaxLen
        /\ \A e \in held : \A i \in 1..Len(e) : \A k \in lo..hi : e[i] # Q[k]
        /\ \A d, e \in held : \A i \in 1..Len(d), k \in 1..Len(e) : d[i] = e[k] => d = e
    BY <1>5 DEF Apart
  <2>2. \A e \in held' : e \in held
    OBVIOUS
  <2> QED BY <1>6, <2>1, <2>2, SMT DEF Apart
<1>17. ASSUME NEW e \in held'
       PROVE  ContentsOf(vd, fill', e) = ContentsOf(vd, fill, e)
  <2>1. e \in Seq(Descs)
    BY <1>16 DEF Apart
  <2>2. \A i \in 1..Len(e) : e[i] \in Descs
    BY <2>1
  <2>3. \A i \in 1..Len(e) : fill'[vd[e[i]]] = fill[vd[e[i]]]
    BY <1>10, <2>2, Zenon
  <2> QED BY <2>1, <2>3, ContentsSame
<1>18. Numbered(arrived, held', vd, fill', msg)
  <2>1. \A e \in held' : e \in held
    OBVIOUS
  <2>2. Numbered(arrived, held', vd, fill, msg)
    BY <1>5, <2>1, Zenon DEF Numbered
  <2> QED BY <1>17, <2>2, NumberedSame, Zenon
<1>19. Core(Q, S, hi, c)'
  BY <1>1, <1>5, <1>6, <1>12, <1>15, <1>16, <1>18 DEF Core, lo
<1> QED BY <1>14, <1>17, <1>19 DEF IInv

(* All buffers of the pipe are put.                                        *)
LEMMA ConfigPipeKeeps ==
    ASSUME IInv, ConfigPipe
    PROVE  IInv'
<1> DEFINE c == [i \in 1..NumDescs |-> <<NULL, NumDescs + 1 - i>>]
<1>1. /\ ~configured /\ PutBegin(c, FALSE) /\ configured' = TRUE /\ UNCHANGED <<held, msg, fill, arrived>>
  BY DEF ConfigPipe
<1>2. PICK Q, S, hi, P : Core(Q, S, hi, P)
  BY DEF IInv
<1>3. fill \in [Bufs -> Values]
  BY DEF IInv, TypeInv
<1>4. held = {} /\ S[0] = hi /\ term = Terminator /\ Q[hi] = term /\ hi \in Nat
  BY <1>1, <1>2 DEF Core, Ring
<1>5. /\ c \in Seq(Descs) /\ Len(c) = NumDescs /\ Len(c) >= 1 /\ IsInjective(c)
      /\ \A i \in 1..Len(c) : c[i] # Terminator
  BY DnAssumption DEF Descs, IsInjective, Terminator
<1>6. \A d \in Descs : d = Terminator \/ \E k \in 1..NumDescs : d = c[k]
  <2> TAKE d \in Descs
  <2>1. PICK x \in 0..NumDescs : d = <<NULL, x>>
    BY DEF Descs
  <2>2. CASE x = 0
    BY <2>1, <2>2 DEF Terminator
  <2>3. CASE x # 0
    <3>1. NumDescs + 1 - x \in 1..NumDescs /\ NumDescs + 1 - (NumDescs + 1 - x) = x
      BY DnAssumption, <2>3
    <3> QED BY <2>1, <3>1
  <2> QED BY <2>2, <2>3
<1> HIDE DEF c
<1>7. \A k \in S[0]..hi : Q[k] = Terminator
  BY <1>4
<1>8. hi \in S[0]..hi
  BY <1>4
<1>9. Covered(Q, S[0], hi, c, held')
  BY <1>4, <1>5, <1>6, <1>8, Zenon DEF Covered
<1>10. \A i \in 1..Len(c) : \A k \in S[0]..hi : c[i] # Q[k]
  BY <1>5, <1>7, Zenon
<1>11. held' = {}
  BY <1>1, <1>4
<1>12. /\ held' \subseteq held /\ configured' /\ configured' \in BOOLEAN /\ fill' \in [Bufs -> Values]
       /\ (\A e \in held' : \A i \in 1..Len(e) : \A k \in 1..Len(c) : e[i] # c[k])
       /\ (\A d \in Descs : (\A i \in 1..Len(c) : d # c[i]) => fill'[vd[d]] = fill[vd[d]])
       /\ UNCHANGED <<msg, arrived>>
  BY <1>1, <1>3, <1>11
<1> QED BY <1>1, <1>2, <1>5, <1>9, <1>10, <1>12, PutBeginKeeps, Zenon

(* A VBUF is returned.                                                     *)
LEMMA ReturnKeeps ==
    ASSUME IInv, NEW c \in held, ReturnRecv(c)
    PROVE  /\ IInv'
           /\ \A e \in held' : Contents(e)' = Contents(e)
<1>1. /\ PutBegin(c, FALSE) /\ held' = held \ {c}
      /\ fill' = [b \in Bufs |-> IF b \in ToSet(BufsOf(c)) THEN NULL ELSE fill[b]]
      /\ UNCHANGED <<configured, msg, arrived>> /\ vd' = vd
  BY DEF ReturnRecv, PutBegin
<1>2. PICK Q, S, hi, P : Core(Q, S, hi, P)
  BY DEF IInv
<1>3. TypeInv /\ Carried(vd)
  BY DEF IInv
<1>4. fill \in [Bufs -> Values] /\ vd \in [Descs -> Bufs] /\ configured \in BOOLEAN
  BY <1>3 DEF TypeInv
<1>5. /\ Apart(Q, S[0], hi, P, held) /\ PutOf(P)
      /\ IF configured THEN Covered(Q, S[0], hi, P, held) ELSE held = {}
  BY <1>2 DEF Core
<1>6. c \in Seq(Descs) /\ IsInjective(c) /\ Len(c) >= 1 /\ \A i \in 1..Len(c) : c[i] \in Descs
  BY <1>5 DEF Apart
<1>7. configured /\ Covered(Q, S[0], hi, P, held)
  BY <1>5
<1>8. P \in Seq(Descs) /\ 1..Len(P) = {}
  <2>1. pc = "run" /\ P \in Seq(Descs)
    BY <1>1, <1>5 DEF PutBegin, Apart
  <2>2. ~(Len(P) >= 1)
    BY <1>5, <2>1 DEF PutOf, Putting
  <2> QED BY <2>1, <2>2
<1>9. fill' \in [Bufs -> Values]
  BY <1>1, <1>4 DEF Values
<1>10. \A d \in Descs : (\A i \in 1..Len(c) : d # c[i]) => fill'[vd[d]] = fill[vd[d]]
  <2> SUFFICES ASSUME NEW d \in Descs, \A i \in 1..Len(c) : d # c[i] PROVE fill'[vd[d]] = fill[vd[d]]
    OBVIOUS
  <2>1. vd[d] \in Bufs
    BY <1>4
  <2>2. vd[d] \notin ToSet(BufsOf(c))
    <3>1. DOMAIN c = 1..Len(c)
      BY <1>6
    <3>2. \A b \in ToSet(BufsOf(c)) : \E i \in 1..Len(c) : b = vd[c[i]]
      BY <3>1 DEF ToSet, BufsOf
    <3> QED BY <1>3, <1>6, <3>2, Zenon DEF Carried
  <2> QED BY <1>1, <2>1, <2>2
<1>11. \A i \in 1..Len(c) : \A k \in S[0]..hi : c[i] # Q[k]
  BY <1>5 DEF Apart
<1>12. \A e \in held' : \A i \in 1..Len(e) : \A k \in 1..Len(c) : e[i] # c[k]
  BY <1>1, <1>5 DEF Apart
<1>13. Covered(Q, S[0], hi, c, held')
  <2> SUFFICES ASSUME NEW d \in Descs
               PROVE  \/ \E k \in S[0]..hi : d = Q[k]
                      \/ \E k \in 1..Len(c) : d = c[k]
                      \/ \E e \in held' : \E k \in 1..Len(e) : d = e[k]
    BY Zenon DEF Covered
  <2>1. \/ \E k \in S[0]..hi : d = Q[k]
        \/ \E e \in held : \E k \in 1..Len(e) : d = e[k]
    BY <1>7, <1>8, Zenon DEF Covered
  <2>2. ASSUME NEW e \in held PROVE e = c \/ e \in held'
    BY <1>1
  <2> QED BY <2>1, <2>2, Zenon
<1>14. held' \subseteq held /\ configured' /\ configured' \in BOOLEAN /\ UNCHANGED <<msg, arrived>>
  BY <1>1, <1>4, <1>7
<1>15. IInv' /\ \A e \in held' : ContentsOf(vd, fill', e) = ContentsOf(vd, fill, e)
  BY <1>1, <1>2, <1>6, <1>9, <1>10, <1>11, <1>12, <1>13, <1>14, PutBeginKeeps, Zenon
<1>16. \A e \in held' : Contents(e)' = Contents(e)
  <2> TAKE e \in held'
  <2>1. Contents(e)' = ContentsOf(vd, fill', e) /\ Contents(e) = ContentsOf(vd, fill, e)
    <3>1. vd' = vd
      BY <1>1
    <3> QED BY <3>1, Zenon DEF Contents, ContentsOf
  <2> QED BY <1>15, <2>1
<1> QED BY <1>15, <1>16
----------------------------------------------------------------------------
(* The engine receives a message.                                          *)

(* The number of a message to send is no other's.                          *)
LEMMA SendingFacts ==
    ASSUME IInv, NEW Q, NEW S, NEW hi, NEW P, Core(Q, S, hi, P), NEW m \in Sending
    PROVE  /\ m \in [id : 1..MaxMsgs, len : 1..MaxLen] /\ m # None
           /\ msg # None => m = msg
           /\ Numbered(arrived, held, vd, fill, m)
<1>1. Numbered(arrived, held, vd, fill, msg)
  BY DEF Core
<1>2. arrived \in Seq(Fifo!Messages) /\ (msg = None \/ msg \in [id : 1..MaxMsgs, len : 1..MaxLen])
  BY DEF IInv, TypeInv
<1>3. ASSUME NEW v \in [id : 1..MaxMsgs, len : 1..MaxLen]
      PROVE  v # None
  <2>1. v.id # 0
    BY Bounds
  <2> QED BY <2>1 DEF None
<1>4. CASE msg # None
  <2>1. m = msg
    BY <1>4 DEF Sending
  <2> QED BY <1>1, <1>2, <1>3, <1>4, <2>1
<1>5. CASE msg = None
  <2> DEFINE free == (1..MaxMsgs) \ Around
             x == CHOOSE i \in free : TRUE
  <2>1. free # {} /\ m \in [id : {x}, len : 1..MaxLen]
    BY <1>5, Zenon DEF Sending
  <2>2. x \in free
    BY <2>1, Zenon
  <2> HIDE DEF x
  <2>3. m.id \in 1..MaxMsgs /\ m.id \notin Around /\ m \in [id : 1..MaxMsgs, len : 1..MaxLen]
    BY <2>1, <2>2
  <2>4. ASSUME NEW j \in 1..Len(arrived)
        PROVE  arrived[j][1][1] # m.id
    <3>1. arrived[j] \in ToSet(arrived)
      BY <1>2 DEF ToSet
    <3>2. arrived[j][1][1] \in Around
      BY <3>1, Zenon DEF Around
    <3> QED BY <2>3, <3>2
  <2>5. ASSUME NEW c \in held
        PROVE  ContentsOf(vd, fill, c)[1][1] # m.id
    <3>1. Contents(c)[1][1] \in Around
      BY Zenon DEF Around
    <3>2. Contents(c) = ContentsOf(vd, fill, c)
      BY Zenon DEF Contents, ContentsOf
    <3> QED BY <2>3, <3>1, <3>2
  <2>6. Numbered(arrived, held, vd, fill, m)
    BY <1>1, <2>4, <2>5, Zenon DEF Numbered
  <2> QED BY <1>3, <1>5, <2>3, <2>6
<1> QED BY <1>4, <1>5

(* The engine stands at descriptor k of message m, which it may use.       *)
StandsAt(m, Q, lo, r, k, hi) ==
    /\ k \in Nat /\ r + k < hi /\ hw.cur = Q[r + k] /\ hw.cur \in Descs
    /\ mem[hw.cur].data = vd[hw.cur] /\ mem[hw.cur].next = Q[r + k + 1]
    /\ \A i \in 1..k : hw.got[i] = Q[r + i - 1] /\ fill[vd[Q[r + i - 1]]] = <<m.id, i>>
    /\ \A i \in lo..hi : i # r + k => Q[i] # hw.cur

(* It does so whenever it may use its descriptor.                          *)
LEMMA EngineFacts ==
    ASSUME IInv, NEW Q, NEW S, NEW hi, NEW P, Core(Q, S, hi, P), NEW m \in Sending, HwOwns
    PROVE  StandsAt(m, Q, S[0], S[Len(arrived)], Len(hw.got), hi)
<1> DEFINE r == S[Len(arrived)]
           k == Len(hw.got)
           lo == S[0]
<1>1. lo \in Nat /\ hi \in Nat /\ r \in Nat /\ lo <= r /\ r <= hi
  BY Positions DEF IInv
<1>2. Ring(mem, Q, lo, hi, head, term) /\ Free(mem, vd, Q, r, hi) /\ EngineAt(hw, msg, fill, vd, Q, r, hi)
  BY DEF Core
<1>3. hw.got \in Seq(Descs)
  BY DEF IInv, TypeInv
<1>4. k \in Nat /\ r + k <= hi /\ hw.cur = Q[r + k]
  BY <1>2, <1>3 DEF EngineAt
<1>5. /\ \A i \in 1..k : hw.got[i] = Q[r + i - 1] /\ fill[vd[Q[r + i - 1]]] = <<msg.id, i>>
      /\ IF k = 0 THEN msg = None ELSE msg # None
  BY <1>2 DEF EngineAt
<1>6. mem[hw.cur].own = "HW" /\ mem[Q[hi]].own = "SW"
  BY <1>2 DEF HwOwns, Ring
<1> HIDE DEF r, k, lo
<1>7. r + k < hi
  BY <1>1, <1>4, <1>6
<1>8. r + k \in lo..hi /\ r + k \in lo..(hi - 1) /\ r + k \in r..(hi - 1)
  BY <1>1, <1>4, <1>7
<1>9. hw.cur \in Descs /\ mem[hw.cur].data = vd[hw.cur] /\ mem[hw.cur].next = Q[r + k + 1]
  BY <1>2, <1>4, <1>8 DEF Ring, Free
<1>10. \A i \in lo..hi : i # r + k => Q[i] # hw.cur
  BY <1>2, <1>4, <1>8 DEF Ring
<1>11. \A i \in 1..k : hw.got[i] = Q[r + i - 1] /\ fill[vd[Q[r + i - 1]]] = <<m.id, i>>
  <2>1. CASE k = 0
    BY <2>1
  <2>2. CASE k # 0
    <3>1. m = msg
      BY <1>5, <2>2, SendingFacts
    <3> QED BY <1>5, <3>1
  <2> QED BY <2>1, <2>2
<1> QED BY <1>4, <1>7, <1>9, <1>10, <1>11, Zenon DEF r, k, lo, StandsAt

(* The engine writes into one buffer.                                      *)
LEMMA FillFacts ==
    ASSUME IInv, NEW Q, NEW S, NEW hi, NEW P, Core(Q, S, hi, P), NEW m \in Sending, HwOwns, NEW n \in 1..MaxLen
    PROVE  /\ Filled(m.id, n) \in [Bufs -> Values]
           /\ Filled(m.id, n)[vd[hw.cur]] = <<m.id, n>>
           /\ \A d \in Descs : d # hw.cur => Filled(m.id, n)[vd[d]] = fill[vd[d]]
           /\ \A c \in held : ContentsOf(vd, Filled(m.id, n), c) = ContentsOf(vd, fill, c)
<1> DEFINE b == vd[hw.cur]
           fl == Filled(m.id, n)
           v == <<m.id, n>>
           r == S[Len(arrived)]
           k == Len(hw.got)
           lo == S[0]
<1>1. fill \in [Bufs -> Values] /\ vd \in [Descs -> Bufs] /\ Carried(vd)
  BY DEF IInv, TypeInv
<1>2. lo \in Nat /\ hi \in Nat /\ r \in Nat /\ lo <= r /\ r <= hi
  BY Positions DEF IInv
<1>3. k \in Nat /\ r + k < hi /\ hw.cur = Q[r + k] /\ hw.cur \in Descs /\ mem[hw.cur].data = b
  <2>1. StandsAt(m, Q, lo, r, k, hi)
    BY EngineFacts
  <2> QED BY <2>1 DEF StandsAt
<1>4. v \in Values
  <2>1. m.id \in 1..MaxMsgs
    BY SendingFacts
  <2> QED BY <2>1 DEF Values
<1>5. Apart(Q, lo, hi, P, held)
  BY DEF Core
<1>6. b \in Bufs /\ \A d \in Descs : vd[d] \in Bufs /\ (d # hw.cur => vd[d] # b)
  BY <1>1, <1>3 DEF Carried
<1> HIDE DEF r, k, lo, b, v
<1>7. fl = [fill EXCEPT ![b] = v]
  BY <1>3 DEF Filled, v
<1> HIDE DEF fl
<1>8. fl \in [Bufs -> Values] /\ fl[b] = v /\ \A a \in Bufs : a # b => fl[a] = fill[a]
  BY <1>1, <1>4, <1>6, <1>7
<1>9. \A d \in Descs : d # hw.cur => fl[vd[d]] = fill[vd[d]]
  BY <1>6, <1>8, Zenon
<1>10. ASSUME NEW c \in held
       PROVE  ContentsOf(vd, fl, c) = ContentsOf(vd, fill, c)
  <2>1. c \in Seq(Descs) /\ \A i \in 1..Len(c) : \A j \in lo..hi : c[i] # Q[j]
    BY <1>5 DEF Apart
  <2>2. r + k \in lo..hi
    BY <1>2, <1>3
  <2>3. \A i \in 1..Len(c) : c[i] \in Descs /\ c[i] # hw.cur
    BY <1>3, <2>1, <2>2
  <2>4. \A i \in 1..Len(c) : fl[vd[c[i]]] = fill[vd[c[i]]]
    BY <1>9, <2>3, Zenon
  <2> QED BY <2>1, <2>4, ContentsSame
<1> QED BY <1>8, <1>9, <1>10 DEF b, v, fl

(* The engine fills a buffer in the middle of a message.                   *)
LEMMA FillKeeps ==
    ASSUME IInv, NEW m \in Sending, HwFill(m)
    PROVE  /\ IInv'
           /\ \A c \in held : Contents(c)' = Contents(c)
<1> DEFINE n == Len(hw.got) + 1
           fl == Filled(m.id, n)
<1>1. /\ n < m.len /\ HwOwns /\ hw' = [hw EXCEPT !.cur = mem[hw.cur].next, !.got = Append(@, hw.cur)]
      /\ fill' = fl /\ msg' = m
      /\ UNCHANGED <<mem, vd, head, term, pc, put, isr, intr, configured, held, arrived>>
  BY DEF HwFill, HwFetch
<1>2. PICK Q, S, hi, P : Core(Q, S, hi, P)
  BY DEF IInv
<1> DEFINE r == S[Len(arrived)]
           k == Len(hw.got)
           lo == S[0]
           g == Append(hw.got, hw.cur)
<1>3. TypeInv /\ Carried(vd) /\ hw \in [cur : Descs, got : Seq(Descs), start : BOOLEAN]
  BY DEF IInv, TypeInv
<1>4. lo \in Nat /\ hi \in Nat /\ r \in Nat /\ lo <= r /\ r <= hi
  BY <1>2, <1>3, Positions
<1>5. /\ k \in Nat /\ r + k < hi /\ hw.cur = Q[r + k] /\ hw.cur \in Descs
      /\ mem[hw.cur].data = vd[hw.cur] /\ mem[hw.cur].next = Q[r + k + 1]
      /\ \A i \in 1..k : hw.got[i] = Q[r + i - 1] /\ fill[vd[Q[r + i - 1]]] = <<m.id, i>>
      /\ \A i \in lo..hi : i # r + k => Q[i] # hw.cur
  <2>1. StandsAt(m, Q, lo, r, k, hi)
    BY <1>1, <1>2, EngineFacts
  <2> QED BY <2>1, Zenon DEF StandsAt
<1>6. /\ m \in [id : 1..MaxMsgs, len : 1..MaxLen] /\ m # None /\ Numbered(arrived, held, vd, fill, m)
  BY <1>2, SendingFacts
<1>7. n \in 1..MaxLen
  BY <1>1, <1>5, <1>6, Bounds
<1>8. /\ fl \in [Bufs -> Values] /\ fl[vd[hw.cur]] = <<m.id, n>>
      /\ \A d \in Descs : d # hw.cur => fl[vd[d]] = fill[vd[d]]
      /\ \A c \in held : ContentsOf(vd, fl, c) = ContentsOf(vd, fill, c)
  <2> HIDE DEF n
  <2> QED BY <1>1, <1>2, <1>7, FillFacts
<1>9. /\ Ring(mem, Q, lo, hi, head, term) /\ Free(mem, vd, Q, r, hi) /\ Apart(Q, lo, hi, P, held) /\ PutOf(P)
  BY <1>2 DEF Core
<1>10. /\ g \in Seq(Descs) /\ Len(g) = k + 1 /\ g[k + 1] = hw.cur /\ \A i \in 1..k : g[i] = hw.got[i]
  BY <1>3, <1>5
<1>11. r + k + 1 \in lo..hi /\ Q[r + k + 1] \in Descs
  <2>1. r + k + 1 \in lo..hi
    BY <1>4, <1>5
  <2> QED BY <1>9, <2>1 DEF Ring
<1> HIDE DEF fl, g
<1>12. /\ hw' \in [cur : Descs, got : Seq(Descs), start : BOOLEAN] /\ hw'.cur = Q[r + k + 1] /\ hw'.got = g
  BY <1>1, <1>3, <1>5, <1>10, <1>11 DEF g
<1>13. TypeInv' /\ Carried(vd)'
  BY <1>1, <1>3, <1>6, <1>8, <1>12 DEF TypeInv
<1> HIDE DEF r, k, lo
<1>14. \A i \in lo..hi : Q[i] \in Descs
  BY <1>9 DEF Ring
<1>15. Received(mem, vd, fl, Q, S, arrived)
  <2>1. \A i \in lo..(r - 1) : i \in lo..hi /\ i # r + k
    BY <1>4, <1>5
  <2>2. \A i \in lo..(r - 1) : Q[i] = Q[i] /\ mem[Q[i]] = mem[Q[i]] /\ fl[vd[Q[i]]] = fill[vd[Q[i]]]
    BY <1>5, <1>8, <1>14, <2>1, Zenon
  <2> QED BY <1>2, <1>3, <2>2, ReceivedSame, Zenon DEF lo, r
<1>16. EngineAt(hw', m, fl, vd, Q, r, hi)
  <2>1. ASSUME NEW i \in 1..(k + 1)
        PROVE  g[i] = Q[r + i - 1] /\ fl[vd[Q[r + i - 1]]] = <<m.id, i>>
    <3>1. CASE i = k + 1
      <4>1. r + i - 1 = r + k /\ n = i
        BY <1>4, <1>5, <3>1 DEF k
      <4> HIDE DEF n
      <4> QED BY <1>5, <1>8, <1>10, <3>1, <4>1
    <3>2. CASE i # k + 1
      <4>1. i \in 1..k /\ r + i - 1 \in lo..hi /\ r + i - 1 # r + k
        BY <1>4, <1>5, <3>2
      <4> DEFINE x == Q[r + i - 1]
      <4>2. hw.got[i] = x /\ fill[vd[x]] = <<m.id, i>> /\ x \in Descs /\ x # hw.cur
        BY <1>5, <1>14, <4>1
      <4> HIDE DEF x
      <4>3. g[i] = x /\ fl[vd[x]] = <<m.id, i>>
        BY <1>8, <1>10, <4>1, <4>2
      <4> QED BY <4>3 DEF x
    <3> QED BY <3>1, <3>2
  <2>2. m.len > k + 1
    BY <1>1, <1>5, <1>6 DEF k
  <2>3. r + (k + 1) <= hi /\ k + 1 # 0 /\ r + (k + 1) = r + k + 1
    BY <1>4, <1>5
  <2>4. Len(hw'.got) = k + 1 /\ hw'.got = g
    BY <1>10, <1>12
  <2>5. r + Len(hw'.got) <= hi /\ hw'.cur = Q[r + Len(hw'.got)]
    BY <1>12, <2>3, <2>4, Zenon
  <2>6. \A i \in 1..Len(hw'.got) : hw'.got[i] = Q[r + i - 1] /\ fl[vd[Q[r + i - 1]]] = <<m.id, i>>
    BY <2>1, <2>4, Zenon
  <2>7. Len(hw'.got) # 0 /\ m.len > Len(hw'.got)
    BY <2>2, <2>3, <2>4, Zenon
  <2> QED BY <1>6, <2>5, <2>6, <2>7, Zenon DEF EngineAt
<1>17. Numbered(arrived, held, vd, fl, m)
  BY <1>6, <1>8, NumberedSame
<1>18. PutOf(P)'
  BY <1>1, <1>9 DEF PutOf, Putting, Swapped
<1>19. Core(Q, S, hi, P)'
  BY <1>1, <1>2, <1>9, <1>15, <1>16, <1>17, <1>18 DEF Core, lo, r
<1>20. \A c \in held : Contents(c)' = Contents(c)
  <2> TAKE c \in held
  <2>1. vd' = vd /\ fill' = fl
    BY <1>1
  <2>2. Contents(c)' = ContentsOf(vd, fl, c) /\ Contents(c) = ContentsOf(vd, fill, c)
    BY <2>1, Zenon DEF Contents, ContentsOf
  <2> QED BY <1>8, <2>2
<1> QED BY <1>13, <1>19, <1>20 DEF IInv

(* The engine gives the descriptors G and c of a message back, the last    *)
(* marked and its address in the first.                                    *)
Back(m, G, c, f) ==
    [d \in DOMAIN m |-> IF d \in G \cup {c}
                        THEN [[[m EXCEPT ![c].ls = TRUE] EXCEPT ![f].last = c][d] EXCEPT !.own = "SW"]
                        ELSE m[d]]

(* What the descriptors hold then.                                         *)
GivenBack(m, G, c, f, g) ==
    /\ g \in [Descs -> HwDescs(Descs, Bufs)]
    /\ \A d \in Descs : d \notin G /\ d # c => g[d] = m[d]
    /\ \A d \in Descs : d \in G \/ d = c => g[d].own = "SW" /\ g[d].next = m[d].next
    /\ g[c].ls = TRUE
    /\ \A d \in Descs : d \in G /\ d # c => g[d].ls = m[d].ls
    /\ g[f].last = c

(* HwFinish with what HwReceive writes.                                    *)
LEMMA BackFacts ==
    ASSUME NEW m \in [Descs -> HwDescs(Descs, Bufs)], NEW G, NEW c \in Descs, NEW f \in Descs, f \in G \/ f = c
    PROVE  GivenBack(m, G, c, f, Back(m, G, c, f))
<1> DEFINE x == [m[c] EXCEPT !.ls = TRUE]
           u == [m EXCEPT ![c].ls = TRUE]
           y == [u[f] EXCEPT !.last = c]
           v == [u EXCEPT ![f].last = c]
           g == Back(m, G, c, f)
<1>1. /\ x \in HwDescs(Descs, Bufs) /\ x.ls = TRUE /\ x.next = m[c].next
  BY DEF HwDescs
<1>2. u = [m EXCEPT ![c] = x]
  BY Zenon
<1> HIDE DEF x, u
<1>3. u \in [Descs -> HwDescs(Descs, Bufs)] /\ u[c] = x /\ \A d \in Descs : d # c => u[d] = m[d]
  BY <1>1, <1>2
<1>4. u[c].ls = TRUE /\ \A d \in Descs : u[d].next = m[d].next /\ (d # c => u[d].ls = m[d].ls)
  BY <1>1, <1>3
<1>5. y \in HwDescs(Descs, Bufs) /\ y.ls = u[f].ls /\ y.next = u[f].next /\ y.last = c
  BY <1>3 DEF HwDescs
<1>6. v = [u EXCEPT ![f] = y]
  BY Zenon
<1> HIDE DEF y, v
<1>7. v \in [Descs -> HwDescs(Descs, Bufs)] /\ v[f] = y /\ \A d \in Descs : d # f => v[d] = u[d]
  BY <1>3, <1>5, <1>6
<1>8. v[f].last = c /\ \A d \in Descs : v[d].next = u[d].next /\ v[d].ls = u[d].ls
  BY <1>5, <1>7
<1>9. g = [d \in Descs |-> IF d \in G \cup {c} THEN [v[d] EXCEPT !.own = "SW"] ELSE m[d]]
  <2>1. DOMAIN m = Descs
    OBVIOUS
  <2> QED BY <2>1, Zenon DEF Back, v, u
<1> HIDE DEF g
<1>10. ASSUME NEW d \in Descs, d \in G \/ d = c
       PROVE  /\ g[d] \in HwDescs(Descs, Bufs) /\ g[d].own = "SW" /\ g[d].next = v[d].next /\ g[d].ls = v[d].ls
              /\ g[d].last = v[d].last
  <2>1. g[d] = [v[d] EXCEPT !.own = "SW"]
    BY <1>9, <1>10
  <2>2. v[d] \in HwDescs(Descs, Bufs)
    BY <1>7
  <2> DEFINE a == v[d]
  <2> HIDE DEF a
  <2>3. g[d] = [a EXCEPT !.own = "SW"] /\ a \in HwDescs(Descs, Bufs)
    BY <2>1, <2>2 DEF a
  <2>4. /\ g[d] \in HwDescs(Descs, Bufs) /\ g[d].own = "SW" /\ g[d].next = a.next /\ g[d].ls = a.ls /\ g[d].last = a.last
    BY <2>3 DEF HwDescs, Owners
  <2> QED BY <2>4 DEF a
<1>11. \A d \in Descs : d \notin G /\ d # c => g[d] = m[d]
  BY <1>9
<1>12. g \in [Descs -> HwDescs(Descs, Bufs)]
  <2>1. \A d \in Descs : g[d] \in HwDescs(Descs, Bufs)
    BY <1>10, <1>11
  <2> QED BY <1>9, <2>1
<1>13. \A d \in Descs : d \in G \/ d = c => g[d].own = "SW" /\ g[d].next = m[d].next
  BY <1>4, <1>8, <1>10
<1>14. g[c].ls = TRUE
  BY <1>4, <1>8, <1>10
<1>15. \A d \in Descs : d \in G /\ d # c => g[d].ls = m[d].ls
  <2> SUFFICES ASSUME NEW d \in Descs, d \in G, d # c PROVE g[d].ls = m[d].ls
    BY Zenon
  <2>1. g[d].ls = v[d].ls
    BY <1>10, Zenon
  <2> QED BY <1>4, <1>8, <2>1
<1>16. g[f].last = c
  BY <1>8, <1>10
<1>17. GivenBack(m, G, c, f, g)
  BY <1>11, <1>12, <1>13, <1>14, <1>15, <1>16, Zenon DEF GivenBack
<1> QED BY <1>17 DEF g

(* The engine fills the last buffer of a message.                          *)
LEMMA ReceiveKeeps ==
    ASSUME IInv, NEW m \in Sending, HwReceive(m)
    PROVE  /\ IInv'
           /\ \A c \in held : Contents(c)' = Contents(c)
           /\ Message(m) \in Fifo!Messages
<1> DEFINE fl == Filled(m.id, m.len)
           first == Head(Append(hw.got, hw.cur))
           G == ToSet(hw.got)
           s == Message(m)
<1>1. /\ Len(hw.got) + 1 = m.len /\ HwOwns /\ mem' = Back(mem, G, hw.cur, first)
      /\ hw' = [hw EXCEPT !.cur = mem[hw.cur].next, !.got = << >>] /\ intr' = TRUE
      /\ fill' = fl /\ msg' = None /\ arrived' = Append(arrived, s)
      /\ UNCHANGED <<vd, head, term, pc, put, isr, configured, held>>
  BY Zenon DEF HwReceive, HwFinish, Back
<1>2. PICK Q, S, hi, P : Core(Q, S, hi, P)
  BY DEF IInv
<1> DEFINE a == Len(arrived)
           r == S[a]
           k == Len(hw.got)
           lo == S[0]
           T == [j \in Nat |-> IF j <= a THEN S[j] ELSE r + k + 1]
<1>3. TypeInv /\ Carried(vd) /\ hw \in [cur : Descs, got : Seq(Descs), start : BOOLEAN]
  BY DEF IInv, TypeInv
<1>4. lo \in Nat /\ hi \in Nat /\ r \in Nat /\ lo <= r /\ r <= hi /\ a \in Nat
  BY <1>2, <1>3, Positions
<1>5. /\ k \in Nat /\ r + k < hi /\ hw.cur = Q[r + k] /\ hw.cur \in Descs
      /\ mem[hw.cur].data = vd[hw.cur] /\ mem[hw.cur].next = Q[r + k + 1]
      /\ \A i \in 1..k : hw.got[i] = Q[r + i - 1] /\ fill[vd[Q[r + i - 1]]] = <<m.id, i>>
      /\ \A i \in lo..hi : i # r + k => Q[i] # hw.cur
  <2>1. StandsAt(m, Q, lo, r, k, hi)
    BY <1>1, <1>2, EngineFacts
  <2> QED BY <2>1, Zenon DEF StandsAt
<1>6. /\ m \in [id : 1..MaxMsgs, len : 1..MaxLen] /\ m # None /\ Numbered(arrived, held, vd, fill, m)
  BY <1>2, SendingFacts
<1>7. m.len = k + 1 /\ m.len \in 1..MaxLen /\ m.id \in 1..MaxMsgs
  BY <1>1, <1>6
<1>8. /\ fl \in [Bufs -> Values] /\ fl[vd[hw.cur]] = <<m.id, m.len>>
      /\ \A d \in Descs : d # hw.cur => fl[vd[d]] = fill[vd[d]]
      /\ \A c \in held : ContentsOf(vd, fl, c) = ContentsOf(vd, fill, c)
  BY <1>1, <1>2, <1>7, FillFacts
<1>9. /\ Ring(mem, Q, lo, hi, head, term) /\ Free(mem, vd, Q, r, hi) /\ Apart(Q, lo, hi, P, held) /\ PutOf(P)
      /\ Received(mem, vd, fill, Q, S, arrived)
      /\ IF configured THEN Covered(Q, lo, hi, P, held) ELSE held = {} /\ lo = hi /\ P = << >> /\ term = Terminator
  BY <1>2 DEF Core
<1>10. /\ s \in Fifo!Messages /\ Len(s) = k + 1 /\ s[1][1] = m.id /\ \A i \in 1..(k + 1) : s[i] = <<m.id, i>>
  <2>1. s = [i \in 1..m.len |-> <<m.id, i>>]
    BY DEF Message
  <2>2. s \in Fifo!Messages
    <3>1. \E x \in 1..MaxMsgs, y \in 1..MaxLen : s = [i \in 1..y |-> <<x, i>>]
      BY <1>7, <2>1, Zenon
    <3> QED BY <3>1 DEF Fifo!Messages
  <2> HIDE DEF s
  <2>3. Len(s) = m.len /\ 1 \in 1..m.len
    BY <1>7, <2>1
  <2> QED BY <1>7, <2>1, <2>2, <2>3
<1> HIDE DEF fl, s, r, k, lo, a
<1>11. /\ \A i \in lo..hi : Q[i] \in Descs
       /\ \A i, j \in lo..hi : Q[i] = Q[j] => i = j
       /\ \A i \in lo..(hi - 1) : mem[Q[i]].next = Q[i + 1]
       /\ head = Q[lo] /\ term = Q[hi] /\ mem[term].own = "SW"
  BY <1>9 DEF Ring
<1>12. r + k + 1 \in lo..hi /\ r + k \in lo..hi /\ Q[r + k + 1] \in Descs /\ hi \in lo..hi
  <2>1. r + k + 1 \in lo..hi /\ r + k \in lo..hi /\ hi \in lo..hi
    BY <1>4, <1>5
  <2> QED BY <1>11, <2>1
<1>13. \A d : d \in G <=> \E i \in 1..k : d = hw.got[i]
  BY <1>3 DEF ToSet, k
<1>14. \A i \in lo..hi : (Q[i] \in G \/ Q[i] = hw.cur) <=> i \in r..(r + k)
  <2> TAKE i \in lo..hi
  <2>1. ASSUME Q[i] \in G PROVE i \in r..(r + k)
    <3>1. PICK j \in 1..k : Q[i] = hw.got[j]
      BY <1>13, <2>1
    <3>2. Q[i] = Q[r + j - 1] /\ r + j - 1 \in lo..hi /\ r + j - 1 \in r..(r + k)
      BY <1>4, <1>5, <3>1
    <3> QED BY <1>11, <3>2
  <2>2. ASSUME Q[i] = hw.cur PROVE i \in r..(r + k)
    <3>1. i = r + k
      BY <1>5, <2>2
    <3> QED BY <1>4, <1>5, <3>1
  <2>3. ASSUME i \in r..(r + k) PROVE Q[i] \in G \/ Q[i] = hw.cur
    <3>1. CASE i = r + k
      BY <1>5, <3>1
    <3>2. CASE i # r + k
      <4> DEFINE j == i - r + 1
      <4>1. j \in 1..k /\ r + j - 1 = i
        BY <1>4, <1>5, <2>3, <3>2
      <4>2. hw.got[j] = Q[i]
        BY <1>5, <4>1
      <4> QED BY <1>13, <4>1, <4>2
    <3> QED BY <3>1, <3>2
  <2> QED BY <2>1, <2>2, <2>3
<1>15. first = Q[r] /\ first \in Descs /\ (first \in G \/ first = hw.cur)
  <2>1. r \in lo..hi /\ r \in r..(r + k)
    BY <1>4, <1>5
  <2>2. first = Q[r]
    <3>1. CASE k = 0
      <4>1. first = hw.cur
        BY <1>3, <3>1 DEF k
      <4> QED BY <1>4, <1>5, <3>1, <4>1
    <3>2. CASE k # 0
      <4>1. first = hw.got[1] /\ 1 \in 1..k
        BY <1>3, <1>5, <3>2 DEF k
      <4>2. r + 1 - 1 = r
        BY <1>4
      <4> QED BY <1>5, <4>1, <4>2
    <3> QED BY <3>1, <3>2
  <2> HIDE DEF first, G
  <2> QED BY <1>11, <1>14, <2>1, <2>2, Zenon
<1> HIDE DEF first, G
<1>16. GivenBack(mem, G, hw.cur, first, mem')
  <2>1. mem \in [Descs -> HwDescs(Descs, Bufs)]
    BY <1>3 DEF TypeInv
  <2> QED BY <1>1, <1>5, <1>15, <2>1, BackFacts
<1>17. /\ mem' \in [Descs -> HwDescs(Descs, Bufs)]
       /\ \A d \in Descs : d \notin G /\ d # hw.cur => mem'[d] = mem[d]
       /\ \A d \in Descs : d \in G \/ d = hw.cur => mem'[d].own = "SW" /\ mem'[d].next = mem[d].next
       /\ mem'[hw.cur].ls = TRUE /\ mem'[Q[r]].last = hw.cur
       /\ \A d \in Descs : d \in G /\ d # hw.cur => mem'[d].ls = mem[d].ls
  BY <1>15, <1>16, Zenon DEF GivenBack
<1>18. \A i \in lo..hi : i \notin r..(r + k) => mem'[Q[i]] = mem[Q[i]]
  BY <1>11, <1>14, <1>17, Zenon
<1>19. ASSUME NEW i \in r..(r + k)
       PROVE  /\ i \in lo..(hi - 1) /\ mem'[Q[i]].own = "SW" /\ mem'[Q[i]].next = Q[i + 1]
              /\ (mem'[Q[i]].ls <=> i = r + k) /\ fl[vd[Q[i]]] = <<m.id, i - r + 1>>
  <2>1. i \in lo..hi /\ i \in lo..(hi - 1) /\ i \in r..(hi - 1)
    BY <1>4, <1>5
  <2>2. Q[i] \in Descs /\ (Q[i] \in G \/ Q[i] = hw.cur)
    BY <1>11, <1>14, <2>1, Zenon
  <2>3. mem'[Q[i]].own = "SW" /\ mem'[Q[i]].next = Q[i + 1]
    BY <1>11, <1>17, <2>1, <2>2
  <2>4. CASE i = r + k
    <3>1. i - r + 1 = k + 1
      BY <1>4, <1>5, <2>4
    <3> QED BY <1>5, <1>7, <1>8, <1>17, <2>1, <2>3, <2>4, <3>1
  <2>5. CASE i # r + k
    <3>1. Q[i] # hw.cur
      BY <1>5, <2>1, <2>5
    <3>2. mem'[Q[i]].ls = mem[Q[i]].ls
      BY <1>17, <2>2, <3>1, Zenon
    <3>3. mem[Q[i]].ls = FALSE
      BY <1>9, <2>1, Zenon DEF Free
    <3> DEFINE j == i - r + 1
    <3>4. j \in 1..k /\ r + j - 1 = i
      BY <1>4, <1>5, <2>5
    <3> HIDE DEF j
    <3>5. fill[vd[Q[i]]] = <<m.id, j>>
      BY <1>5, <3>4
    <3>6. fl[vd[Q[i]]] = <<m.id, j>>
      BY <1>8, <2>2, <3>1, <3>5
    <3> QED BY <2>1, <2>3, <2>5, <3>2, <3>3, <3>6 DEF j
  <2> QED BY <2>4, <2>5
<1>20. Ring(mem', Q, lo, hi, head, term)
  <2>1. hi \notin r..(r + k)
    BY <1>4, <1>5
  <2>2. mem'[term].own = "SW"
    BY <1>11, <1>12, <1>18, <2>1, Zenon
  <2>3. ASSUME NEW i \in lo..(hi - 1)
        PROVE  mem'[Q[i]].next = Q[i + 1]
    <3>1. CASE i \in r..(r + k)
      BY <1>19, <3>1
    <3>2. CASE i \notin r..(r + k)
      <4>1. i \in lo..hi
        BY <1>4
      <4> QED BY <1>11, <1>18, <3>2, <4>1
    <3> QED BY <3>1, <3>2
  <2> QED BY <1>11, <2>2, <2>3, Zenon DEF Ring
<1>21. Free(mem', vd, Q, r + k + 1, hi)
  <2>1. ASSUME NEW i \in (r + k + 1)..(hi - 1)
        PROVE  mem'[Q[i]].own = "HW" /\ mem'[Q[i]].ls = FALSE /\ mem'[Q[i]].data = vd[Q[i]]
    <3>1. i \in lo..hi /\ i \notin r..(r + k) /\ i \in r..(hi - 1)
      BY <1>4, <1>5
    <3>2. mem'[Q[i]] = mem[Q[i]]
      BY <1>18, <3>1
    <3> QED BY <1>9, <3>1, <3>2, Zenon DEF Free
  <2> QED BY <2>1, Zenon DEF Free
<1>22. Received(mem', vd, fl, Q, T, arrived')
  <2>1. \A i \in lo..(r - 1) : i \in lo..hi /\ i # r + k /\ i \notin r..(r + k)
    BY <1>4, <1>5
  <2>2. \A i \in lo..(r - 1) : Q[i] = Q[i] /\ mem'[Q[i]] = mem[Q[i]] /\ fl[vd[Q[i]]] = fill[vd[Q[i]]]
    BY <1>5, <1>8, <1>11, <1>18, <2>1, Zenon
  <2>3. Received(mem', vd, fl, Q, S, arrived)
    BY <1>2, <1>3, <2>2, ReceivedSame, Zenon DEF lo, r, a
  <2>4. /\ \A j \in 0..a : S[j] \in Nat
        /\ \A i, j \in 0..a : i < j => S[i] < S[j]
        /\ \A j \in 1..a : MessageAt(mem', vd, fl, Q, S[j - 1], S[j], arrived[j])
    BY <2>3 DEF Received, a
  <2>5. /\ \A j \in 0..a : T[j] = S[j]
        /\ T[a + 1] = r + k + 1 /\ r + k + 1 \in Nat
    BY <1>4, <1>5
  <2>6. Len(arrived') = a + 1 /\ arrived'[a + 1] = s /\ \A j \in 1..a : arrived'[j] = arrived[j]
    <3>1. arrived \in Seq(Fifo!Messages)
      BY <1>3 DEF TypeInv
    <3> QED BY <1>1, <3>1 DEF a
  <2>7. \A j \in 0..a : S[j] <= r
    <3> TAKE j \in 0..a
    <3>1. a \in 0..a
      BY <1>4
    <3>2. CASE j = a
      BY <1>4, <3>2 DEF r
    <3>3. CASE j < a
      <4>1. S[j] < S[a] /\ S[j] \in Nat
        BY <2>4, <3>1, <3>3
      <4> QED BY <1>4, <4>1 DEF r
    <3> QED BY <1>4, <3>2, <3>3
  <2> HIDE DEF T
  <2>8. \A j \in 0..(a + 1) : T[j] \in Nat
    <3> TAKE j \in 0..(a + 1)
    <3>1. j \in 0..a \/ j = a + 1
      BY <1>4
    <3> QED BY <2>4, <2>5, <3>1
  <2>9. ASSUME NEW i \in 0..(a + 1), NEW j \in 0..(a + 1), i < j
        PROVE  T[i] < T[j]
    <3>1. i \in 0..a /\ (j \in 0..a \/ j = a + 1)
      BY <1>4, <2>9
    <3>2. CASE j \in 0..a
      BY <2>4, <2>5, <2>9, <3>1, <3>2
    <3>3. CASE j = a + 1
      <4>1. T[i] <= r /\ T[i] \in Nat /\ T[j] = r + k + 1
        BY <2>4, <2>5, <2>7, <3>1, <3>3
      <4> QED BY <1>4, <1>5, <4>1
    <3> QED BY <3>1, <3>2, <3>3
  <2>10. MessageAt(mem', vd, fl, Q, r, r + k + 1, s)
    <3>1. r + k + 1 = r + Len(s) /\ (r + k + 1) - 1 = r + k
      BY <1>4, <1>5, <1>10
    <3>2. mem'[Q[r]].last = Q[(r + k + 1) - 1]
      BY <1>5, <1>17, <3>1
    <3>3. ASSUME NEW i \in r..((r + k + 1) - 1)
          PROVE  /\ mem'[Q[i]].own = "SW" /\ (mem'[Q[i]].ls <=> i = (r + k + 1) - 1)
                 /\ fl[vd[Q[i]]] = s[i - r + 1]
      <4>1. i \in r..(r + k)
        BY <3>1
      <4>2. i - r + 1 \in 1..(k + 1)
        BY <1>4, <1>5, <4>1
      <4>3. s[i - r + 1] = <<m.id, i - r + 1>>
        BY <1>10, <4>2
      <4> QED BY <1>19, <3>1, <4>1, <4>3, Zenon
    <3> QED BY <3>1, <3>2, <3>3, Zenon DEF MessageAt
  <2>11. ASSUME NEW j \in 1..(a + 1)
         PROVE  MessageAt(mem', vd, fl, Q, T[j - 1], T[j], arrived'[j])
    <3>1. CASE j = a + 1
      <4>1. j - 1 = a /\ a \in 0..a
        BY <1>4, <3>1
      <4>2. T[j - 1] = r /\ T[j] = r + k + 1 /\ arrived'[j] = s
        BY <2>5, <2>6, <3>1, <4>1 DEF r
      <4> QED BY <2>10, <4>2
    <3>2. CASE j # a + 1
      <4>1. j \in 1..a /\ j \in 0..a /\ j - 1 \in 0..a
        BY <1>4, <3>2
      <4> QED BY <2>4, <2>5, <2>6, <4>1
    <3> QED BY <3>1, <3>2
  <2> QED BY <2>6, <2>8, <2>9, <2>11, Zenon DEF Received
<1>23. Len(arrived') = a + 1 /\ T[a + 1] = r + k + 1 /\ T[0] = lo
       /\ arrived' \in Seq(Fifo!Messages) /\ arrived'[a + 1] = s /\ \A j \in 1..a : arrived'[j] = arrived[j]
  <2>1. arrived \in Seq(Fifo!Messages)
    BY <1>3 DEF TypeInv
  <2> QED BY <1>1, <1>4, <1>10, <2>1 DEF a, lo
<1> HIDE DEF T
<1>24. hw'.cur = Q[r + k + 1] /\ Len(hw'.got) = 0 /\ hw' \in [cur : Descs, got : Seq(Descs), start : BOOLEAN]
  <2> DEFINE z == << >>
  <2>1. z \in Seq(Descs) /\ Len(z) = 0
    OBVIOUS
  <2> HIDE DEF z
  <2>2. hw' = [hw EXCEPT !.cur = mem[hw.cur].next, !.got = z]
    BY <1>1 DEF z
  <2> QED BY <1>3, <1>5, <1>12, <2>1, <2>2
<1>25. EngineAt(hw', None, fl, vd, Q, r + k + 1, hi)
  <2>1. 1..0 = {} /\ r + k + 1 <= hi /\ r + k + 1 + 0 = r + k + 1
    BY <1>4, <1>5
  <2> QED BY <1>24, <2>1 DEF EngineAt
<1>26. Numbered(arrived', held, vd, fl, None)
  <2>1. Numbered(arrived, held, vd, fl, m)
    BY <1>6, <1>8, NumberedSame
  <2>2. \A j \in 1..(a + 1) : j \in 1..a \/ j = a + 1
    BY <1>4
  <2>3. /\ \A c \in held : ContentsOf(vd, fl, c) \in Fifo!Messages
        /\ \A i, j \in 1..a : arrived[i][1][1] = arrived[j][1][1] => i = j
        /\ \A c, e \in held : ContentsOf(vd, fl, c)[1][1] = ContentsOf(vd, fl, e)[1][1] => c = e
        /\ \A c \in held : \A j \in 1..a : arrived[j][1][1] # ContentsOf(vd, fl, c)[1][1]
        /\ \A j \in 1..a : arrived[j][1][1] # m.id
        /\ \A c \in held : ContentsOf(vd, fl, c)[1][1] # m.id
    BY <1>6, <2>1, Zenon DEF Numbered, a
  <2>4. ASSUME NEW i \in 1..(a + 1), NEW j \in 1..(a + 1), arrived'[i][1][1] = arrived'[j][1][1]
        PROVE  i = j
    BY <1>10, <1>23, <2>2, <2>3, <2>4, SMT
  <2>5. ASSUME NEW c \in held, NEW j \in 1..(a + 1)
        PROVE  arrived'[j][1][1] # ContentsOf(vd, fl, c)[1][1]
    BY <1>10, <1>23, <2>2, <2>3, SMT
  <2> QED BY <1>23, <2>3, <2>4, <2>5, Zenon DEF Numbered
<1>27. PutOf(P)'
  <2>1. \A i \in 1..Len(P) : P[i] \in Descs /\ \A j \in lo..hi : P[i] # Q[j]
    BY <1>9 DEF Apart
  <2>2. \A i \in 1..k : r + i - 1 \in lo..hi
    BY <1>4, <1>5
  <2>3. \A i \in 1..Len(P) : P[i] \notin G /\ P[i] # hw.cur
    <3> TAKE i \in 1..Len(P)
    <3>1. ASSUME P[i] \in G PROVE FALSE
      <4>1. PICK j \in 1..k : P[i] = hw.got[j]
        BY <1>13, <3>1
      <4>2. P[i] = Q[r + j - 1]
        BY <1>5, <4>1
      <4> QED BY <2>1, <2>2, <4>2, Zenon
    <3>2. P[i] # hw.cur
      BY <1>5, <1>12, <2>1, SMT
    <3> QED BY <3>1, <3>2
  <2>4. \A i \in 1..Len(P) : mem'[P[i]] = mem[P[i]]
    BY <1>17, <2>1, <2>3, Zenon
  <2>5. mem'[term] = mem[term]
    <3>1. hi \notin r..(r + k)
      BY <1>4, <1>5
    <3> QED BY <1>11, <1>12, <1>18, <3>1, Zenon
  <2>6. P \in Seq(Descs) /\ (Putting => 1 \in 1..Len(P)) /\ \A i \in 2..Len(P) : i \in 1..Len(P)
    BY <1>9 DEF Apart, PutOf
  <2>7. ASSUME LinkedPut(mem, vd, put, P)
        PROVE  LinkedPut(mem', vd, put, P)
    BY <2>4, <2>7, Zenon DEF LinkedPut
  <2>8. ASSUME SwappedPut(mem, vd, put, P, term), 1 \in 1..Len(P)
        PROVE  SwappedPut(mem', vd, put, P, term)
    BY <2>4, <2>6, <2>8, Zenon DEF SwappedPut
  <2> QED BY <1>1, <1>9, <2>5, <2>6, <2>7, <2>8 DEF PutOf, Putting, Swapped
<1>28. TypeInv' /\ Carried(vd)'
  BY <1>1, <1>3, <1>8, <1>17, <1>23, <1>24 DEF TypeInv
<1>29. r + k + 1 <= hi
  BY <1>4, <1>5
<1>32. PICK U : U = T
  OBVIOUS
<1>30. Core(Q, U, hi, P)'
  <2>1. /\ vd' = vd /\ head' = head /\ term' = term /\ configured' = configured /\ held' = held
        /\ msg' = None /\ fill' = fl /\ U[0] = lo /\ U[Len(arrived')] = r + k + 1
    BY <1>1, <1>23, <1>32
  <2>2. /\ Ring(mem', Q, U[0], hi, head', term') /\ Received(mem', vd', fill', Q, U, arrived')
        /\ Free(mem', vd', Q, U[Len(arrived')], hi)
        /\ EngineAt(hw', msg', fill', vd', Q, U[Len(arrived')], hi)
        /\ Apart(Q, U[0], hi, P, held') /\ Numbered(arrived', held', vd', fill', msg')
    BY <1>9, <1>20, <1>21, <1>22, <1>25, <1>26, <1>32, <2>1, Zenon
  <2>3. IF configured' THEN Covered(Q, U[0], hi, P, held')
        ELSE held' = {} /\ U[0] = hi /\ P = << >> /\ term' = Terminator
    BY <1>9, <2>1, Zenon
  <2>4. hi \in Nat /\ U[Len(arrived')] <= hi
    BY <1>4, <1>29, <2>1
  <2> QED BY <1>27, <2>2, <2>3, <2>4, Zenon DEF Core
<1>31. \A c \in held : Contents(c)' = Contents(c)
  <2> TAKE c \in held
  <2>1. vd' = vd /\ fill' = fl
    BY <1>1
  <2>2. Contents(c)' = ContentsOf(vd, fl, c) /\ Contents(c) = ContentsOf(vd, fill, c)
    BY <2>1, Zenon DEF Contents, ContentsOf
  <2> QED BY <1>8, <2>2
<1> QED BY <1>10, <1>28, <1>30, <1>31 DEF IInv, s
----------------------------------------------------------------------------
(* The handler takes a message from the queue.                             *)

(* A message of the promised ones.                                         *)
LEMMA MessageFacts ==
    ASSUME NEW s \in Fifo!Messages
    PROVE  Len(s) \in 1..MaxLen /\ s = [i \in 1..Len(s) |-> s[i]]
<1>1. PICK x \in 1..MaxMsgs, y \in 1..MaxLen : s = [i \in 1..y |-> <<x, i>>]
  BY DEF Fifo!Messages
<1>2. y \in Nat /\ Len(s) = y
  BY <1>1, Bounds
<1> QED BY <1>1, <1>2

(* The packet at the head of the queue is the message that arrived first.  *)
LEMMA HeadPacket ==
    ASSUME IInv, NEW Q, NEW S, NEW hi, NEW P, Core(Q, S, hi, P), Completed(mem, head, term)
    PROVE  /\ Len(arrived) >= 1 /\ configured
           /\ PacketAt(mem, head) = [i \in 1..Len(arrived[1]) |-> Q[S[0] + i - 1]]
           /\ AfterPacket(mem, head) = Q[S[1]]
           /\ S[1] = S[0] + Len(arrived[1]) /\ Len(arrived[1]) \in 1..MaxLen
           /\ ContentsOf(vd, fill, PacketAt(mem, head)) = arrived[1]
<1> DEFINE a == Len(arrived)
           r == S[a]
           lo == S[0]
           e == S[1]
           s == arrived[1]
           n == Len(s)
           c == [i \in 1..n |-> Q[lo + i - 1]]
<1>1. /\ a \in Nat /\ lo \in Nat /\ hi \in Nat /\ r \in Nat /\ lo <= r /\ r <= hi
      /\ \A j \in 1..a : S[j - 1] \in Nat /\ S[j] \in Nat /\ lo <= S[j - 1] /\ S[j - 1] < S[j] /\ S[j] <= r
  BY Positions DEF IInv
<1>2. /\ Ring(mem, Q, lo, hi, head, term) /\ Free(mem, vd, Q, r, hi) /\ Received(mem, vd, fill, Q, S, arrived)
      /\ (~configured => lo = hi)
  BY DEF Core
<1>3. arrived \in Seq(Fifo!Messages) /\ mem \in [Descs -> HwDescs(Descs, Bufs)]
  BY DEF IInv, TypeInv
<1>4. head # term /\ mem[head].own # "HW" /\ head = Q[lo] /\ term = Q[hi]
  BY <1>2 DEF Completed, Ring
<1>5. a >= 1 /\ configured
  <2>1. lo # hi
    BY <1>4
  <2>2. ASSUME a = 0 PROVE FALSE
    <3>1. r = lo
      BY <2>2
    <3> HIDE DEF r, lo
    <3>2. lo \in r..(hi - 1)
      BY <1>1, <2>1, <3>1
    <3>3. mem[Q[lo]].own = "HW"
      BY <1>2, <3>2, Zenon DEF Free
    <3> QED BY <1>4, <3>3
  <2> HIDE DEF a
  <2> QED BY <1>1, <1>2, <2>1, <2>2
<1>6. 1 \in 1..a /\ s \in Fifo!Messages
  <2>1. 1 \in 1..a
    BY <1>1, <1>5
  <2> QED BY <1>3, <2>1
<1>7. n \in 1..MaxLen /\ n \in Nat /\ n >= 1 /\ s = [i \in 1..n |-> s[i]]
  BY <1>6, MessageFacts, Bounds
<1>8. MessageAt(mem, vd, fill, Q, lo, e, s)
  <2>1. MessageAt(mem, vd, fill, Q, S[1 - 1], S[1], arrived[1])
    BY <1>2, <1>6 DEF Received
  <2> QED BY <2>1
<1>9. e \in Nat /\ e <= r
  BY <1>1, <1>6
<1> HIDE DEF a, r, lo, e, s
<1>10. e = lo + n /\ mem[Q[lo]].last = Q[e - 1]
  BY <1>8 DEF MessageAt
<1>11. \A i \in lo..(e - 1) : (mem[Q[i]].ls <=> i = e - 1) /\ fill[vd[Q[i]]] = s[i - lo + 1]
  BY <1>8, Zenon DEF MessageAt
<1> HIDE DEF n
<1>12. \A i \in 1..n : /\ lo + i - 1 \in lo..(e - 1) /\ lo + i - 1 \in lo..hi /\ lo + i - 1 \in lo..(hi - 1)
                       /\ (lo + i - 1) - lo + 1 = i /\ (lo + i - 1) + 1 = lo + (i + 1) - 1
                       /\ (lo + i - 1 = e - 1 <=> i = n)
  BY <1>1, <1>7, <1>9, <1>10, SMTT(60)
<1>13. /\ \A i \in lo..hi : Q[i] \in Descs
       /\ \A i, j \in lo..hi : Q[i] = Q[j] => i = j
       /\ \A i \in lo..(hi - 1) : mem[Q[i]].next = Q[i + 1]
  BY <1>2 DEF Ring
<1>14. c \in Seq(Descs) /\ Len(c) = n /\ \A i \in 1..n : c[i] = Q[lo + i - 1]
  BY <1>7, <1>12, <1>13
<1> HIDE DEF c
<1>15. \A i, j \in 1..n : c[i] = c[j] => i = j
  <2> SUFFICES ASSUME NEW i \in 1..n, NEW j \in 1..n, c[i] = c[j] PROVE i = j
    BY Zenon
  <2>1. Q[lo + i - 1] = Q[lo + j - 1]
    BY <1>14
  <2>2. lo + i - 1 = lo + j - 1
    BY <1>12, <1>13, <2>1
  <2> QED BY <1>1, <1>7, <2>2
<1>16. IsInjective(c) /\ c # << >> /\ DOMAIN c = 1..n
  BY <1>7, <1>14, <1>15 DEF IsInjective
<1>17. ASSUME NEW i \in 1..(n - 1)
       PROVE  mem[c[i]].next = c[i + 1]
  <2>1. i \in 1..n /\ i + 1 \in 1..n
    BY <1>7
  <2>2. mem[c[i]].next = Q[(lo + i - 1) + 1]
    BY <1>12, <1>13, <1>14, <2>1
  <2> QED BY <1>12, <1>14, <2>1, <2>2
<1>18. \A i \in 1..n : mem[c[i]].ls <=> i = n
  <2> TAKE i \in 1..n
  <2>1. mem[Q[lo + i - 1]].ls <=> lo + i - 1 = e - 1
    BY <1>11, <1>12, Zenon
  <2>2. mem[c[i]].ls <=> lo + i - 1 = e - 1
    BY <1>14, <2>1, Zenon
  <2> QED BY <1>12, <2>2, Zenon
<1>19. 1 \in 1..n /\ c[1] = head
  <2>1. 1 \in 1..n /\ lo + 1 - 1 = lo
    BY <1>1, <1>7
  <2> QED BY <1>4, <1>14, <2>1
<1>20. PacketAt(mem, head) = c
  <2>1. /\ IsFiniteSet(Descs) /\ NULL \notin Descs /\ DOMAIN mem = Descs
        /\ \A i \in 1..(Len(c) - 1) : mem[c[i]].next = c[i + 1]
        /\ \A i \in 1..Len(c) : mem[c[i]].ls <=> i = Len(c)
    BY <1>3, <1>14, <1>17, <1>18, Bounds, NullAssumption
  <2>2. PacketAt(mem, c[1]) = c
    BY <1>14, <1>16, <2>1, ChainIs, SMTT(60)
  <2> QED BY <1>19, <2>2
<1>21. AfterPacket(mem, head) = Q[e]
  <2>1. e - 1 \in lo..(hi - 1) /\ (e - 1) + 1 = e
    BY <1>1, <1>7, <1>9, <1>10
  <2>2. mem[Q[e - 1]].next = Q[e]
    BY <1>13, <2>1
  <2> QED BY <1>4, <1>10, <2>2 DEF AfterPacket
<1>22. ContentsOf(vd, fill, c) = s
  <2>1. \A i \in 1..n : fill[vd[c[i]]] = s[i]
    BY <1>11, <1>12, <1>14
  <2>2. ContentsOf(vd, fill, c) = [i \in 1..n |-> fill[vd[c[i]]]]
    BY <1>16, Zenon DEF ContentsOf
  <2>3. ContentsOf(vd, fill, c) = [i \in 1..n |-> s[i]]
    BY <2>1, <2>2
  <2> QED BY <1>7, <2>3
<1> QED BY <1>5, <1>7, <1>10, <1>20, <1>21, <1>22 DEF a, lo, e, s, n, c

(* The packet at the head is passed up as a VBUF.                          *)
LEMMA ReapKeeps ==
    ASSUME IInv, Reap
    PROVE  /\ IInv'
           /\ arrived # << >>
           /\ Contents(PacketAt(mem, head)) = Head(arrived)
<1> DEFINE c == PacketAt(mem, head)
<1>1. /\ pc = "run" /\ Completed(mem, head, term) /\ head' = AfterPacket(mem, head)
      /\ held' = held \cup {c} /\ arrived' = Tail(arrived)
      /\ UNCHANGED <<mem, vd, term, pc, put, isr, hw, intr, configured, msg, fill>>
  BY DEF Reap, GetPacket
<1>2. PICK Q, S, hi, P : Core(Q, S, hi, P)
  BY DEF IInv
<1> DEFINE a == Len(arrived)
           r == S[a]
           lo == S[0]
           e == S[1]
           n == Len(arrived[1])
           T == [j \in Nat |-> S[j + 1]]
<1>3. TypeInv /\ Carried(vd) /\ arrived \in Seq(Fifo!Messages)
  BY DEF IInv, TypeInv
<1>4. /\ a \in Nat /\ lo \in Nat /\ hi \in Nat /\ r \in Nat /\ lo <= r /\ r <= hi
      /\ \A j \in 1..a : S[j - 1] \in Nat /\ S[j] \in Nat /\ lo <= S[j - 1] /\ S[j - 1] < S[j] /\ S[j] <= r
  BY <1>2, <1>3, Positions
<1>5. /\ a >= 1 /\ configured /\ c = [i \in 1..n |-> Q[lo + i - 1]] /\ head' = Q[e]
      /\ e = lo + n /\ n \in 1..MaxLen /\ ContentsOf(vd, fill, c) = arrived[1]
  BY <1>1, <1>2, HeadPacket
<1>6. /\ Ring(mem, Q, lo, hi, head, term) /\ Free(mem, vd, Q, r, hi) /\ Apart(Q, lo, hi, P, held) /\ PutOf(P)
      /\ Received(mem, vd, fill, Q, S, arrived) /\ EngineAt(hw, msg, fill, vd, Q, r, hi)
      /\ Covered(Q, lo, hi, P, held) /\ Numbered(arrived, held, vd, fill, msg)
  BY <1>2, <1>5 DEF Core
<1>7. n \in Nat /\ n >= 1 /\ e \in Nat /\ e <= r
  <2>1. 1 \in 1..a
    BY <1>4, <1>5
  <2> QED BY <1>4, <1>5, <2>1, Bounds
<1>8. /\ arrived' \in Seq(Fifo!Messages) /\ Len(arrived') = a - 1 /\ arrived # << >> /\ Head(arrived) = arrived[1]
      /\ \A j \in 1..(a - 1) : arrived'[j] = arrived[j + 1]
  BY <1>1, <1>3, <1>5
<1>9. arrived[1] \in Fifo!Messages
  BY <1>3, <1>4, <1>5
<1>10. T[0] = e /\ T[a - 1] = r /\ \A j \in 0..(a - 1) : T[j] = S[j + 1]
  <2>1. a - 1 \in Nat /\ (a - 1) + 1 = a
    BY <1>4, <1>5
  <2> QED BY <2>1
<1> HIDE DEF c, a, r, lo, e, n, T
<1>11. /\ \A i \in lo..hi : Q[i] \in Descs
       /\ \A i, j \in lo..hi : Q[i] = Q[j] => i = j
       /\ \A i \in lo..(hi - 1) : mem[Q[i]].next = Q[i + 1]
       /\ head = Q[lo] /\ term = Q[hi] /\ mem[term].own = "SW"
  BY <1>6 DEF Ring
<1>12. /\ \A i \in e..hi : i \in lo..hi
       /\ \A i \in e..(hi - 1) : i \in lo..(hi - 1)
       /\ \A i \in 1..n : lo + i - 1 \in lo..hi /\ \A j \in e..hi : lo + i - 1 # j
  BY <1>4, <1>5, <1>7
<1>13. Ring(mem, Q, e, hi, Q[e], term)
  BY <1>11, <1>12, Zenon DEF Ring
<1>14. Received(mem, vd, fill, Q, T, arrived')
  <2>1. /\ \A j \in 0..a : S[j] \in Nat
        /\ \A i, j \in 0..a : i < j => S[i] < S[j]
        /\ \A j \in 1..a : MessageAt(mem, vd, fill, Q, S[j - 1], S[j], arrived[j])
    BY <1>6 DEF Received, a
  <2>2. \A j \in 0..(a - 1) : T[j] \in Nat
    <3> TAKE j \in 0..(a - 1)
    <3>1. j + 1 \in 0..a
      BY <1>4, <1>5
    <3> QED BY <1>10, <2>1, <3>1
  <2>3. ASSUME NEW i \in 0..(a - 1), NEW j \in 0..(a - 1), i < j
        PROVE  T[i] < T[j]
    <3>1. i + 1 \in 0..a /\ j + 1 \in 0..a /\ i + 1 < j + 1
      BY <1>4, <1>5, <2>3
    <3> QED BY <1>10, <2>1, <3>1
  <2>4. ASSUME NEW j \in 1..(a - 1)
        PROVE  MessageAt(mem, vd, fill, Q, T[j - 1], T[j], arrived'[j])
    <3>1. j + 1 \in 1..a /\ (j + 1) - 1 = j /\ j \in 0..(a - 1) /\ j - 1 \in 0..(a - 1) /\ (j - 1) + 1 = j
      BY <1>4, <1>5
    <3>2. T[j - 1] = S[j] /\ T[j] = S[j + 1]
      BY <1>10, <3>1
    <3>3. MessageAt(mem, vd, fill, Q, S[j], S[j + 1], arrived[j + 1])
      <4>1. MessageAt(mem, vd, fill, Q, S[(j + 1) - 1], S[j + 1], arrived[j + 1])
        BY <2>1, <3>1, Zenon
      <4> QED BY <3>1, <4>1, Zenon
    <3> QED BY <1>8, <3>2, <3>3, Zenon
  <2> QED BY <1>8, <2>2, <2>3, <2>4, Zenon DEF Received
<1>15. c \in Seq(Descs) /\ Len(c) = n /\ \A i \in 1..n : c[i] = Q[lo + i - 1]
  BY <1>5, <1>7, <1>11, <1>12
<1>16. IsInjective(c)
  <2>1. DOMAIN c = 1..n
    BY <1>15
  <2>2. ASSUME NEW i \in 1..n, NEW j \in 1..n, c[i] = c[j]
        PROVE  i = j
    <3>1. Q[lo + i - 1] = Q[lo + j - 1]
      BY <1>15, <2>2
    <3>2. lo + i - 1 = lo + j - 1
      BY <1>11, <1>12, <3>1
    <3> QED BY <1>4, <1>7, <3>2
  <2> QED BY <2>1, <2>2 DEF IsInjective
<1>17. \A i \in 1..n : \A j \in e..hi : c[i] # Q[j]
  BY <1>11, <1>12, <1>15, Zenon
<1>18. Apart(Q, e, hi, P, held')
  <2>1. /\ P \in Seq(Descs) /\ IsInjective(P)
        /\ \A d \in held : d \in Seq(Descs) /\ IsInjective(d) /\ Len(d) \in 1..MaxLen
        /\ \A i \in 1..Len(P), k \in lo..hi : P[i] # Q[k]
        /\ \A d \in held : \A i \in 1..Len(d) : (\A k \in lo..hi : d[i] # Q[k]) /\ (\A k \in 1..Len(P) : d[i] # P[k])
        /\ \A d, f \in held : \A i \in 1..Len(d), k \in 1..Len(f) : d[i] = f[k] => d = f
    BY <1>6 DEF Apart
  <2>2. \A d \in held' : d \in held \/ d = c
    BY <1>1
  <2>3. \A d \in held' : d \in Seq(Descs) /\ IsInjective(d) /\ Len(d) \in 1..MaxLen
    BY <1>5, <1>15, <1>16, <2>1, <2>2, Zenon
  <2>4. \A i \in 1..Len(P), k \in e..hi : P[i] # Q[k]
    BY <1>12, <2>1, Zenon
  <2>5. \A i \in 1..n : \A k \in 1..Len(P) : c[i] # P[k]
    BY <1>12, <1>15, <2>1, SMT
  <2>6. ASSUME NEW d \in held', NEW i \in 1..Len(d)
        PROVE  (\A k \in e..hi : d[i] # Q[k]) /\ (\A k \in 1..Len(P) : d[i] # P[k])
    <3>1. CASE d \in held
      BY <1>12, <2>1, <3>1, Zenon
    <3>2. CASE d = c
      <4>1. i \in 1..n
        BY <1>15, <3>2
      <4> QED BY <1>17, <2>5, <3>2, <4>1, Zenon
    <3> QED BY <2>2, <3>1, <3>2
  <2>7. \A d \in held : \A i \in 1..Len(d) : \A k \in 1..n : d[i] # c[k]
    <3> SUFFICES ASSUME NEW d \in held, NEW i \in 1..Len(d), NEW k \in 1..n PROVE d[i] # c[k]
      BY Zenon
    <3>1. c[k] = Q[lo + k - 1] /\ lo + k - 1 \in lo..hi
      BY <1>12, <1>15, Zenon
    <3> QED BY <2>1, <3>1, Zenon
  <2>8. ASSUME NEW d \in held', NEW f \in held', NEW i \in 1..Len(d), NEW k \in 1..Len(f), d[i] = f[k]
        PROVE  d = f
    <3>1. CASE d \in held /\ f \in held
      BY <2>1, <2>8, <3>1, Zenon
    <3>2. CASE d \in held /\ f = c
      BY <1>15, <2>7, <2>8, <3>2, Zenon
    <3>3. CASE d = c /\ f \in held
      BY <1>15, <2>7, <2>8, <3>3, Zenon
    <3> QED BY <2>2, <3>1, <3>2, <3>3
  <2> QED BY <2>1, <2>3, <2>4, <2>6, <2>8, Zenon DEF Apart
<1>19. Covered(Q, e, hi, P, held')
  <2> SUFFICES ASSUME NEW d \in Descs
               PROVE  \/ \E k \in e..hi : d = Q[k]
                      \/ \E k \in 1..Len(P) : d = P[k]
                      \/ \E f \in held' : \E k \in 1..Len(f) : d = f[k]
    BY Zenon DEF Covered
  <2>1. \/ \E k \in lo..hi : d = Q[k]
        \/ \E k \in 1..Len(P) : d = P[k]
        \/ \E f \in held : \E k \in 1..Len(f) : d = f[k]
    BY <1>6, Zenon DEF Covered
  <2>2. c \in held' /\ \A f \in held : f \in held'
    BY <1>1
  <2>3. ASSUME NEW k \in lo..hi, d = Q[k]
        PROVE  \/ \E j \in e..hi : d = Q[j]
               \/ \E j \in 1..Len(c) : d = c[j]
    <3>1. CASE k \in e..hi
      BY <2>3, <3>1
    <3>2. CASE k \notin e..hi
      <4> DEFINE j == k - lo + 1
      <4>1. j \in 1..n /\ lo + j - 1 = k
        BY <1>4, <1>5, <1>7, <3>2
      <4>2. c[j] = Q[k]
        BY <1>15, <4>1
      <4> QED BY <1>15, <2>3, <4>1, <4>2
    <3> QED BY <3>1, <3>2
  <2> QED BY <2>1, <2>2, <2>3, Zenon
<1>20. Numbered(arrived', held', vd, fill, msg)
  <2> DEFINE C(d) == ContentsOf(vd, fill, d)
  <2>1. /\ \A d \in held : C(d) \in Fifo!Messages
        /\ \A i, j \in 1..a : arrived[i][1][1] = arrived[j][1][1] => i = j
        /\ \A d, f \in held : C(d)[1][1] = C(f)[1][1] => d = f
        /\ \A d \in held : \A j \in 1..a : arrived[j][1][1] # C(d)[1][1]
        /\ msg # None => /\ \A j \in 1..a : arrived[j][1][1] # msg.id
                         /\ \A d \in held : C(d)[1][1] # msg.id
    BY <1>6, Zenon DEF Numbered, a
  <2>2. C(c) = arrived[1]
    BY <1>5
  <2>3. \A d \in held' : d \in held \/ d = c
    BY <1>1
  <2> HIDE DEF C
  <2>4. 1 \in 1..a /\ \A j \in 1..(a - 1) : j + 1 \in 1..a /\ j + 1 # 1
    BY <1>4, <1>5
  <2>5. \A i, j \in 1..(a - 1) : i + 1 = j + 1 => i = j
    BY <1>4
  <2>6. \A d \in held' : C(d) \in Fifo!Messages
    BY <1>9, <2>1, <2>2, <2>3, Zenon
  <2>7. ASSUME NEW i \in 1..(a - 1), NEW j \in 1..(a - 1), arrived'[i][1][1] = arrived'[j][1][1]
        PROVE  i = j
    <3>1. i + 1 = j + 1
      BY <1>8, <2>1, <2>4, <2>7, SMT
    <3> QED BY <2>5, <3>1, Zenon
  <2>8. ASSUME NEW d \in held', NEW f \in held', C(d)[1][1] = C(f)[1][1]
        PROVE  d = f
    <3>1. CASE d \in held /\ f \in held
      BY <2>1, <2>8, <3>1, Zenon
    <3>2. CASE d \in held /\ f = c
      BY <2>1, <2>2, <2>4, <2>8, <3>2, Zenon
    <3>3. CASE d = c /\ f \in held
      BY <2>1, <2>2, <2>4, <2>8, <3>3, Zenon
    <3> QED BY <2>3, <3>1, <3>2, <3>3
  <2>9. ASSUME NEW d \in held', NEW j \in 1..(a - 1)
        PROVE  arrived'[j][1][1] # C(d)[1][1]
    <3>1. arrived'[j] = arrived[j + 1] /\ j + 1 \in 1..a /\ j + 1 # 1
      BY <1>8, <2>4, Zenon
    <3>2. CASE d \in held
      BY <2>1, <3>1, <3>2
    <3>3. CASE d = c
      BY <2>1, <2>2, <2>4, <3>1, <3>3
    <3> QED BY <2>3, <3>2, <3>3
  <2>10. ASSUME msg # None
         PROVE  /\ \A j \in 1..(a - 1) : arrived'[j][1][1] # msg.id
                /\ \A d \in held' : C(d)[1][1] # msg.id
    BY <1>8, <2>1, <2>2, <2>3, <2>4, <2>10, SMT
  <2> QED BY <1>8, <2>6, <2>7, <2>8, <2>9, <2>10, Zenon DEF Numbered, C
<1>21. TypeInv' /\ Carried(vd)'
  BY <1>1, <1>3, <1>8 DEF TypeInv
<1>22. PutOf(P)'
  BY <1>1, <1>6 DEF PutOf, Putting, Swapped
<1>23. PICK U : U = T
  OBVIOUS
<1>24. Core(Q, U, hi, P)'
  <2>1. /\ vd' = vd /\ mem' = mem /\ head' = Q[e] /\ term' = term /\ configured' /\ msg' = msg /\ hw' = hw
        /\ fill' = fill /\ U[0] = e /\ U[Len(arrived')] = r
    BY <1>1, <1>5, <1>8, <1>10, <1>23
  <2>2. /\ Ring(mem', Q, U[0], hi, head', term') /\ Received(mem', vd', fill', Q, U, arrived')
        /\ Free(mem', vd', Q, U[Len(arrived')], hi)
        /\ EngineAt(hw', msg', fill', vd', Q, U[Len(arrived')], hi)
        /\ Apart(Q, U[0], hi, P, held') /\ Numbered(arrived', held', vd', fill', msg')
        /\ Covered(Q, U[0], hi, P, held')
    BY <1>6, <1>13, <1>14, <1>18, <1>19, <1>20, <1>23, <2>1, Zenon
  <2>3. hi \in Nat /\ U[Len(arrived')] <= hi
    BY <1>4, <2>1
  <2> QED BY <1>22, <2>1, <2>2, <2>3, Zenon DEF Core
<1>25. Contents(c) = Head(arrived)
  <2>1. Contents(c) = ContentsOf(vd, fill, c)
    BY Zenon DEF Contents, ContentsOf
  <2> QED BY <1>5, <1>8, <2>1
<1> QED BY <1>8, <1>21, <1>24, <1>25 DEF IInv, c
----------------------------------------------------------------------------
(* The invariant holds in every state.                                     *)

(* The pipe begins with the terminator alone in the queue.                 *)
LEMMA InitIInv == Init => IInv
<1> SUFFICES ASSUME Init PROVE IInv
  OBVIOUS
<1> DEFINE z == << >>
           Q == [i \in Nat |-> Terminator]
           S == [j \in Nat |-> 0]
<1>1. /\ vd = [d \in Descs |-> IF d = Terminator THEN NULL ELSE d]
      /\ mem = [d \in Descs |-> InitDesc(vd[d])]
      /\ head = Terminator /\ term = Terminator /\ pc = "run" /\ put = NoPut /\ isr = FALSE /\ intr = FALSE
      /\ hw = [cur |-> Terminator, got |-> z, start |-> TRUE]
      /\ configured = FALSE /\ held = {} /\ msg = None /\ fill = [b \in Bufs |-> NULL] /\ arrived = z
  BY DEF Init, QueueInit
<1>2. z \in Seq(Descs) /\ z \in Seq(Fifo!Messages) /\ Len(z) = 0 /\ IsInjective(z)
  BY DEF IsInjective
<1>3. vd \in [Descs -> Bufs]
  <2>1. \A d \in Descs : d # Terminator => d \in Bufs
    <3> SUFFICES ASSUME NEW x \in 0..NumDescs, <<NULL, x>> # Terminator PROVE <<NULL, x>> \in Bufs
      BY DEF Descs
    <3> QED BY Bounds DEF Bufs, Terminator
  <2> QED BY <1>1, <2>1, Bounds
<1>4. Carried(vd)
  BY <1>1, NullAssumption DEF Carried
<1>5. \A b \in Bufs : InitDesc(b) \in HwDescs(Descs, Bufs) /\ InitDesc(b).own = "SW"
  BY DEF InitDesc, HwDescs, Owners
<1>6. mem \in [Descs -> HwDescs(Descs, Bufs)] /\ mem[Terminator].own = "SW"
  BY <1>1, <1>3, <1>5, Bounds
<1>7. put \in [first : Descs, tdesc : HwDescs(Descs, Bufs)]
  BY <1>1, <1>5, Bounds DEF NoPut
<1>8. fill \in [Bufs -> Values]
  BY <1>1 DEF Values
<1> HIDE DEF z
<1>9. hw \in [cur : Descs, got : Seq(Descs), start : BOOLEAN] /\ hw.got = z /\ hw.cur = Terminator
  BY <1>1, <1>2, Bounds
<1>10. TypeInv
  BY <1>1, <1>2, <1>3, <1>6, <1>7, <1>8, <1>9 DEF TypeInv
<1>11. S[0] = 0 /\ Q[0] = Terminator
  OBVIOUS
<1> HIDE DEF Q, S
<1>12. 1..0 = {} /\ 0..0 = {0} /\ 0..(0 - 1) = {}
  OBVIOUS
<1>13. Ring(mem, Q, 0, 0, head, term)
  BY <1>1, <1>6, <1>11, <1>12, Bounds DEF Ring
<1>14. Received(mem, vd, fill, Q, S, z)
  BY <1>2, <1>11, <1>12 DEF Received
<1>15. Free(mem, vd, Q, 0, 0)
  BY <1>12, Zenon DEF Free
<1>16. EngineAt(hw, msg, fill, vd, Q, 0, 0)
  BY <1>1, <1>2, <1>9, <1>11, <1>12 DEF EngineAt
<1>17. Apart(Q, 0, 0, z, held)
  BY <1>1, <1>2, <1>12 DEF Apart
<1>18. PutOf(z)
  BY <1>1, <1>2 DEF PutOf, Putting, Swapped
<1>19. Numbered(z, held, vd, fill, msg)
  BY <1>1, <1>2, <1>12 DEF Numbered
<1>20. Core(Q, S, 0, z)
  <2>1. 0 \in Nat /\ 0 <= 0
    OBVIOUS
  <2>2. arrived = z /\ S[Len(arrived)] = 0
    BY <1>1, <1>2, <1>11
  <2>3. /\ 0 \in Nat /\ S[Len(arrived)] <= 0
        /\ Ring(mem, Q, S[0], 0, head, term) /\ Received(mem, vd, fill, Q, S, arrived)
        /\ Free(mem, vd, Q, S[Len(arrived)], 0) /\ EngineAt(hw, msg, fill, vd, Q, S[Len(arrived)], 0)
        /\ Apart(Q, S[0], 0, z, held) /\ Numbered(arrived, held, vd, fill, msg)
    BY <1>11, <1>13, <1>14, <1>15, <1>16, <1>17, <1>19, <2>1, <2>2, Zenon
  <2>4. ~configured /\ held = {} /\ S[0] = 0 /\ z = << >> /\ term = Terminator
    BY <1>1, <1>11 DEF z
  <2> QED BY <1>18, <2>3, <2>4, Zenon DEF Core
<1> QED BY <1>4, <1>10, <1>20 DEF IInv

(* Every step keeps it.                                                    *)
LEMMA StepIInv == IInv /\ [Next]_vars => IInv'
<1> SUFFICES ASSUME IInv, [Next]_vars PROVE IInv'
  OBVIOUS
<1>1. CASE ConfigPipe
  BY <1>1, ConfigPipeKeeps
<1>2. CASE \E c \in held : ReturnRecv(c)
  BY <1>2, ReturnKeeps
<1>3. CASE ReclaimStep
  <2>1. UNCHANGED dnVars
    BY <1>3 DEF ReclaimStep
  <2>2. CASE PutLink(CloseRing(mem, put.first))
    BY <2>1, <2>2, PutLinkKeeps
  <2>3. CASE PutCopy
    BY <2>1, <2>3, PutCopyKeeps
  <2>4. CASE PutOwn
    BY <2>1, <2>4, PutOwnKeeps
  <2>5. CASE Trigger
    BY <2>1, <2>5, QuietSteps
  <2> QED BY <1>3, <2>2, <2>3, <2>4, <2>5 DEF ReclaimStep, PutStep
<1>4. CASE HandlerEnter \/ HandlerEnd \/ HwIdle \/ UNCHANGED vars
  BY <1>4, QuietSteps
<1>5. CASE Reap
  BY <1>5, ReapKeeps
<1>6. CASE \E m \in Sending : HwFill(m) \/ HwReceive(m)
  BY <1>6, FillKeeps, ReceiveKeeps
<1> QED BY <1>1, <1>2, <1>3, <1>4, <1>5, <1>6 DEF Next

(* The queue, the chain being put, the VBUFs above and the engine fit      *)
(* together in every reachable state.                                      *)
THEOREM Invariance == Spec => []IInv
BY InitIInv, StepIInv, PTL DEF Spec

(* No sequence of messages and returns loses a descriptor of the pipe or   *)
(* has it in two places.                                                   *)
THEOREM DescConservationAlways == Spec => []DescConservation
<1>1. IInv => DescConservation
  <2> SUFFICES ASSUME IInv, pc = "run", configured PROVE Partitioned(Descs, held)
    BY DEF DescConservation
  <2>1. PICK Q, S, hi, P : Core(Q, S, hi, P)
    BY DEF IInv
  <2> DEFINE lo == S[0]
             n == hi - lo + 1
             s == [i \in 1..n |-> Q[lo + i - 1]]
  <2>2. lo \in Nat /\ hi \in Nat /\ lo <= hi
    BY <2>1, Positions DEF IInv
  <2>3. /\ Ring(mem, Q, lo, hi, head, term) /\ Apart(Q, lo, hi, P, held) /\ Covered(Q, lo, hi, P, held) /\ PutOf(P)
    BY <2>1 DEF Core
  <2> HIDE DEF lo
  <2>4. /\ \A i \in lo..hi : Q[i] \in Descs
        /\ \A i, j \in lo..hi : Q[i] = Q[j] => i = j
        /\ \A i \in lo..(hi - 1) : mem[Q[i]].next = Q[i + 1]
        /\ head = Q[lo] /\ term = Q[hi]
    BY <2>3 DEF Ring
  <2>5. /\ n \in Nat /\ n >= 1 /\ 1 \in 1..n /\ n \in 1..n /\ lo + 1 - 1 = lo /\ lo + n - 1 = hi
        /\ \A i \in 1..n : lo + i - 1 \in lo..hi
        /\ \A i \in 1..(n - 1) : /\ i \in 1..n /\ i + 1 \in 1..n /\ lo + i - 1 \in lo..(hi - 1)
                                 /\ (lo + i - 1) + 1 = lo + (i + 1) - 1
        /\ \A i \in lo..hi : i - lo + 1 \in 1..n /\ lo + (i - lo + 1) - 1 = i
        /\ \A i, j \in 1..n : lo + i - 1 = lo + j - 1 => i = j
    BY <2>2
  <2> HIDE DEF n
  <2>6. s \in Seq(Descs) /\ Len(s) = n /\ DOMAIN s = 1..n /\ s # << >> /\ \A i \in 1..n : s[i] = Q[lo + i - 1]
    BY <2>4, <2>5
  <2> HIDE DEF s
  <2>7. IsInjective(s)
    <3>1. ASSUME NEW i \in 1..n, NEW j \in 1..n, s[i] = s[j]
          PROVE  i = j
      <4>1. Q[lo + i - 1] = Q[lo + j - 1]
        BY <2>6, <3>1
      <4> QED BY <2>4, <2>5, <4>1, SMT
    <3> QED BY <2>6, <3>1 DEF IsInjective
  <2>8. s[1] = head /\ s[Len(s)] = term
    BY <2>4, <2>5, <2>6
  <2>9. ASSUME NEW i \in 1..(Len(s) - 1)
        PROVE  mem[s[i]].next = s[i + 1]
    <3>1. i \in 1..(n - 1)
      BY <2>6
    <3>3. s[i] = Q[lo + i - 1] /\ lo + i - 1 \in lo..(hi - 1)
      BY <2>5, <2>6, <3>1, Zenon
    <3>2. mem[s[i]].next = Q[(lo + i - 1) + 1]
      BY <2>4, <3>3, Zenon
    <3> QED BY <2>5, <2>6, <3>1, <3>2
  <2>10. QueueChain(mem, head, term) = s
    <3>1. IsFiniteSet(Descs) /\ NULL \notin Descs /\ DOMAIN mem = Descs
      BY Bounds, NullAssumption DEF IInv, TypeInv
    <3>2. QueueChain(mem, s[1], s[Len(s)]) = s
      BY <2>6, <2>7, <2>9, <3>1, ChainIs
    <3> QED BY <2>8, <3>2
  <2>11. \A d : d \in ToSet(s) <=> \E i \in lo..hi : d = Q[i]
    <3>1. ASSUME NEW d \in ToSet(s) PROVE \E i \in lo..hi : d = Q[i]
      <4>1. PICK j \in 1..n : d = s[j]
        BY <2>6, <3>1 DEF ToSet
      <4> QED BY <2>5, <2>6, <4>1, Zenon
    <3>2. ASSUME NEW i \in lo..hi PROVE Q[i] \in ToSet(s)
      <4>1. i - lo + 1 \in 1..n /\ s[i - lo + 1] = Q[i]
        BY <2>5, <2>6
      <4> QED BY <2>6, <4>1 DEF ToSet
    <3> QED BY <3>1, <3>2
  <2>12. \A c \in held : \A d : d \in ToSet(c) <=> \E i \in 1..Len(c) : d = c[i]
    <3> TAKE c \in held
    <3>1. c \in Seq(Descs)
      BY <2>3 DEF Apart
    <3> QED BY <3>1 DEF ToSet
  <2>13. \A c \in held : IsInjective(c) /\ ToSet(c) \cap ToSet(s) = {}
    <3> TAKE c \in held
    <3>1. IsInjective(c) /\ \A i \in 1..Len(c) : \A k \in lo..hi : c[i] # Q[k]
      BY <2>3 DEF Apart
    <3>2. \A d : ~(d \in ToSet(c) /\ d \in ToSet(s))
      <4> SUFFICES ASSUME NEW d, d \in ToSet(c), d \in ToSet(s) PROVE FALSE
        BY Zenon
      <4>1. \E i \in 1..Len(c) : d = c[i]
        BY <2>12, Zenon
      <4>2. \E k \in lo..hi : d = Q[k]
        BY <2>11, Zenon
      <4> QED BY <3>1, <4>1, <4>2, Zenon
    <3> QED BY <3>1, <3>2
  <2>14. \A c, e \in held : c # e => ToSet(c) \cap ToSet(e) = {}
    <3> SUFFICES ASSUME NEW c \in held, NEW e \in held, c # e PROVE ToSet(c) \cap ToSet(e) = {}
      OBVIOUS
    <3>1. \A i \in 1..Len(c), k \in 1..Len(e) : c[i] # e[k]
      BY <2>3 DEF Apart
    <3>2. \A d : ~(d \in ToSet(c) /\ d \in ToSet(e))
      <4> SUFFICES ASSUME NEW d, d \in ToSet(c), d \in ToSet(e) PROVE FALSE
        BY Zenon
      <4>1. \E i \in 1..Len(c) : d = c[i]
        BY <2>12, Zenon
      <4>2. \E k \in 1..Len(e) : d = e[k]
        BY <2>12, Zenon
      <4> QED BY <3>1, <4>1, <4>2, Zenon
    <3> QED BY <3>2
  <2>15. ToSet(s) \cup UNION {ToSet(c) : c \in held} = Descs
    <3>1. \A d : d \in UNION {ToSet(c) : c \in held} <=> \E c \in held : d \in ToSet(c)
      OBVIOUS
    <3>2. 1..Len(P) = {}
      <4>1. ~(Len(P) >= 1) /\ P \in Seq(Descs)
        BY <2>3 DEF PutOf, Putting, Apart
      <4> QED BY <4>1
    <3>3. ASSUME NEW d \in Descs
          PROVE  d \in ToSet(s) \/ \E c \in held : d \in ToSet(c)
      <4>1. (\E k \in lo..hi : d = Q[k]) \/ \E c \in held : \E k \in 1..Len(c) : d = c[k]
        BY <2>3, <3>2, Zenon DEF Covered
      <4> QED BY <2>11, <2>12, <4>1, Zenon
    <3>4. ASSUME NEW d, d \in ToSet(s) PROVE d \in Descs
      <4>1. PICK k \in lo..hi : d = Q[k]
        BY <2>11, <3>4, Zenon
      <4> QED BY <2>4, <4>1
    <3>5. ASSUME NEW c \in held, NEW d \in ToSet(c) PROVE d \in Descs
      <4>1. \A i \in 1..Len(c) : c[i] \in Descs
        BY <2>3 DEF Apart
      <4>2. PICK i \in 1..Len(c) : d = c[i]
        BY <2>12, Zenon
      <4> QED BY <4>1, <4>2
    <3> QED BY <3>1, <3>3, <3>4, <3>5
  <2> QED BY <2>6, <2>7, <2>10, <2>13, <2>14, <2>15, Zenon DEF Partitioned
<1> QED BY <1>1, Invariance, PTL

(* The engine is never left asleep at a buffer that is its own: whatever   *)
(* the moment at which it gave up, enable_rx comes after.                  *)
THEOREM EngineArmedAlways == Spec => []EngineArmed
<1>1. Init => EngineArmed
  BY DEF Init, QueueInit, EngineArmed
<1>2. EngineArmed /\ IInv /\ [Next]_vars => EngineArmed'
  <2> SUFFICES ASSUME EngineArmed, IInv, [Next]_vars PROVE EngineArmed'
    OBVIOUS
  <2>1. hw \in [cur : Descs, got : Seq(Descs), start : BOOLEAN]
    BY DEF IInv, TypeInv
  <2>2. CASE ConfigPipe \/ \E c \in held : ReturnRecv(c)
    BY <2>2 DEF ConfigPipe, ReturnRecv, PutBegin, EngineArmed
  <2>3. CASE ReclaimStep
    <3>1. CASE Trigger
      BY <2>1, <3>1 DEF Trigger, EngineArmed
    <3> QED BY <2>3, <3>1 DEF ReclaimStep, PutStep, PutLink, PutCopy, PutOwn, EngineArmed
  <2>4. CASE HandlerEnter \/ HandlerEnd \/ Reap \/ UNCHANGED vars
    BY <2>4 DEF HandlerEnter, HandlerEnd, Reap, IsrEnter, IsrEnd, GetPacket, EngineArmed, vars, queueVars
  <2>5. CASE \E m \in Sending : HwFill(m) \/ HwReceive(m)
    <3>1. hw.start /\ hw'.start = hw.start
      BY <2>1, <2>5 DEF HwFill, HwFetch, HwReceive, HwFinish, HwOwns
    <3> QED BY <3>1 DEF EngineArmed
  <2>6. CASE HwIdle
    <3>1. hw'.cur = hw.cur
      BY <2>1, <2>6 DEF HwIdle, HwStop
    <3> QED BY <2>6, <3>1 DEF HwIdle, HwStop, EngineArmed
  <2> QED BY <2>2, <2>3, <2>4, <2>5, <2>6 DEF Next
<1> QED BY <1>1, <1>2, Invariance, PTL DEF Spec
----------------------------------------------------------------------------
(* The queue implements DnFifo.                                            *)

(* What the upper layers hold.                                             *)
Above == {Contents(c) : c \in held}

(* It stays when the VBUFs and what is in them stay.                       *)
LEMMA AboveSame ==
    ASSUME held' = held, \A c \in held : Contents(c)' = Contents(c)
    PROVE  Above' = Above
<1>1. \A x : x \in Above' <=> \E c \in held : x = Contents(c)'
  BY Zenon DEF Above
<1>2. \A x : x \in Above <=> \E c \in held : x = Contents(c)
  BY Zenon DEF Above
<1>3. \A x : x \in Above' <=> x \in Above
  <2>1. ASSUME NEW x, x \in Above' PROVE x \in Above
    <3>1. PICK c \in held : x = Contents(c)'
      BY <1>1, <2>1, Zenon
    <3> QED BY <1>2, <3>1, Zenon
  <2>2. ASSUME NEW x, x \in Above PROVE x \in Above'
    <3>1. PICK c \in held : x = Contents(c)
      BY <1>2, <2>2, Zenon
    <3> QED BY <1>1, <3>1, Zenon
  <2> QED BY <2>1, <2>2, Zenon
<1> QED BY <1>3

(* A step of the queue is one of DnFifo, or leaves what is seen of it.     *)
LEMMA StepFifo == IInv /\ [Next]_vars => [Fifo!Next]_(Fifo!dnVars)
<1> SUFFICES ASSUME IInv, [Next]_vars PROVE Fifo!Next \/ (arrived' = arrived /\ Above' = Above)
  BY DEF Fifo!dnVars, Above
<1>1. ASSUME held' = held, arrived' = arrived, vd' = vd, fill' = fill
      PROVE  arrived' = arrived /\ Above' = Above
  <2>1. \A c \in held : Contents(c)' = Contents(c)
    BY <1>1, Zenon DEF Contents
  <2> QED BY <1>1, <2>1, AboveSame
<1>2. CASE ConfigPipe
  BY <1>1, <1>2 DEF ConfigPipe, PutBegin
<1>3. ASSUME NEW c \in held, ReturnRecv(c)
      PROVE  Fifo!Next
  <2>1. held' = held \ {c} /\ arrived' = arrived
    BY <1>3 DEF ReturnRecv
  <2>2. \A e \in held' : Contents(e)' = Contents(e)
    BY <1>3, ReturnKeeps
  <2>3. \A e \in held : Contents(e) = Contents(c) => e = c
    <3>1. PICK Q, S, hi, P : Core(Q, S, hi, P)
      BY DEF IInv
    <3>2. \A d, e \in held : ContentsOf(vd, fill, d)[1][1] = ContentsOf(vd, fill, e)[1][1] => d = e
      BY <3>1, Zenon DEF Core, Numbered
    <3>3. \A e \in held : Contents(e) = ContentsOf(vd, fill, e)
      BY Zenon DEF Contents, ContentsOf
    <3> QED BY <3>2, <3>3
  <2>4. \A x : x \in Above' <=> x \in Above /\ x # Contents(c)
    <3>1. \A x : x \in Above' <=> \E e \in held' : x = Contents(e)'
      BY Zenon DEF Above
    <3>2. \A x : x \in Above <=> \E e \in held : x = Contents(e)
      BY Zenon DEF Above
    <3>3. \A e : e \in held' <=> e \in held /\ e # c
      BY <2>1
    <3>4. ASSUME NEW x, x \in Above' PROVE x \in Above /\ x # Contents(c)
      <4>1. PICK e \in held' : x = Contents(e)'
        BY <3>1, <3>4, Zenon
      <4>2. x = Contents(e) /\ e \in held /\ e # c
        BY <2>2, <3>3, <4>1
      <4> QED BY <2>3, <3>2, <4>2
    <3>5. ASSUME NEW x, x \in Above, x # Contents(c) PROVE x \in Above'
      <4>1. PICK e \in held : x = Contents(e)
        BY <3>2, <3>5, Zenon
      <4>2. e \in held'
        BY <3>3, <3>5, <4>1
      <4>3. Contents(e)' = x
        BY <2>2, <4>1, <4>2
      <4> QED BY <3>1, <4>2, <4>3
    <3> QED BY <3>4, <3>5
  <2>5. Above' = Above \ {Contents(c)}
    BY <2>4
  <2>6. Contents(c) \in Above
    BY Zenon DEF Above
  <2>7. \E x \in Above : Above' = Above \ {x} /\ arrived' = arrived
    BY <2>1, <2>5, <2>6
  <2> QED BY <2>7, Zenon DEF Fifo!Next, Fifo!Return, Above
<1>4. CASE ReclaimStep
  <2>1. UNCHANGED dnVars
    BY <1>4 DEF ReclaimStep
  <2>2. CASE PutLink(CloseRing(mem, put.first))
    <3>1. \A c \in held : Contents(c)' = Contents(c)
      BY <2>1, <2>2, PutLinkKeeps
    <3> QED BY <2>1, <3>1, AboveSame DEF dnVars
  <2>3. CASE PutCopy \/ PutOwn \/ Trigger
    BY <1>1, <2>1, <2>3 DEF dnVars, PutCopy, PutOwn, Trigger
  <2> QED BY <1>4, <2>2, <2>3 DEF ReclaimStep, PutStep
<1>5. CASE HandlerEnter \/ HandlerEnd \/ HwIdle \/ UNCHANGED vars
  BY <1>1, <1>5 DEF HandlerEnter, HandlerEnd, HwIdle, IsrEnter, IsrEnd, HwStop, vars, queueVars, dnVars
<1>6. CASE Reap
  <2> DEFINE c == PacketAt(mem, head)
  <2>1. held' = held \cup {c} /\ arrived' = Tail(arrived) /\ vd' = vd /\ fill' = fill
    BY <1>6 DEF Reap, GetPacket
  <2>2. arrived # << >> /\ Contents(c) = Head(arrived)
    BY <1>6, ReapKeeps
  <2> HIDE DEF c
  <2>3. \A e \in held' : Contents(e)' = Contents(e)
    <3>1. vd' = vd /\ fill' = fill
      BY <2>1
    <3> QED BY <3>1, Zenon DEF Contents
  <2>4. \A x : x \in Above' <=> \E e \in held' : x = Contents(e)'
    BY Zenon DEF Above
  <2>5. \A x : x \in Above <=> \E e \in held : x = Contents(e)
    BY Zenon DEF Above
  <2>6. \A x : x \in Above' <=> \E e \in held' : x = Contents(e)
    BY <2>3, <2>4, Zenon
  <2>7. \A e : e \in held' <=> e \in held \/ e = c
    BY <2>1
  <2>8. \A x : x \in Above' <=> x \in Above \/ x = Contents(c)
    BY <2>5, <2>6, <2>7, Zenon
  <2>9. Above' = Above \cup {Head(arrived)}
    BY <2>2, <2>8
  <2>10. Fifo!Deliver
    BY <2>1, <2>2, <2>9, Zenon DEF Fifo!Deliver, Above
  <2> QED BY <2>10, Zenon DEF Fifo!Next
<1>7. ASSUME NEW m \in Sending, HwFill(m)
      PROVE  arrived' = arrived /\ Above' = Above
  <2>1. held' = held /\ arrived' = arrived
    BY <1>7 DEF HwFill
  <2>2. \A c \in held : Contents(c)' = Contents(c)
    BY <1>7, FillKeeps
  <2> QED BY <2>1, <2>2, AboveSame
<1>8. ASSUME NEW m \in Sending, HwReceive(m)
      PROVE  Fifo!Next
  <2>1. held' = held /\ arrived' = Append(arrived, Message(m))
    BY <1>8 DEF HwReceive
  <2>2. (\A c \in held : Contents(c)' = Contents(c)) /\ Message(m) \in Fifo!Messages
    BY <1>8, ReceiveKeeps
  <2>3. Above' = Above
    BY <2>1, <2>2, AboveSame
  <2>4. \E x \in Fifo!Messages : arrived' = Append(arrived, x) /\ Above' = Above
    BY <2>1, <2>2, <2>3
  <2> QED BY <2>4, Zenon DEF Fifo!Next, Fifo!Receive, Above
<1> QED BY <1>2, <1>3, <1>4, <1>5, <1>6, <1>7, <1>8 DEF Next

(* Every message is passed up once, whole and in order of arrival, and     *)
(* nothing changes it while the upper layers hold it.                      *)
THEOREM FifoImplemented == Spec => ImplementsFifo
<1>1. Init => Fifo!Init
  BY DEF Init, Fifo!Init
<1> QED BY <1>1, Invariance, StepFifo, PTL DEF Spec, ImplementsFifo, Fifo!Spec
=============================================================================
