---------------------------- MODULE TxAggrProofs ----------------------------
(* Proofs about TxAggr for any finite set of traffic identifiers, any number
   of buffers, every size of the rings and of the window. *)
EXTENDS TxAggrInv, FiniteSetTheorems, SequenceTheorems, WellFoundedInduction, TLAPS

-----------------------------------------------------------------------------
(* Induction over the natural numbers, for a set. *)

(* A set of naturals has a least element. *)
LEMMA LeastOf ==
    ASSUME NEW T \in SUBSET Nat, T # {}
    PROVE  \E x \in T : \A y \in T : x <= y
<1> DEFINE R == OpToRel(<, Nat)
<1>1. IsWellFoundedOn(R, Nat) BY NatLessThanWellFounded
<1> HIDE DEF R
<1>2. T \subseteq Nat OBVIOUS
<1>3. \E x \in T : \A y \in T : ~(<<y, x>> \in R) BY <1>1, <1>2, WFMin
<1>4. PICK x \in T : \A y \in T : ~(<<y, x>> \in R) BY <1>3
<1>5. ASSUME NEW y \in T
      PROVE  x <= y
  <2>1. ~(<<y, x>> \in R) BY <1>4
  <2>2. ~(y < x) BY <2>1 DEF R, OpToRel
  <2> QED BY <2>2
<1> QED BY <1>4, <1>5

(* Induction over the naturals, for a set. *)
LEMMA SetInduction ==
    ASSUME NEW M, 0 \in M, \A n \in Nat : n \in M => n + 1 \in M
    PROVE  \A n \in Nat : n \in M
<1> DEFINE T == {n \in Nat : n \notin M}
<1> SUFFICES ASSUME T # {} PROVE FALSE OBVIOUS
<1>1. PICK x \in T : \A y \in T : x <= y BY LeastOf
<1>2. x # 0 /\ x \in Nat /\ x \notin M OBVIOUS
<1>3. x - 1 \in Nat /\ x - 1 \notin T BY <1>1, <1>2
<1>4. x - 1 \in M BY <1>3
<1>5. (x - 1) + 1 \in M BY <1>3, <1>4
<1> QED BY <1>2, <1>5

-----------------------------------------------------------------------------
(* Folds.  c picks an element of each subset of S, g is the step, and the
   values stay in D. *)

(* The subsets of a finite set, and what is left when one is picked. *)
LEMMA Picked ==
    ASSUME NEW S, IsFiniteSet(S), NEW c \in Picker(S), NEW s \in SUBSET S
    PROVE  /\ IsFiniteSet(s) /\ Cardinality(s) \in Nat /\ (Cardinality(s) = 0 <=> s = {})
           /\ s # {} => /\ c[s] \in s /\ s \ {c[s]} \in SUBSET S
                        /\ Cardinality(s \ {c[s]}) = Cardinality(s) - 1
<1>1. IsFiniteSet(s) /\ Cardinality(s) \in Nat /\ (Cardinality(s) = 0 <=> s = {})
  BY FS_Subset, FS_CardinalityType, FS_EmptySet
<1>2. ASSUME s # {}
      PROVE  c[s] \in s
  BY <1>2 DEF Picker
<1>3. ASSUME s # {}
      PROVE  Cardinality(s \ {c[s]}) = Cardinality(s) - 1
  BY <1>1, <1>2, <1>3, FS_RemoveElement
<1> QED BY <1>1, <1>2, <1>3

(* Induction over the subsets of a finite set, for a set of them. *)
LEMMA SubsetInduction ==
    ASSUME NEW S, IsFiniteSet(S), NEW M, {} \in M,
           \A s \in SUBSET S : s # {} /\ (\A x \in s : s \ {x} \in M) => s \in M
    PROVE  \A s \in SUBSET S : s \in M
<1> DEFINE N == {n \in Nat : \A s \in UpTo(S, n) : s \in M}
<1>1. ASSUME NEW s \in SUBSET S
      PROVE  IsFiniteSet(s) /\ Cardinality(s) \in Nat /\ (Cardinality(s) = 0 <=> s = {})
  BY FS_Subset, FS_CardinalityType, FS_EmptySet
<1>2. 0 \in N
  <2>1. \A s \in UpTo(S, 0) : s = {} BY <1>1 DEF UpTo
  <2> QED BY <2>1
<1>3. ASSUME NEW n \in Nat, n \in N
      PROVE  n + 1 \in N
  <2>1. ASSUME NEW s \in UpTo(S, n + 1), s # {}
        PROVE  s \in M
    <3>1. s \in SUBSET S /\ Cardinality(s) <= n + 1 BY DEF UpTo
    <3>2. ASSUME NEW x \in s
          PROVE  s \ {x} \in M
      <4>1. Cardinality(s \ {x}) = Cardinality(s) - 1 /\ Cardinality(s) \in Nat
        BY <1>1, <3>1, FS_RemoveElement
      <4>2. s \ {x} \in UpTo(S, n) BY <3>1, <4>1 DEF UpTo
      <4> QED BY <1>3, <4>2
    <3> QED BY <2>1, <3>1, <3>2
  <2> QED BY <2>1
<1> HIDE DEF N
<1>4. \A n \in Nat : n \in N BY <1>2, <1>3, SetInduction
<1>5. ASSUME NEW s \in SUBSET S
      PROVE  s \in M
  <2>1. s \in UpTo(S, Cardinality(s)) /\ Cardinality(s) \in Nat BY <1>1 DEF UpTo
  <2> QED BY <1>4, <2>1 DEF N
<1> QED BY <1>5

(* The recursion of a fold over the subsets of D has a solution. *)
LEMMA FoldExists ==
    ASSUME NEW S, IsFiniteSet(S), NEW D, NEW b \in D, NEW c \in Picker(S), NEW g \in Steps(S, D)
    PROVE  HasFold(S, D, b, c, g)
<1> DEFINE Fit(n) == \E f \in [UpTo(S, n) -> D] : \A s \in UpTo(S, n) : f[s] = FoldVal(f, s, b, c, g)
           M == {n \in Nat : Fit(n)}
<1>1. 0 \in M
  <2> DEFINE f == [s \in UpTo(S, 0) |-> b]
  <2>1. \A s \in UpTo(S, 0) : s = {}
    BY FS_Subset, FS_CardinalityType, FS_EmptySet DEF UpTo
  <2>2. \A s \in UpTo(S, 0) : f[s] = FoldVal(f, s, b, c, g) BY <2>1 DEF FoldVal
  <2>3. f \in [UpTo(S, 0) -> D] OBVIOUS
  <2> QED BY <2>2, <2>3
<1>2. ASSUME NEW n \in Nat, n \in M
      PROVE  n + 1 \in M
  <2>1. PICK f \in [UpTo(S, n) -> D] : \A s \in UpTo(S, n) : f[s] = FoldVal(f, s, b, c, g)
    BY <1>2
  <2> DEFINE h == [s \in UpTo(S, n + 1) |-> FoldVal(f, s, b, c, g)]
  <2>2. ASSUME NEW s \in UpTo(S, n + 1), s # {}
        PROVE  s \ {c[s]} \in UpTo(S, n) /\ c[s] \in S
    <3>1. s \in SUBSET S /\ Cardinality(s) <= n + 1 BY DEF UpTo
    <3>2. /\ c[s] \in s /\ s \ {c[s]} \in SUBSET S /\ Cardinality(s) \in Nat
          /\ Cardinality(s \ {c[s]}) = Cardinality(s) - 1
      BY <2>2, <3>1, Picked
    <3>3. Cardinality(s \ {c[s]}) <= n BY <3>1, <3>2
    <3> QED BY <3>1, <3>2, <3>3 DEF UpTo
  <2>3. UpTo(S, n) \subseteq UpTo(S, n + 1)
    BY FS_Subset, FS_CardinalityType DEF UpTo
  <2>4. \A s \in UpTo(S, n) : h[s] = f[s] BY <2>1, <2>3
  <2>5. h \in [UpTo(S, n + 1) -> D] BY <2>2 DEF FoldVal, Steps
  <2>6. ASSUME NEW s \in UpTo(S, n + 1)
        PROVE  h[s] = FoldVal(h, s, b, c, g)
    <3>1. CASE s = {} BY <3>1 DEF FoldVal
    <3>2. CASE s # {} BY <2>2, <2>4, <3>2 DEF FoldVal
    <3> QED BY <3>1, <3>2
  <2> HIDE DEF h
  <2> QED BY <2>5, <2>6
<1> HIDE DEF M
<1>3. \A n \in Nat : n \in M BY <1>1, <1>2, SetInduction
<1>4. Cardinality(S) \in Nat /\ UpTo(S, Cardinality(S)) = SUBSET S
  <2>1. \A s \in SUBSET S : Cardinality(s) <= Cardinality(S) BY FS_Subset
  <2> QED BY <2>1, FS_CardinalityType DEF UpTo
<1>5. Fit(Cardinality(S)) BY <1>3, <1>4 DEF M
<1> QED BY <1>4, <1>5 DEF HasFold

(* A fold keeps the set its steps keep. *)
LEMMA FoldTyped ==
    ASSUME NEW S, IsFiniteSet(S), NEW D, NEW b \in D, NEW c \in Picker(S), NEW g \in Steps(S, D),
           NEW f, Folded(f, S, D, b, c, g)
    PROVE  \A s \in SUBSET S : f[s] \in D /\ f[s] = FoldVal(f, s, b, c, g)
<1> USE DEF Folded, Steps
<1> DEFINE M == {s \in SUBSET S : f[s] \in D}
<1>1. {} \in M OBVIOUS
<1>2. ASSUME NEW s \in SUBSET S, s # {}, \A x \in s : s \ {x} \in M
      PROVE  s \in M
  <2>1. c[s] \in s BY <1>2, Picked
  <2>2. f[s \ {c[s]}] \in D BY <1>2, <2>1
  <2>3. f[s] = g[<<c[s], f[s \ {c[s]}]>>] BY <1>2, <2>2
  <2>4. c[s] \in S BY <2>1
  <2> QED BY <2>2, <2>3, <2>4
<1> HIDE DEF M
<1>3. \A s \in SUBSET S : s \in M BY <1>1, <1>2, SubsetInduction
<1>4. ASSUME NEW s \in SUBSET S
      PROVE  f[s] \in D
  BY <1>3 DEF M
<1>5. ASSUME NEW s \in SUBSET S, s # {}
      PROVE  f[s] = g[<<c[s], f[s \ {c[s]}]>>]
  BY <1>4, <1>5
<1> QED BY <1>4, <1>5 DEF FoldVal

(* The maximum of a non-empty part of 1..N is in it. *)
LEMMA MaxIn ==
    ASSUME NEW N \in Nat, NEW s \in SUBSET (1..N), s # {}
    PROVE  Max(s) \in s /\ Max(s) \in 1..N
<1> DEFINE T == {N - x : x \in s}
<1>1. T \in SUBSET Nat /\ T # {}
  <2>1. PICK x \in s : TRUE OBVIOUS
  <2>2. N - x \in T BY <2>1
  <2>3. \A y \in s : N - y \in Nat OBVIOUS
  <2> QED BY <2>2, <2>3
<1>2. PICK z \in T : \A y \in T : z <= y BY <1>1, LeastOf
<1>3. PICK x \in s : z = N - x BY <1>2
<1>4. \A y \in s : N - x <= N - y BY <1>2, <1>3
<1>5. \A y \in s : x >= y BY <1>4
<1> QED BY <1>3, <1>5 DEF Max

(* The choice the sequence folds make is one of a set of positions. *)
LEMMA LastPicks ==
    ASSUME NEW N \in Nat
    PROVE  /\ LastOf(N) \in Picker(1..N) /\ IsFiniteSet(1..N)
           /\ \A s \in SUBSET (1..N) : s # {} => LastOf(N)[s] = Max(s)
           /\ \A n \in 1..N : Max(1..n) = n /\ (1..n) \ {n} = 1..(n - 1)
<1>1. IsFiniteSet(1..N) BY FS_Interval
<1>2. ASSUME NEW s \in SUBSET (1..N), s # {}
      PROVE  Max(s) \in s
  BY <1>2, MaxIn
<1>3. ASSUME NEW n \in 1..N
      PROVE  Max(1..n) = n
  <2>1. n \in 1..n /\ \A y \in 1..n : n >= y OBVIOUS
  <2>2. \A x \in 1..n : (\A y \in 1..n : x >= y) => x = n BY <2>1
  <2> QED BY <2>1, <2>2 DEF Max
<1>4. LastOf(N) \in [(SUBSET (1..N)) \ {{}} -> 1..N]
  <2>1. ASSUME NEW s \in (SUBSET (1..N)) \ {{}}
        PROVE  Max(s) \in 1..N
    <3>1. s \in SUBSET (1..N) /\ s # {} OBVIOUS
    <3>2. Max(s) \in s BY <1>2, <3>1
    <3> QED BY <3>1, <3>2
  <2> QED BY <2>1, Zenon DEF LastOf
<1>5. \A s \in SUBSET (1..N) : s # {} => LastOf(N)[s] = Max(s) BY DEF LastOf
<1>6. LastOf(N) \in Picker(1..N) BY <1>2, <1>4, <1>5 DEF Picker
<1> QED BY <1>1, <1>3, <1>5, <1>6

(* FoldLeft is the last value of a run through the sequence. *)
LEMMA LeftFold ==
    ASSUME NEW N \in Nat, NEW D, NEW b \in D, NEW g \in Steps(1..N, D),
           NEW f, LeftFolded(f, N, D, b, g)
    PROVE  LeftRun(N, D, b, g, f)
<1> DEFINE c == LastOf(N)
<1>1. c \in Picker(1..N) /\ IsFiniteSet(1..N) /\ \A s \in SUBSET (1..N) : s # {} => c[s] = Max(s)
  BY LastPicks
<1> HIDE DEF c
<1> DEFINE S == 1..N
<1>2. \A s \in SUBSET S : f[s] \in D /\ f[s] = FoldVal(f, s, b, c, g)
  <2>1. IsFiniteSet(S) /\ c \in Picker(S) /\ g \in Steps(S, D) /\ Folded(f, S, D, b, c, g)
    BY <1>1 DEF Folded, LeftFolded
  <2> HIDE DEF S
  <2> QED BY <2>1, FoldTyped
<1>3. S = 1..N /\ f[{}] = b BY DEF LeftFolded
<1> DEFINE p == [n \in 0..N |-> f[1..n]]
<1>4. p \in [0..N -> D]
  <2>1. \A n \in 0..N : 1..n \in SUBSET (1..N) OBVIOUS
  <2> QED BY <1>2, <2>1
<1>5. p[0] = b /\ p[N] = f[1..N]
  <2>1. 1..0 = {} OBVIOUS
  <2> QED BY <1>3, <2>1
<1>6. ASSUME NEW n \in 1..N
      PROVE  p[n] = g[<<n, p[n - 1]>>]
  <2>1. Max(1..n) = n /\ (1..n) \ {n} = 1..(n - 1) BY LastPicks
  <2>2. 1..n \in SUBSET (1..N) /\ n \in 1..n /\ n - 1 \in 0..N /\ n \in 0..N
    OBVIOUS
  <2>3. f[1..n] = g[<<n, f[1..(n - 1)]>>]
    BY <1>1, <1>2, <2>1, <2>2, ZenonT(60) DEF FoldVal
  <2> QED BY <2>2, <2>3
<1> HIDE DEF p
<1> QED BY <1>4, <1>5, <1>6 DEF LeftRun

(* There is such a run, with all its values in the set the step keeps. *)
LEMMA LeftExists ==
    ASSUME NEW N \in Nat, NEW D, NEW b \in D, NEW g \in Steps(1..N, D)
    PROVE  HasLeft(N, D, b, g)
<1> DEFINE c == LastOf(N)
           S == 1..N
<1>1. c \in Picker(S) /\ IsFiniteSet(S) /\ \A s \in SUBSET S : s # {} => c[s] = Max(s)
  BY LastPicks
<1>2. g \in Steps(S, D) OBVIOUS
<1> HIDE DEF c, S
<1>3. PICK f \in [SUBSET S -> D] : \A s \in SUBSET S : f[s] = FoldVal(f, s, b, c, g)
  <2>1. HasFold(S, D, b, c, g) BY <1>1, <1>2, FoldExists
  <2> QED BY <2>1 DEF HasFold
<1>4. ASSUME NEW s \in SUBSET S
      PROVE  f[s] = IF s = {} THEN b ELSE g[<<Max(s), f[s \ {Max(s)}]>>]
  BY <1>1, <1>3 DEF FoldVal
<1> QED BY <1>3, <1>4 DEF S, HasLeft

-----------------------------------------------------------------------------
(* The block-ack window of one identifier: types. *)

(* The moduli as bounds on sequence numbers and slots. *)
LEMMA BawBounds ==
    /\ SeqMax \in Nat /\ SeqMax >= 1 /\ TidMaxBufs \in Nat /\ TidMaxBufs >= 1
    /\ BawSize \in Nat /\ BawSize >= 1 /\ BawSize < TidMaxBufs /\ TidMaxBufs <= SeqMax
BY BawAssumption

(* Sequence numbers and slots stay in their rings. *)
LEMMA RingTypes ==
    /\ \A a \in Int : a % SeqMax \in SeqNos /\ a % TidMaxBufs \in Slots
    /\ SeqNos \subseteq Int /\ Slots \subseteq Int
    /\ 0 \in SeqNos /\ 0 \in Slots
BY BawBounds DEF SeqNos, Slots

(* The tail is fewer slots behind the head than there are. *)
LEMMA SpanType ==
    ASSUME NEW w \in TidStates
    PROVE  /\ Span(w) \in 0..(TidMaxBufs - 1)
           /\ Busy(w) \subseteq 0..(Span(w) - 1) /\ Busy(w) \in SUBSET Nat
           /\ IsFiniteSet(Busy(w)) /\ Cardinality(Busy(w)) \in Nat
<1>1. w.baw_tail \in Int /\ w.baw_head \in Int BY RingTypes DEF TidStates
<1>2. Span(w) \in 0..(TidMaxBufs - 1) BY <1>1, RingTypes DEF Span, Slots
<1>3. Busy(w) \subseteq 0..(Span(w) - 1) /\ Busy(w) \in SUBSET Nat
  BY <1>2 DEF Busy
<1>4. IsFiniteSet(0..(Span(w) - 1)) BY <1>2, BawBounds, FS_Interval
<1> QED BY <1>2, <1>3, <1>4, FS_Subset, FS_CardinalityType

(* A set of naturals that has an element has a least one, its Min. *)
LEMMA MinOf ==
    ASSUME NEW T \in SUBSET Nat, T # {}
    PROVE  Min(T) \in T /\ \A y \in T : Min(T) <= y
BY LeastOf DEF Min

(* The loop of ath_tx_update_baw stops at the tail at the latest. *)
LEMMA ClearType ==
    ASSUME NEW w \in TidStates
    PROVE  /\ Clear(w) \in Nat /\ Clear(w) <= Span(w)
           /\ Clear(w) \in Busy(w) \cup {Span(w)}
           /\ \A i \in Busy(w) : Clear(w) <= i
<1>1. Busy(w) \cup {Span(w)} \in SUBSET Nat /\ Span(w) \in Busy(w) \cup {Span(w)}
  BY SpanType, BawBounds
<1> QED BY <1>1, MinOf DEF Clear

(* A window moved forward is a window. *)
LEMMA AdvanceType ==
    ASSUME NEW r, NEW w \in Windows(r), NEW n \in Nat
    PROVE  Advance(w, n) \in Windows(r)
<1>1. w.seq_start \in SeqNos /\ w.baw_head \in Slots BY DEF Windows, TidStates
<1>2. SeqPlus(w.seq_start, n) \in SeqNos /\ SlotPlus(w.baw_head, n) \in Slots
  BY <1>1, BawBounds DEF SeqPlus, SlotPlus, SeqNos, Slots
<1> QED BY <1>2 DEF Advance, Windows, TidStates, SameQueue

(* ath_tx_addto_baw, ath_tx_update_baw and the closing loop of
   ath_tgt_tx_cleanup keep the type of an identifier. *)
LEMMA BawTypes ==
    ASSUME NEW r \in TidStates, NEW seq \in SeqNos
    PROVE  /\ SlotOf(r, seq) \in Slots
           /\ AddToBaw(r, seq) \in Windows(r)
           /\ UpdateBaw(r, seq) \in Windows(r)
           /\ CloseBaw(r) \in Windows(r)
<1>0. r.seq_start \in SeqNos /\ r.baw_head \in Slots BY DEF TidStates
<1>1. BaIndex(r.seq_start, seq) \in SeqNos
  BY <1>0, BawBounds DEF BaIndex, SeqNos
<1>2. SlotOf(r, seq) \in Slots
  BY <1>0, <1>1, BawBounds DEF SlotOf, SlotPlus, SeqNos, Slots
<1>3. SlotPlus(SlotOf(r, seq), 1) \in Slots
  BY <1>2, BawBounds DEF SlotPlus, Slots
<1>4. AddToBaw(r, seq) \in Windows(r)
  BY <1>2, <1>3 DEF AddToBaw, Windows, TidStates, SameQueue
<1>5. ASSUME NEW B \in SUBSET Slots
      PROVE  [r EXCEPT !.bitmap = B] \in Windows(r)
  BY DEF Windows, TidStates, SameQueue
<1>6. r.bitmap \in SUBSET Slots BY DEF TidStates
<1>7. UpdateBaw(r, seq) \in Windows(r)
  <2> DEFINE B == r.bitmap \ {SlotOf(r, seq)}
             c == [r EXCEPT !.bitmap = B]
  <2>1. c \in Windows(r) /\ c \in TidStates BY <1>5, <1>6 DEF Windows
  <2>2. UpdateBaw(r, seq) = Advance(c, Clear(c)) BY DEF UpdateBaw
  <2> HIDE DEF c
  <2> QED BY <2>1, <2>2, ClearType, AdvanceType
<1>8. CloseBaw(r) \in Windows(r)
  <2> DEFINE B == r.bitmap \ {SlotPlus(r.baw_head, i) : i \in Busy(r)}
             c == [r EXCEPT !.bitmap = B]
  <2>1. c \in Windows(r) BY <1>5, <1>6
  <2>2. CloseBaw(r) = Advance(c, Span(r)) /\ Span(r) \in Nat
    BY SpanType, BawBounds DEF CloseBaw
  <2> HIDE DEF c
  <2> QED BY <2>1, <2>2, AdvanceType
<1> QED BY <1>2, <1>4, <1>7, <1>8

-----------------------------------------------------------------------------
(* The folds of the model, step by step. *)

(* AddAllToBaw as a run of ath_tx_addto_baw. *)
LEMMA AddAllRun ==
    ASSUME NEW q \in Seq(Frames), NEW D, NEW b \in D,
           \A n \in 1..Len(q), w \in D : AddStep(w, q[n]) \in D
    PROVE  AddAllRuns(q, D, b)
<1> DEFINE N == Len(q)
           g == [x \in (1..N) \X D |-> AddStep(x[2], q[x[1]])]
           Eqn(f) == [s \in SUBSET DOMAIN q |->
                        IF s = {} THEN b ELSE AddStep(f[s \ {Max(s)}], q[Max(s)])]
           F == CHOOSE f : f = Eqn(f)
<1>1. AddAllToBaw(b, q) = F[DOMAIN q]
  BY DEF AddAllToBaw, FoldLeft, MapThenFoldSet, AddStep
<1>2. DOMAIN q = 1..N /\ N \in Nat OBVIOUS
<1>3. g \in Steps(1..N, D) BY DEF Steps
<1>4. \A n \in 1..N, w \in D : g[<<n, w>>] = AddStep(w, q[n]) OBVIOUS
<1> HIDE DEF g
<1>5. F = Eqn(F)
  <2>1. HasLeft(N, D, b, g) BY <1>2, <1>3, LeftExists
  <2>2. PICK f \in [SUBSET (1..N) -> D] :
          \A s \in SUBSET (1..N) : f[s] = IF s = {} THEN b ELSE g[<<Max(s), f[s \ {Max(s)}]>>]
    BY <2>1 DEF HasLeft
  <2>3. ASSUME NEW s \in SUBSET (1..N)
        PROVE  f[s] = IF s = {} THEN b ELSE AddStep(f[s \ {Max(s)}], q[Max(s)])
    <3>1. s # {} => Max(s) \in 1..N /\ f[s \ {Max(s)}] \in D BY <1>2, MaxIn
    <3> QED BY <1>4, <2>2, <3>1
  <2>4. f = Eqn(f) BY <1>2, <2>2, <2>3, Zenon
  <2> QED BY <2>4
<1> HIDE DEF F
<1>6. F[{}] = b /\ \A s \in SUBSET (1..N) : s # {} => F[s] = AddStep(F[s \ {Max(s)}], q[Max(s)])
  <2>1. \A s \in SUBSET (1..N) : F[s] = IF s = {} THEN b ELSE AddStep(F[s \ {Max(s)}], q[Max(s)])
    BY <1>2, <1>5, Zenon
  <2> QED BY <2>1, Zenon
<1>7. ASSUME NEW s \in SUBSET (1..N), s # {}, F[s \ {Max(s)}] \in D
      PROVE  F[s] = g[<<Max(s), F[s \ {Max(s)}]>>]
  <2>1. Max(s) \in 1..N BY <1>2, <1>7, MaxIn
  <2> QED BY <1>4, <1>6, <1>7, <2>1
<1>8. LeftRun(N, D, b, g, F) BY <1>2, <1>3, <1>6, <1>7, LeftFold DEF LeftFolded
<1>9. PICK p \in [0..N -> D] : /\ p[0] = b /\ p[N] = F[1..N]
                              /\ \A n \in 1..N : p[n] = g[<<n, p[n - 1]>>]
  BY <1>8 DEF LeftRun
<1>10. ASSUME NEW n \in 1..N
       PROVE  p[n] = AddStep(p[n - 1], q[n])
  <2>1. n - 1 \in 0..N BY <1>2
  <2>2. p[n - 1] \in D BY <1>9, <2>1
  <2> QED BY <1>4, <1>9, <2>2
<1> QED BY <1>1, <1>2, <1>9, <1>10 DEF AddAllRuns

(* UpdateBawFor as a run of ath_tx_update_baw. *)
LEMMA UpdateRun ==
    ASSUME NEW q \in Seq(Frames), NEW D, NEW b \in D, NEW K,
           \A n \in 1..Len(q), w \in D : UpdStep(w, q[n], K) \in D
    PROVE  UpdateRuns(q, D, b, K)
<1> DEFINE N == Len(q)
           g == [x \in (1..N) \X D |-> UpdStep(x[2], q[x[1]], K)]
           Eqn(f) == [s \in SUBSET DOMAIN q |->
                        IF s = {} THEN b ELSE UpdStep(f[s \ {Max(s)}], q[Max(s)], K)]
           F == CHOOSE f : f = Eqn(f)
<1>1. UpdateBawFor(b, q, K) = F[DOMAIN q]
  BY DEF UpdateBawFor, FoldLeft, MapThenFoldSet, UpdStep
<1>2. DOMAIN q = 1..N /\ N \in Nat OBVIOUS
<1>3. g \in Steps(1..N, D) BY DEF Steps
<1>4. \A n \in 1..N, w \in D : g[<<n, w>>] = UpdStep(w, q[n], K) OBVIOUS
<1> HIDE DEF g
<1>5. F = Eqn(F)
  <2>1. HasLeft(N, D, b, g) BY <1>2, <1>3, LeftExists
  <2>2. PICK f \in [SUBSET (1..N) -> D] :
          \A s \in SUBSET (1..N) : f[s] = IF s = {} THEN b ELSE g[<<Max(s), f[s \ {Max(s)}]>>]
    BY <2>1 DEF HasLeft
  <2>3. ASSUME NEW s \in SUBSET (1..N)
        PROVE  f[s] = IF s = {} THEN b ELSE UpdStep(f[s \ {Max(s)}], q[Max(s)], K)
    <3>1. s # {} => Max(s) \in 1..N /\ f[s \ {Max(s)}] \in D BY <1>2, MaxIn
    <3> QED BY <1>4, <2>2, <3>1
  <2>4. f = Eqn(f) BY <1>2, <2>2, <2>3, Zenon
  <2> QED BY <2>4
<1> HIDE DEF F
<1>6. F[{}] = b /\ \A s \in SUBSET (1..N) : s # {} => F[s] = UpdStep(F[s \ {Max(s)}], q[Max(s)], K)
  <2>1. \A s \in SUBSET (1..N) : F[s] = IF s = {} THEN b ELSE UpdStep(F[s \ {Max(s)}], q[Max(s)], K)
    BY <1>2, <1>5, Zenon
  <2> QED BY <2>1, Zenon
<1>7. ASSUME NEW s \in SUBSET (1..N), s # {}, F[s \ {Max(s)}] \in D
      PROVE  F[s] = g[<<Max(s), F[s \ {Max(s)}]>>]
  <2>1. Max(s) \in 1..N BY <1>2, <1>7, MaxIn
  <2> QED BY <1>4, <1>6, <1>7, <2>1
<1>8. LeftRun(N, D, b, g, F) BY <1>2, <1>3, <1>6, <1>7, LeftFold DEF LeftFolded
<1>9. PICK p \in [0..N -> D] : /\ p[0] = b /\ p[N] = F[1..N]
                              /\ \A n \in 1..N : p[n] = g[<<n, p[n - 1]>>]
  BY <1>8 DEF LeftRun
<1>10. ASSUME NEW n \in 1..N
       PROVE  p[n] = UpdStep(p[n - 1], q[n], K)
  <2>1. n - 1 \in 0..N BY <1>2
  <2>2. p[n - 1] \in D BY <1>9, <2>1
  <2> QED BY <1>4, <1>9, <2>2
<1> QED BY <1>1, <1>2, <1>9, <1>10 DEF UpdateRuns

(* RetryAll as a run: the queue bf_q grows by the frames not done. *)
LEMMA AgainRun ==
    ASSUME NEW q \in Seq(Frames), NEW D, NEW b \in D, NEW K, b = << >>,
           \A n \in 1..Len(q), w \in D : AgainStep(w, q[n], K) \in D
    PROVE  AgainRuns(q, D, b, K)
<1> DEFINE N == Len(q)
           g == [x \in (1..N) \X D |-> AgainStep(x[2], q[x[1]], K)]
           Eqn(f) == [s \in SUBSET DOMAIN q |->
                        IF s = {} THEN b ELSE AgainStep(f[s \ {Max(s)}], q[Max(s)], K)]
           F == CHOOSE f : f = Eqn(f)
<1>1. RetryAll(q, K) = F[DOMAIN q]
  BY DEF RetryAll, FoldLeft, MapThenFoldSet, AgainStep
<1>2. DOMAIN q = 1..N /\ N \in Nat OBVIOUS
<1>3. g \in Steps(1..N, D) BY DEF Steps
<1>4. \A n \in 1..N, w \in D : g[<<n, w>>] = AgainStep(w, q[n], K) OBVIOUS
<1> HIDE DEF g
<1>5. F = Eqn(F)
  <2>1. HasLeft(N, D, b, g) BY <1>2, <1>3, LeftExists
  <2>2. PICK f \in [SUBSET (1..N) -> D] :
          \A s \in SUBSET (1..N) : f[s] = IF s = {} THEN b ELSE g[<<Max(s), f[s \ {Max(s)}]>>]
    BY <2>1 DEF HasLeft
  <2>3. ASSUME NEW s \in SUBSET (1..N)
        PROVE  f[s] = IF s = {} THEN b ELSE AgainStep(f[s \ {Max(s)}], q[Max(s)], K)
    <3>1. s # {} => Max(s) \in 1..N /\ f[s \ {Max(s)}] \in D BY <1>2, MaxIn
    <3> QED BY <1>4, <2>2, <3>1
  <2>4. f = Eqn(f) BY <1>2, <2>2, <2>3, Zenon
  <2> QED BY <2>4
<1> HIDE DEF F
<1>6. F[{}] = b /\ \A s \in SUBSET (1..N) : s # {} => F[s] = AgainStep(F[s \ {Max(s)}], q[Max(s)], K)
  <2>1. \A s \in SUBSET (1..N) : F[s] = IF s = {} THEN b ELSE AgainStep(F[s \ {Max(s)}], q[Max(s)], K)
    BY <1>2, <1>5, Zenon
  <2> QED BY <2>1, Zenon
<1>7. ASSUME NEW s \in SUBSET (1..N), s # {}, F[s \ {Max(s)}] \in D
      PROVE  F[s] = g[<<Max(s), F[s \ {Max(s)}]>>]
  <2>1. Max(s) \in 1..N BY <1>2, <1>7, MaxIn
  <2> QED BY <1>4, <1>6, <1>7, <2>1
<1>8. LeftRun(N, D, b, g, F) BY <1>2, <1>3, <1>6, <1>7, LeftFold DEF LeftFolded
<1>9. PICK p \in [0..N -> D] : /\ p[0] = b /\ p[N] = F[1..N]
                              /\ \A n \in 1..N : p[n] = g[<<n, p[n - 1]>>]
  BY <1>8 DEF LeftRun
<1>10. ASSUME NEW n \in 1..N
       PROVE  p[n] = AgainStep(p[n - 1], q[n], K)
  <2>1. n - 1 \in 0..N BY <1>2
  <2>2. p[n - 1] \in D BY <1>9, <2>1
  <2> QED BY <1>4, <1>9, <2>2
<1> QED BY <1>1, <1>2, <1>9, <1>10 DEF AgainRuns

(* The length of the hardware queue as a run of partial sums. *)
LEMMA SentRun ==
    ASSUME NEW q \in Seq(Seq(Frames)), NEW D, NEW b \in D, b = 0,
           \A n \in 1..Len(q), w \in D : Longer(w, q[n]) \in D
    PROVE  SentRuns(q, D, b)
<1> DEFINE N == Len(q)
           g == [x \in (1..N) \X D |-> Longer(x[2], q[x[1]])]
           Eqn(f) == [s \in SUBSET DOMAIN q |->
                        IF s = {} THEN b ELSE Longer(f[s \ {Max(s)}], q[Max(s)])]
           F == CHOOSE f : f = Eqn(f)
<1>1. Sent(q) = F[DOMAIN q] BY DEF Sent, FoldLeft, MapThenFoldSet, Longer
<1>2. DOMAIN q = 1..N /\ N \in Nat OBVIOUS
<1>3. g \in Steps(1..N, D) BY DEF Steps
<1>4. \A n \in 1..N, w \in D : g[<<n, w>>] = Longer(w, q[n]) OBVIOUS
<1> HIDE DEF g
<1>5. F = Eqn(F)
  <2>1. HasLeft(N, D, b, g) BY <1>2, <1>3, LeftExists
  <2>2. PICK f \in [SUBSET (1..N) -> D] :
          \A s \in SUBSET (1..N) : f[s] = IF s = {} THEN b ELSE g[<<Max(s), f[s \ {Max(s)}]>>]
    BY <2>1 DEF HasLeft
  <2>3. ASSUME NEW s \in SUBSET (1..N)
        PROVE  f[s] = IF s = {} THEN b ELSE Longer(f[s \ {Max(s)}], q[Max(s)])
    <3>1. s # {} => Max(s) \in 1..N /\ f[s \ {Max(s)}] \in D BY <1>2, MaxIn
    <3> QED BY <1>4, <2>2, <3>1
  <2>4. f = Eqn(f) BY <1>2, <2>2, <2>3, Zenon
  <2> QED BY <2>4
<1> HIDE DEF F
<1>6. F[{}] = b /\ \A s \in SUBSET (1..N) : s # {} => F[s] = Longer(F[s \ {Max(s)}], q[Max(s)])
  <2>1. \A s \in SUBSET (1..N) : F[s] = IF s = {} THEN b ELSE Longer(F[s \ {Max(s)}], q[Max(s)])
    BY <1>2, <1>5, Zenon
  <2> QED BY <2>1, Zenon
<1>7. ASSUME NEW s \in SUBSET (1..N), s # {}, F[s \ {Max(s)}] \in D
      PROVE  F[s] = g[<<Max(s), F[s \ {Max(s)}]>>]
  <2>1. Max(s) \in 1..N BY <1>2, <1>7, MaxIn
  <2> QED BY <1>4, <1>6, <1>7, <2>1
<1>8. LeftRun(N, D, b, g, F) BY <1>2, <1>3, <1>6, <1>7, LeftFold DEF LeftFolded
<1>9. PICK p \in [0..N -> D] : /\ p[0] = b /\ p[N] = F[1..N]
                              /\ \A n \in 1..N : p[n] = g[<<n, p[n - 1]>>]
  BY <1>8 DEF LeftRun
<1>10. ASSUME NEW n \in 1..N
       PROVE  p[n] = Longer(p[n - 1], q[n])
  <2>1. n - 1 \in 0..N BY <1>2
  <2>2. p[n - 1] \in D BY <1>9, <2>1
  <2> QED BY <1>4, <1>9, <2>2
<1> QED BY <1>1, <1>2, <1>9, <1>10 DEF SentRuns

(* The end of a drain as a run of ath_tgt_tid_drain. *)
LEMMA DrainRun ==
    ASSUME NEW q \in Seq(Tids), NEW D, NEW b \in D,
           \A n \in 1..Len(q), w \in D : TidDrain(w, q[n]) \in D
    PROVE  DrainRuns(q, D, b)
<1> DEFINE N == Len(q)
           g == [x \in (1..N) \X D |-> TidDrain(x[2], q[x[1]])]
           Eqn(f) == [s \in SUBSET DOMAIN q |->
                        IF s = {} THEN b ELSE TidDrain(f[s \ {Max(s)}], q[Max(s)])]
           F == CHOOSE f : f = Eqn(f)
<1>1. FoldLeft(TidDrain, b, q) = F[DOMAIN q] BY DEF FoldLeft, MapThenFoldSet
<1>2. DOMAIN q = 1..N /\ N \in Nat OBVIOUS
<1>3. g \in Steps(1..N, D) BY DEF Steps
<1>4. \A n \in 1..N, w \in D : g[<<n, w>>] = TidDrain(w, q[n]) OBVIOUS
<1> HIDE DEF g
<1>5. F = Eqn(F)
  <2>1. HasLeft(N, D, b, g) BY <1>2, <1>3, LeftExists
  <2>2. PICK f \in [SUBSET (1..N) -> D] :
          \A s \in SUBSET (1..N) : f[s] = IF s = {} THEN b ELSE g[<<Max(s), f[s \ {Max(s)}]>>]
    BY <2>1 DEF HasLeft
  <2>3. ASSUME NEW s \in SUBSET (1..N)
        PROVE  f[s] = IF s = {} THEN b ELSE TidDrain(f[s \ {Max(s)}], q[Max(s)])
    <3>1. s # {} => Max(s) \in 1..N /\ f[s \ {Max(s)}] \in D BY <1>2, MaxIn
    <3> QED BY <1>4, <2>2, <3>1
  <2>4. f = Eqn(f) BY <1>2, <2>2, <2>3, Zenon
  <2> QED BY <2>4
<1> HIDE DEF F
<1>6. F[{}] = b /\ \A s \in SUBSET (1..N) : s # {} => F[s] = TidDrain(F[s \ {Max(s)}], q[Max(s)])
  <2>1. \A s \in SUBSET (1..N) : F[s] = IF s = {} THEN b ELSE TidDrain(F[s \ {Max(s)}], q[Max(s)])
    BY <1>2, <1>5, Zenon
  <2> QED BY <2>1, Zenon
<1>7. ASSUME NEW s \in SUBSET (1..N), s # {}, F[s \ {Max(s)}] \in D
      PROVE  F[s] = g[<<Max(s), F[s \ {Max(s)}]>>]
  <2>1. Max(s) \in 1..N BY <1>2, <1>7, MaxIn
  <2> QED BY <1>4, <1>6, <1>7, <2>1
<1>8. LeftRun(N, D, b, g, F) BY <1>2, <1>3, <1>6, <1>7, LeftFold DEF LeftFolded
<1>9. PICK p \in [0..N -> D] : /\ p[0] = b /\ p[N] = F[1..N]
                              /\ \A n \in 1..N : p[n] = g[<<n, p[n - 1]>>]
  BY <1>8 DEF LeftRun
<1>10. ASSUME NEW n \in 1..N
       PROVE  p[n] = TidDrain(p[n - 1], q[n])
  <2>1. n - 1 \in 0..N BY <1>2
  <2>2. p[n - 1] \in D BY <1>9, <2>1
  <2> QED BY <1>4, <1>9, <2>2
<1> QED BY <1>1, <1>2, <1>9, <1>10 DEF DrainRuns

-----------------------------------------------------------------------------
(* How many frames the queues hold. *)

(* Partial sums that run through the queue give its number of frames. *)
LEMMA SentSum ==
    ASSUME NEW q \in Seq(Seq(Frames))
    PROVE  \E p : SumRun(p, q) /\ p[Len(q)] = Sent(q)
<1> DEFINE b == 0
           D == Nat
<1>1. b \in D /\ b = 0 /\ D = Nat OBVIOUS
<1>2. ASSUME NEW n \in 1..Len(q), NEW w \in D
      PROVE  Longer(w, q[n]) \in D
  <2>1. q[n] \in Seq(Frames) OBVIOUS
  <2> QED BY <2>1 DEF Longer
<1> HIDE DEF b, D
<1>3. PICK p \in [0..Len(q) -> D] :
          /\ p[0] = b /\ p[Len(q)] = Sent(q)
          /\ \A n \in 1..Len(q) : p[n] = Longer(p[n - 1], q[n])
  <2>1. SentRuns(q, D, b) BY <1>1, <1>2, SentRun
  <2> QED BY <2>1 DEF SentRuns
<1>4. SumRun(p, q) BY <1>1, <1>3 DEF SumRun, Longer
<1> QED BY <1>3, <1>4

(* The empty hardware queue holds nothing. *)
LEMMA SentEmpty == Sent(<< >>) = 0
<1> DEFINE q == << >>
<1>1. q \in Seq(Seq(Frames)) /\ Len(q) = 0 OBVIOUS
<1> HIDE DEF q
<1>2. PICK p : SumRun(p, q) /\ p[Len(q)] = Sent(q) BY <1>1, SentSum
<1> QED BY <1>1, <1>2 DEF SumRun, q

(* The hardware queue holds a natural number of frames. *)
LEMMA SentNat ==
    ASSUME NEW q \in Seq(Seq(Frames))
    PROVE  Sent(q) \in Nat
<1>1. PICK p : SumRun(p, q) /\ p[Len(q)] = Sent(q) BY SentSum
<1>2. Len(q) \in 0..Len(q) OBVIOUS
<1> QED BY <1>1, <1>2 DEF SumRun

(* Partial sums that differ at the start differ by as much at the end. *)
LEMMA SumShift ==
    ASSUME NEW q \in Seq(Seq(Frames)), NEW u \in Seq(Seq(Frames)), NEW k \in Nat,
           NEW p, SumRun(p, q), NEW v, SumRun(v, u), NEW m \in Nat,
           k + m <= Len(q), m <= Len(u), Shifted(q, u, k, m)
    PROVE  p[k + m] = p[k] + v[m]
<1> DEFINE M == {n \in Nat : n <= m => p[k + n] = p[k] + v[n]}
<1>1. 0 \in M
  <2>1. p[k] \in Nat /\ v[0] = 0
    <3>1. k \in 0..Len(q) OBVIOUS
    <3> QED BY <3>1 DEF SumRun
  <2> QED BY <2>1
<1>2. ASSUME NEW n \in Nat, n \in M
      PROVE  n + 1 \in M
  <2> SUFFICES ASSUME n + 1 <= m
               PROVE  p[k + (n + 1)] = p[k] + v[n + 1]
    OBVIOUS
  <2>1. k + (n + 1) \in 1..Len(q) /\ n + 1 \in 1..Len(u) /\ n + 1 \in 1..m
    OBVIOUS
  <2>2. p[k + (n + 1)] = p[k + n] + Len(q[k + (n + 1)])
    <3>1. (k + (n + 1)) - 1 = k + n OBVIOUS
    <3> QED BY <2>1, <3>1 DEF SumRun
  <2>3. v[n + 1] = v[n] + Len(u[n + 1])
    <3>1. (n + 1) - 1 = n OBVIOUS
    <3> QED BY <2>1, <3>1 DEF SumRun
  <2>4. u[n + 1] = q[k + (n + 1)] /\ Len(u[n + 1]) \in Nat BY <2>1 DEF Shifted
  <2>5. p[k + n] = p[k] + v[n] BY <1>2
  <2>6. p[k] \in Nat /\ v[n] \in Nat
    <3>1. k \in 0..Len(q) /\ n \in 0..Len(u) OBVIOUS
    <3> QED BY <3>1 DEF SumRun
  <2> DEFINE x == Len(u[n + 1])
  <2>8. p[k + (n + 1)] = (p[k] + v[n]) + x /\ v[n + 1] = v[n] + x /\ x \in Nat
    BY <2>2, <2>3, <2>4, <2>5
  <2> HIDE DEF x, M
  <2>9. (p[k] + v[n]) + x = p[k] + (v[n] + x)
    <3> DEFINE y == p[k]
               z == v[n]
    <3>1. y \in Nat /\ z \in Nat /\ x \in Nat BY <2>6, <2>8
    <3> HIDE DEF y, z
    <3>2. (y + z) + x = y + (z + x) BY <3>1
    <3> QED BY <3>2 DEF y, z
  <2> QED BY <2>8, <2>9, Zenon
<1> HIDE DEF M
<1>3. m \in M BY <1>1, <1>2, SetInduction
<1> QED BY <1>3 DEF M

(* A chain added adds its frames. *)
LEMMA SentAppend ==
    ASSUME NEW q \in Seq(Seq(Frames)), NEW c \in Seq(Frames)
    PROVE  Sent(Append(q, c)) = Sent(q) + Len(c)
<1> DEFINE u == Append(q, c)
           N == Len(q)
<1>1. u \in Seq(Seq(Frames)) /\ Len(u) = N + 1 /\ N \in Nat /\ u[N + 1] = c
      /\ \A n \in 1..N : u[n] = q[n]
  OBVIOUS
<1> HIDE DEF u
<1>2. PICK p : SumRun(p, q) /\ p[N] = Sent(q) BY SentSum
<1>3. PICK v : SumRun(v, u) /\ v[Len(u)] = Sent(u) BY <1>1, SentSum
<1>4. v[N + 1] = v[N] + Len(c)
  <2>1. N + 1 \in 1..Len(u) /\ (N + 1) - 1 = N BY <1>1
  <2> QED BY <1>1, <1>3, <2>1 DEF SumRun
<1>5. p[0 + N] = p[0] + v[N]
  <2>1. Shifted(q, u, 0, N) BY <1>1 DEF Shifted
  <2>2. 0 + N <= Len(q) /\ N <= Len(u) /\ 0 \in Nat /\ N \in Nat BY <1>1
  <2> QED BY <1>1, <1>2, <1>3, <2>1, <2>2, SumShift
<1>6. p[0] = 0 /\ v[N] \in Nat BY <1>1, <1>2, <1>3 DEF SumRun
<1> QED BY <1>1, <1>2, <1>3, <1>4, <1>5, <1>6 DEF u

(* A chain taken off takes its frames. *)
LEMMA SentTail ==
    ASSUME NEW q \in Seq(Seq(Frames)), q # << >>
    PROVE  Sent(q) = Len(Head(q)) + Sent(Tail(q))
<1> DEFINE u == Tail(q)
           M == Len(u)
<1>1. u \in Seq(Seq(Frames)) /\ Len(q) = M + 1 /\ M \in Nat /\ Head(q) = q[1]
      /\ q[1] \in Seq(Frames) /\ \A n \in 1..M : u[n] = q[1 + n]
  OBVIOUS
<1> HIDE DEF u
<1>2. PICK p : SumRun(p, q) /\ p[Len(q)] = Sent(q) BY SentSum
<1>3. PICK v : SumRun(v, u) /\ v[M] = Sent(u) BY <1>1, SentSum
<1>4. p[1 + M] = p[1] + v[M]
  <2>1. 1 + M <= Len(q) /\ M <= Len(u) /\ 1 \in Nat /\ M \in Nat /\ Shifted(q, u, 1, M)
    BY <1>1 DEF Shifted
  <2> DEFINE k == 1
  <2>2. k + M <= Len(q) /\ M <= Len(u) /\ k \in Nat /\ M \in Nat /\ Shifted(q, u, k, M)
    BY <2>1
  <2> HIDE DEF k, M
  <2>3. p[k + M] = p[k] + v[M]
    <3>1. u \in Seq(Seq(Frames)) /\ SumRun(p, q) /\ SumRun(v, u)
      BY <1>1, <1>2, <1>3
    <3> QED BY <2>2, <3>1, SumShift
  <2> QED BY <2>3 DEF k
<1>5. p[1] = p[0] + Len(q[1])
  <2>1. 1 \in 1..Len(q) /\ 1 - 1 = 0 BY <1>1
  <2> QED BY <1>2, <2>1 DEF SumRun
<1>6. p[0] = 0 /\ v[M] \in Nat /\ Len(q[1]) \in Nat
  <2>1. p[0] = 0 /\ Len(q[1]) \in Nat BY <1>1, <1>2 DEF SumRun
  <2>2. M \in 0..M /\ v \in [0..M -> Nat] BY <1>1, <1>3 DEF SumRun
  <2> QED BY <2>1, <2>2
<1> QED BY <1>1, <1>2, <1>3, <1>4, <1>5, <1>6 DEF u

-----------------------------------------------------------------------------
(* The software queues together hold so many frames. *)

(* The fold over the identifiers is a sum in which any of them may come last. *)
LEMMA QueuedSum ==
    ASSUME NEW m, DOMAIN m = Tids, \A t \in Tids : QueueLen(m, t) \in Nat
    PROVE  \E f : QueueSum(f, m) /\ f[Tids] = Queued(m)
<1> DEFINE c == [s \in (SUBSET Tids) \ {{}} |-> Pick(s)]
           g == [x \in Tids \X Nat |-> x[2] + QueueLen(m, x[1])]
           b == 0
           Eqn(f) == [s \in SUBSET DOMAIN m |->
                        IF s = {} THEN 0 ELSE f[s \ {Pick(s)}] + QueueLen(m, Pick(s))]
           F == CHOOSE f : f = Eqn(f)
<1>1. Queued(m) = F[DOMAIN m]
  BY DEF Queued, FoldFunction, FoldFunctionOnSet, MapThenFoldSet, QueueLen, Pick
<1>2. IsFiniteSet(Tids) /\ b \in Nat BY TxAssumption
<1>3. c \in Picker(Tids) /\ \A s \in SUBSET Tids : s # {} => c[s] = Pick(s) /\ Pick(s) \in s
  BY DEF Picker, Pick
<1>4. g \in Steps(Tids, Nat) BY DEF Steps
<1>5. \A t \in Tids, n \in Nat : g[<<t, n>>] = n + QueueLen(m, t) OBVIOUS
<1> HIDE DEF c, g
<1>6. F = Eqn(F)
  <2>1. HasFold(Tids, Nat, b, c, g) BY <1>2, <1>3, <1>4, FoldExists
  <2>2. PICK f \in [SUBSET Tids -> Nat] : \A s \in SUBSET Tids : f[s] = FoldVal(f, s, b, c, g)
    BY <2>1 DEF HasFold
  <2>3. ASSUME NEW s \in SUBSET Tids
        PROVE  f[s] = IF s = {} THEN 0 ELSE f[s \ {Pick(s)}] + QueueLen(m, Pick(s))
    <3>1. s # {} => Pick(s) \in Tids /\ f[s \ {Pick(s)}] \in Nat /\ c[s] = Pick(s)
      BY <1>3
    <3> QED BY <1>5, <2>2, <3>1 DEF FoldVal
  <2>4. f = Eqn(f) BY <2>2, <2>3, Zenon
  <2> QED BY <2>4
<1> HIDE DEF F
<1>7. \A s \in SUBSET Tids : F[s] = IF s = {} THEN 0 ELSE F[s \ {Pick(s)}] + QueueLen(m, Pick(s))
  BY <1>6, Zenon
<1>8. F = [s \in SUBSET Tids |-> F[s]] BY <1>6, Zenon
<1>9. Folded(F, Tids, Nat, b, c, g)
  <2>1. ASSUME NEW s \in SUBSET Tids, s # {}, F[s \ {c[s]}] \in Nat
        PROVE  F[s] = g[<<c[s], F[s \ {c[s]}]>>]
    <3>1. c[s] = Pick(s) /\ Pick(s) \in Tids BY <1>3, <2>1
    <3> QED BY <1>5, <1>7, <2>1, <3>1
  <2>2. F[{}] = b BY <1>7
  <2> HIDE DEF b
  <2> QED BY <2>1, <2>2 DEF Folded
<1>10. \A s \in SUBSET Tids : F[s] \in Nat
  <2> HIDE DEF b
  <2> QED BY <1>2, <1>3, <1>4, <1>9, FoldTyped
<1> DEFINE S == {s \in SUBSET Tids : \A x \in s : F[s] = F[s \ {x}] + QueueLen(m, x)}
<1>11. {} \in S OBVIOUS
<1>12. ASSUME NEW s \in SUBSET Tids, s # {}, \A y \in s : s \ {y} \in S
       PROVE  s \in S
  <2> DEFINE a == Pick(s)
  <2>1. a \in s /\ F[s] = F[s \ {a}] + QueueLen(m, a) BY <1>3, <1>7, <1>12
  <2> HIDE DEF a
  <2>2. ASSUME NEW x \in s, x # a
        PROVE  F[s] = F[s \ {x}] + QueueLen(m, x)
    <3>1. s \ {a} \in S /\ x \in s \ {a} /\ s \ {x} \in S /\ a \in s \ {x}
      BY <1>12, <2>1, <2>2
    <3>2. F[s \ {a}] = F[(s \ {a}) \ {x}] + QueueLen(m, x) BY <3>1
    <3>3. F[s \ {x}] = F[(s \ {x}) \ {a}] + QueueLen(m, a) BY <3>1
    <3>4. (s \ {a}) \ {x} = (s \ {x}) \ {a} /\ (s \ {a}) \ {x} \in SUBSET Tids
      OBVIOUS
    <3>5. F[(s \ {a}) \ {x}] \in Nat /\ QueueLen(m, x) \in Nat /\ QueueLen(m, a) \in Nat
      BY <1>10, <2>1, <3>4
    <3> DEFINE z == F[(s \ {a}) \ {x}]
               lx == QueueLen(m, x)
               la == QueueLen(m, a)
    <3>6. z \in Nat /\ lx \in Nat /\ la \in Nat BY <3>5
    <3>7. F[s] = (z + lx) + la BY <2>1, <3>2
    <3>8. F[s \ {x}] = z + la BY <3>3, <3>4
    <3> HIDE DEF z, lx, la
    <3>9. (z + lx) + la = (z + la) + lx BY <3>6
    <3> QED BY <3>7, <3>8, <3>9 DEF lx
  <2> QED BY <2>1, <2>2
<1> HIDE DEF S
<1>13. \A s \in SUBSET Tids : s \in S BY <1>2, <1>11, <1>12, SubsetInduction
<1>14. QueueSum(F, m)
  <2>1. F \in [SUBSET Tids -> Nat] BY <1>8, <1>10
  <2> QED BY <2>1, <1>7, <1>13 DEF QueueSum, S
<1> QED BY <1>1, <1>14

-----------------------------------------------------------------------------
(* The states of the identifiers: the software queue of each holds frames of
   its own. *)

(* The frames of a software queue are frames. *)
LEMMA OwnFramesType ==
    ASSUME NEW t \in Tids
    PROVE  OwnFrames(t) \subseteq Frames
BY DEF OwnFrames, Frames

(* A software queue has a length. *)
LEMMA QueueLenNat ==
    ASSUME NEW m \in TidMap, NEW t \in Tids
    PROVE  QueueLen(m, t) \in Nat /\ QueueLen(m, t) = Len(m[t].buf_q)
<1>1. m[t].buf_q \in Seq(OwnFrames(t)) BY DEF TidMap, OwnQueue
<1> QED BY <1>1 DEF QueueLen

(* The sum of the queues. *)
LEMMA MapSum ==
    ASSUME NEW m \in TidMap
    PROVE  \E f : QueueSum(f, m) /\ f[Tids] = Queued(m)
<1>1. DOMAIN m = Tids BY DEF TidMap
<1> QED BY <1>1, QueueLenNat, QueuedSum

(* The software queues hold a natural number of frames. *)
LEMMA QueuedNat ==
    ASSUME NEW m \in TidMap
    PROVE  Queued(m) \in Nat
<1>1. PICK f : QueueSum(f, m) /\ f[Tids] = Queued(m) BY MapSum
<1>2. Tids \in SUBSET Tids OBVIOUS
<1> QED BY <1>1, <1>2 DEF QueueSum

(* Queues that are no longer hold together no more. *)
LEMMA QueuedLe ==
    ASSUME NEW m \in TidMap, NEW w \in TidMap, NEW f, QueueSum(f, m), NEW h, QueueSum(h, w),
           NEW s \in SUBSET Tids, \A t \in s : QueueLen(w, t) <= QueueLen(m, t)
    PROVE  h[s] <= f[s]
<1> DEFINE M == {z \in SUBSET Tids : z \subseteq s => h[z] <= f[z]}
<1>1. {} \in M BY DEF QueueSum
<1>2. ASSUME NEW z \in SUBSET Tids, z # {}, \A x \in z : z \ {x} \in M
      PROVE  z \in M
  <2> SUFFICES ASSUME z \subseteq s
               PROVE  h[z] <= f[z]
    OBVIOUS
  <2>1. PICK x \in z : x \in Tids /\ x \in s BY <1>2
  <2>2. h[z \ {x}] <= f[z \ {x}] BY <1>2, <2>1
  <2>3. h[z] = h[z \ {x}] + QueueLen(w, x) /\ f[z] = f[z \ {x}] + QueueLen(m, x)
    BY <2>1 DEF QueueSum
  <2>4. z \ {x} \in SUBSET Tids OBVIOUS
  <2>5. h[z \ {x}] \in Nat /\ f[z \ {x}] \in Nat BY <2>4 DEF QueueSum
  <2>6. QueueLen(w, x) \in Nat /\ QueueLen(m, x) \in Nat /\ QueueLen(w, x) <= QueueLen(m, x)
    BY <2>1, QueueLenNat
  <2> QED BY <2>2, <2>3, <2>5, <2>6
<1> HIDE DEF M
<1>3. \A z \in SUBSET Tids : z \in M
  BY <1>1, <1>2, TxAssumption, SubsetInduction
<1> QED BY <1>3 DEF M

(* With no queue longer, there are no more frames in all. *)
LEMMA QueuedShrinks ==
    ASSUME NEW m \in TidMap, NEW w \in TidMap,
           \A t \in Tids : QueueLen(w, t) <= QueueLen(m, t)
    PROVE  Queued(w) <= Queued(m)
<1>1. PICK f : QueueSum(f, m) /\ f[Tids] = Queued(m) BY MapSum
<1>2. PICK h : QueueSum(h, w) /\ h[Tids] = Queued(w) BY MapSum
<1> QED BY <1>1, <1>2, QueuedLe

(* With every queue as long, there are as many frames in all. *)
LEMMA QueuedSame ==
    ASSUME NEW m \in TidMap, NEW w \in TidMap,
           \A t \in Tids : QueueLen(w, t) = QueueLen(m, t)
    PROVE  Queued(w) = Queued(m)
<1>1. \A t \in Tids : QueueLen(w, t) <= QueueLen(m, t) /\ QueueLen(m, t) <= QueueLen(w, t)
  BY QueueLenNat
<1>2. Queued(w) <= Queued(m) /\ Queued(m) <= Queued(w) BY <1>1, QueuedShrinks
<1> QED BY <1>2, QueuedNat

(* One queue changes. *)
LEMMA QueuedOne ==
    ASSUME NEW m \in TidMap, NEW t \in Tids, NEW r, OwnQueue(r, t)
    PROVE  /\ [m EXCEPT ![t] = r] \in TidMap
           /\ Queued([m EXCEPT ![t] = r]) = (Queued(m) - Len(m[t].buf_q)) + Len(r.buf_q)
<1> DEFINE w == [m EXCEPT ![t] = r]
<1>1. w \in TidMap /\ w[t] = r /\ \A u \in Tids : u # t => w[u] = m[u]
  BY DEF TidMap, OwnQueue
<1> HIDE DEF w
<1>2. PICK f : QueueSum(f, m) /\ f[Tids] = Queued(m) BY MapSum
<1>3. PICK h : QueueSum(h, w) /\ h[Tids] = Queued(w) BY <1>1, MapSum
<1> DEFINE s == Tids \ {t}
<1>4. f[Tids] = f[s] + QueueLen(m, t) /\ h[Tids] = h[s] + QueueLen(w, t)
  BY <1>2, <1>3 DEF QueueSum
<1>5. s \in SUBSET Tids OBVIOUS
<1>6. f[s] \in Nat /\ h[s] \in Nat BY <1>2, <1>3, <1>5 DEF QueueSum
<1>7. \A u \in s : QueueLen(w, u) = QueueLen(m, u) /\ QueueLen(m, u) \in Nat
  BY <1>1, QueueLenNat DEF QueueLen
<1> HIDE DEF s
<1>8. \A u \in s : QueueLen(w, u) <= QueueLen(m, u) /\ QueueLen(m, u) <= QueueLen(w, u)
  BY <1>7
<1>9. h[s] <= f[s] /\ f[s] <= h[s]
  <2>1. h[s] <= f[s] BY <1>1, <1>2, <1>3, <1>5, <1>8, QueuedLe
  <2>2. f[s] <= h[s] BY <1>1, <1>2, <1>3, <1>5, <1>8, QueuedLe
  <2> QED BY <2>1, <2>2
<1>10. QueueLen(m, t) = Len(m[t].buf_q) /\ QueueLen(m, t) \in Nat
       /\ QueueLen(w, t) = Len(r.buf_q) /\ QueueLen(w, t) \in Nat
  BY <1>1, QueueLenNat
<1> QED BY <1>1, <1>2, <1>3, <1>4, <1>6, <1>9, <1>10 DEF w

-----------------------------------------------------------------------------
(* The state of the firmware. *)

(* The types of the parts of a state. *)
LEMMA Types ==
    ASSUME NEW s \in States
    PROVE  /\ s.tid \in TidMap /\ s.axq \in Seq(Chains) /\ s.tidq \in Seq(Tids)
           /\ s.free \in Int /\ s.held \in Int
           /\ \A t \in Tids : /\ s.tid[t] \in TidStates /\ OwnQueue(s.tid[t], t)
                              /\ s.tid[t].buf_q \in Seq(OwnFrames(t))
           /\ NumFrames(s) = Sent(s.axq) + Queued(s.tid)
           /\ Sent(s.axq) \in Nat /\ Queued(s.tid) \in Nat /\ NumFrames(s) \in Nat
           /\ Account(s) \in Int
<1>1. /\ s.tid \in TidMap /\ s.axq \in Seq(Chains) /\ s.tidq \in Seq(Tids)
      /\ s.free \in Int /\ s.held \in Int
  BY DEF States
<1>2. \A t \in Tids : OwnQueue(s.tid[t], t) BY <1>1 DEF TidMap
<1>3. s.axq \in Seq(Seq(Frames))
  <2>1. Chains \subseteq Seq(Frames) BY DEF Chains
  <2> QED BY <1>1, <2>1
<1>4. NumFrames(s) = Sent(s.axq) + Queued(s.tid) BY DEF NumFrames, Sent, Queued
<1>5. Sent(s.axq) \in Nat /\ Queued(s.tid) \in Nat
  BY <1>1, <1>3, SentNat, QueuedNat
<1> QED BY <1>1, <1>2, <1>4, <1>5 DEF OwnQueue, Account

(* The counts of a state are numbers. *)
LEMMA Nums ==
    ASSUME NEW s \in States
    PROVE  /\ s.free \in Int /\ s.held \in Int
           /\ NumFrames(s) = Sent(s.axq) + Queued(s.tid)
           /\ Sent(s.axq) \in Nat /\ Queued(s.tid) \in Nat /\ NumFrames(s) \in Nat
           /\ Account(s) = s.free + NumFrames(s) /\ Account(s) \in Int
BY Types DEF Account

(* Two operators after one another. *)
LEMMA KeepsTrans ==
    ASSUME NEW s \in States, NEW v, NEW u, NEW d \in Int, NEW e \in Int,
           Keeps(s, v, d), Keeps(v, u, e)
    PROVE  Keeps(s, u, d + e)
<1>1. Account(s) \in Int /\ Account(v) \in Int /\ Account(u) \in Int
      /\ s.free \in Int /\ v.free \in Int /\ u.free \in Int
  BY Types DEF Keeps
<1> QED BY <1>1 DEF Keeps

-----------------------------------------------------------------------------
(* Steps on the state. *)

(* A change of one identifier, a chain added and n buffers released. *)
LEMMA PutKeeps ==
    ASSUME NEW s \in States, NEW n \in Nat, NEW t \in Tids, NEW r, Follows(s, t, r)
    PROVE  /\ Put(s, n, t, r) \in States
           /\ Keeps(s, Put(s, n, t, r), (n + Len(r.buf_q)) - Len(s.tid[t].buf_q))
<1> DEFINE v == Put(s, n, t, r)
<1>1. /\ v.tid = [s.tid EXCEPT ![t] = r]
      /\ v.axq = s.axq /\ v.tidq = s.tidq
      /\ v.free = s.free + n /\ v.held = s.held - n
      /\ v = [s EXCEPT !.tid = [s.tid EXCEPT ![t] = r], !.free = s.free + n, !.held = s.held - n]
  BY DEF Put, Release, States
<1> HIDE DEF v
<1>2. s.tid \in TidMap /\ OwnQueue(r, t) BY Types DEF Follows
<1>3. v.tid \in TidMap /\ Queued(v.tid) = (Queued(s.tid) - Len(s.tid[t].buf_q)) + Len(r.buf_q)
  <2>1. /\ [s.tid EXCEPT ![t] = r] \in TidMap
        /\ Queued([s.tid EXCEPT ![t] = r]) = (Queued(s.tid) - Len(s.tid[t].buf_q)) + Len(r.buf_q)
    BY <1>2, QueuedOne
  <2>2. v.tid = [s.tid EXCEPT ![t] = r] BY <1>1
  <2> QED BY <2>1, <2>2
<1>4. v \in States
  <2>1. s.free + n \in Int /\ s.held - n \in Int BY Types
  <2> QED BY <1>1, <1>3, <2>1 DEF States
<1>5. v.tid[t] = r /\ \A u \in Tids : u # t => v.tid[u] = s.tid[u]
  BY <1>1, <1>2 DEF TidMap
<1>6. Account(v) = Account(s) + ((n + Len(r.buf_q)) - Len(s.tid[t].buf_q))
  <2>1. NumFrames(v) = Sent(s.axq) + Queued(v.tid) /\ Account(v) = v.free + NumFrames(v)
    BY <1>1, <1>4, Nums
  <2>2. Len(r.buf_q) \in Nat /\ Len(s.tid[t].buf_q) \in Nat
    BY <1>2, Types DEF OwnQueue
  <2>3. /\ NumFrames(s) = Sent(s.axq) + Queued(s.tid) /\ Account(s) = s.free + NumFrames(s)
        /\ s.free \in Int /\ Sent(s.axq) \in Nat /\ Queued(s.tid) \in Nat
    BY Nums
  <2> DEFINE lr == Len(r.buf_q)
             lt == Len(s.tid[t].buf_q)
             qs == Queued(s.tid)
             sent == Sent(s.axq)
             fs == s.free
  <2>4. Account(v) = (fs + n) + (sent + ((qs - lt) + lr)) /\ Account(s) = fs + (sent + qs)
    BY <1>1, <1>3, <2>1, <2>3
  <2>5. lr \in Int /\ lt \in Int /\ qs \in Int /\ sent \in Int /\ fs \in Int
    BY <2>2, <2>3
  <2> HIDE DEF lr, lt, qs, sent, fs
  <2>6. (fs + n) + (sent + ((qs - lt) + lr)) = (fs + (sent + qs)) + ((n + lr) - lt)
    BY <2>5
  <2> QED BY <2>4, <2>6 DEF lr, lt
<1>7. NoReinit(s) => NoReinit(v) BY <1>5 DEF NoReinit, Follows
<1>8. NoReinit(s) /\ Linked(s) => Linked(v) BY <1>1, <1>5 DEF Linked, Follows
<1>9. v.free + v.held = s.free + s.held /\ v.free >= s.free
  <2>1. s.free \in Int /\ s.held \in Int BY Nums
  <2> QED BY <1>1, <2>1
<1>10. Account(v) \in Int BY <1>4, Types
<1> DEFINE d == (n + Len(r.buf_q)) - Len(s.tid[t].buf_q)
<1>11. Account(v) <= Account(s) + d /\ Account(v) = Account(s) + d
  <2>1. Account(v) = Account(s) + d BY <1>6
  <2> HIDE DEF d
  <2> QED BY <1>10, <2>1
<1> HIDE DEF d
<1>12. Keeps(s, v, d) BY <1>4, <1>7, <1>8, <1>9, <1>11 DEF Keeps
<1> QED BY <1>4, <1>12 DEF v, d

(* ath_tx_freebuf, ath_buf_comp. *)
LEMMA ReleaseKeeps ==
    ASSUME NEW s \in States, NEW n \in Nat
    PROVE  /\ Release(s, n) \in States /\ Keeps(s, Release(s, n), n)
           /\ Release(s, n).tid = s.tid /\ Release(s, n).axq = s.axq /\ Release(s, n).tidq = s.tidq
<1> DEFINE v == Release(s, n)
<1>1. /\ v = [s EXCEPT !.free = s.free + n, !.held = s.held - n]
      /\ v.tid = s.tid /\ v.axq = s.axq /\ v.tidq = s.tidq
      /\ v.free = s.free + n /\ v.held = s.held - n
  BY DEF Release, States
<1> HIDE DEF v
<1>2. v \in States
  <2>1. s.free + n \in Int /\ s.held - n \in Int BY Types
  <2> QED BY <1>1, <2>1 DEF States
<1>3. NumFrames(v) = NumFrames(s) /\ Account(v) = v.free + NumFrames(v) /\ Account(v) \in Int
  BY <1>1, <1>2, Nums
<1>4. /\ Account(v) = Account(s) + n /\ v.free + v.held = s.free + s.held /\ Account(v) \in Int
      /\ v.free >= s.free
  BY <1>1, <1>3, Nums
<1> QED BY <1>1, <1>2, <1>4 DEF Keeps, NoReinit, Linked, v

(* A chain is given to the hardware. *)
LEMMA TxqAddKeeps ==
    ASSUME NEW s \in States, NEW c \in Chains
    PROVE  /\ TxqAdd(s, c) \in States /\ Keeps(s, TxqAdd(s, c), Len(c))
           /\ TxqAdd(s, c).tid = s.tid /\ TxqAdd(s, c).tidq = s.tidq
<1> DEFINE v == TxqAdd(s, c)
<1>1. /\ v = [s EXCEPT !.axq = Append(s.axq, c)]
      /\ v.tid = s.tid /\ v.axq = Append(s.axq, c) /\ v.tidq = s.tidq
      /\ v.free = s.free /\ v.held = s.held
  BY DEF TxqAdd, States
<1> HIDE DEF v
<1>2. s.axq \in Seq(Chains) /\ Append(s.axq, c) \in Seq(Chains) BY Types
<1>3. v \in States BY <1>1, <1>2 DEF States
<1>4. s.axq \in Seq(Seq(Frames)) /\ c \in Seq(Frames)
  <2>1. Chains \subseteq Seq(Frames) BY DEF Chains
  <2> QED BY <1>2, <2>1
<1>5. Sent(v.axq) = Sent(s.axq) + Len(c) /\ Len(c) \in Nat
  BY <1>1, <1>4, SentAppend
<1>6. /\ NumFrames(v) = Sent(v.axq) + Queued(v.tid) /\ Account(v) = v.free + NumFrames(v)
      /\ Account(v) \in Int
  BY <1>3, Nums
<1>7. Account(v) = Account(s) + Len(c) /\ v.free + v.held = s.free + s.held /\ v.free >= s.free
  <2>1. /\ NumFrames(s) = Sent(s.axq) + Queued(s.tid) /\ Account(s) = s.free + NumFrames(s)
        /\ s.free \in Int /\ s.held \in Int /\ Sent(s.axq) \in Nat /\ Queued(s.tid) \in Nat
    BY Nums
  <2> QED BY <1>1, <1>5, <1>6, <2>1
<1> QED BY <1>1, <1>3, <1>6, <1>7 DEF Keeps, NoReinit, Linked, v

(* ath_tgt_tx_enqueue. *)
LEMMA EnqueueKeeps ==
    ASSUME NEW s \in States, NEW t \in Tids
    PROVE  /\ Enqueue(s, t) \in States /\ Keeps(s, Enqueue(s, t), 0)
           /\ Enqueue(s, t).axq = s.axq
<1> DEFINE v == Enqueue(s, t)
<1>1. CASE s.tid[t].paused \/ s.tid[t].sched
  <2>1. v = s BY <1>1 DEF Enqueue
  <2> HIDE DEF v
  <2>2. Account(s) \in Int /\ s.free \in Int BY Types
  <2> QED BY <2>1, <2>2 DEF Keeps, v
<1>2. CASE ~(s.tid[t].paused \/ s.tid[t].sched)
  <2> DEFINE r == [s.tid[t] EXCEPT !.sched = TRUE]
  <2>1. /\ v = [s EXCEPT !.tid = [s.tid EXCEPT ![t] = r], !.tidq = Append(s.tidq, t)]
        /\ v.tid = [s.tid EXCEPT ![t] = r] /\ v.axq = s.axq /\ v.tidq = Append(s.tidq, t)
        /\ v.free = s.free /\ v.held = s.held
    BY <1>2 DEF Enqueue, States
  <2> HIDE DEF v
  <2>2. s.tid \in TidMap /\ OwnQueue(s.tid[t], t) BY Types
  <2>3. OwnQueue(r, t) /\ r.sched /\ r.reinit = s.tid[t].reinit /\ r.buf_q = s.tid[t].buf_q
    BY <2>2 DEF OwnQueue, TidStates
  <2> HIDE DEF r
  <2>4. v.tid \in TidMap /\ Queued(v.tid) = (Queued(s.tid) - Len(s.tid[t].buf_q)) + Len(r.buf_q)
    BY <2>1, <2>2, <2>3, QueuedOne
  <2>5. v \in States
    <3>1. Append(s.tidq, t) \in Seq(Tids) BY Types
    <3> QED BY <2>1, <2>4, <3>1 DEF States
  <2>6. NumFrames(v) = Sent(v.axq) + Queued(v.tid) /\ Account(v) = v.free + NumFrames(v) /\ Account(v) \in Int
    BY <2>5, Nums
  <2>7. /\ Account(v) = Account(s) + 0 /\ Account(v) \in Int /\ v.free + v.held = s.free + s.held
        /\ v.free >= s.free
    <3>1. Len(s.tid[t].buf_q) \in Nat BY Types
    <3>2. /\ NumFrames(s) = Sent(s.axq) + Queued(s.tid) /\ Account(s) = s.free + NumFrames(s)
          /\ s.free \in Int /\ Sent(s.axq) \in Nat /\ Queued(s.tid) \in Nat
      BY Nums
    <3> DEFINE B == Len(s.tid[t].buf_q)
               Z == Queued(s.tid)
    <3>3. Queued(v.tid) = (Z - B) + B /\ v.axq = s.axq /\ v.free = s.free /\ v.held = s.held
      BY <2>1, <2>3, <2>4
    <3>4. B \in Nat /\ Z \in Nat BY <3>1, <3>2
    <3>5. NumFrames(s) = Sent(s.axq) + Z BY <3>2
    <3> HIDE DEF B, Z
    <3>6. NumFrames(v) = NumFrames(s) BY <2>6, <3>3, <3>4, <3>5
    <3>7. s.free \in Int /\ NumFrames(s) \in Int BY <3>2, <3>4, <3>5
    <3> QED BY <2>6, <3>2, <3>3, <3>6, <3>7
  <2>8. v.tid[t] = r /\ \A u \in Tids : u # t => v.tid[u] = s.tid[u]
    BY <2>1, <2>2 DEF TidMap
  <2>9. NoReinit(s) => NoReinit(v) BY <2>3, <2>8 DEF NoReinit
  <2>10. ASSUME Linked(s)
         PROVE  Linked(v)
    <3> DEFINE N == Len(s.tidq)
    <3>1. N \in Nat /\ Len(v.tidq) = N + 1 /\ v.tidq[N + 1] = t
          /\ \A i \in 1..N : v.tidq[i] = s.tidq[i] /\ s.tidq[i] \in Tids
      BY <2>1, Types
    <3>2. \A i \in 1..N : s.tidq[i] # t BY <1>2, <2>10 DEF Linked
    <3>3. ASSUME NEW i \in 1..Len(v.tidq), NEW j \in 1..Len(v.tidq), v.tidq[i] = v.tidq[j]
          PROVE  i = j
      <4>1. (i \in 1..N \/ i = N + 1) /\ (j \in 1..N \/ j = N + 1) BY <3>1
      <4> QED BY <2>10, <3>1, <3>2, <3>3, <4>1 DEF Linked
    <3>4. ASSUME NEW u \in Tids
          PROVE  v.tid[u].sched <=> \E i \in 1..Len(v.tidq) : v.tidq[i] = u
      <4>1. CASE u = t
        <5>1. N + 1 \in 1..Len(v.tidq) BY <3>1
        <5> QED BY <2>3, <2>8, <3>1, <4>1, <5>1
      <4>2. CASE u # t
        <5>1. (\E i \in 1..Len(v.tidq) : v.tidq[i] = u) <=> \E i \in 1..N : s.tidq[i] = u
          <6>1. 1..Len(v.tidq) = (1..N) \cup {N + 1} BY <3>1
          <6> QED BY <3>1, <4>2, <6>1
        <5> QED BY <2>8, <2>10, <4>2, <5>1 DEF Linked
      <4> QED BY <4>1, <4>2
    <3> QED BY <3>3, <3>4 DEF Linked
  <2> QED BY <2>1, <2>5, <2>7, <2>9, <2>10 DEF Keeps, v
<1> QED BY <1>1, <1>2

-----------------------------------------------------------------------------
(* Scheduling. *)

(* A limit of an aggregate is a positive number. *)
LEMMA LimitType ==
    ASSUME NEW lim \in Limits
    PROVE  lim \in Nat /\ lim >= 1
BY TxAssumption, BawBounds DEF Limits

(* The same with nothing released and no chain added. *)
LEMMA PutZero ==
    ASSUME NEW s \in States, NEW t \in Tids, NEW r
    PROVE  [s EXCEPT !.tid[t] = r] = Put(s, 0, t, r)
<1>1. s.free + 0 = s.free /\ s.held - 0 = s.held BY Types
<1>2. Release(s, 0) = [s EXCEPT !.free = s.free, !.held = s.held]
  BY <1>1 DEF Release, States
<1>3. Release(s, 0) = s BY <1>2 DEF States
<1> QED BY <1>3 DEF Put

(* Nothing done keeps everything. *)
LEMMA KeepsZero ==
    ASSUME NEW s \in States
    PROVE  Keeps(s, s, 0)
<1>1. Account(s) \in Int /\ s.free \in Int BY Nums
<1>2. Account(s) <= Account(s) + 0 /\ Account(s) = Account(s) + 0 /\ s.free >= s.free
  BY <1>1
<1> QED BY <1>2 DEF Keeps

(* Two steps that together take what they add. *)
LEMMA KeepsTwo ==
    ASSUME NEW s \in States, NEW v, NEW u, NEW d \in Int, NEW e \in Int, NEW f \in Int,
           Keeps(s, v, d), Keeps(v, u, e), d + e = f
    PROVE  Keeps(s, u, f) /\ u \in States /\ v \in States
BY KeepsTrans DEF Keeps

(* A part of a sequence. *)
LEMMA Part ==
    ASSUME NEW S, NEW q \in Seq(S), NEW n \in 0..Len(q)
    PROVE  /\ SubSeq(q, 1, n) \in Seq(S) /\ Len(SubSeq(q, 1, n)) = n
           /\ SubSeq(q, n + 1, Len(q)) \in Seq(S) /\ Len(SubSeq(q, n + 1, Len(q))) = Len(q) - n
           /\ \A i \in 1..n : SubSeq(q, 1, n)[i] = q[i]
           /\ \A i \in 1..(Len(q) - n) : SubSeq(q, n + 1, Len(q))[i] = q[n + i]
<1>1. Len(q) \in Nat /\ \A i \in 1..Len(q) : q[i] \in S OBVIOUS
<1>2. SubSeq(q, 1, n) = [i \in 1..n |-> q[i]]
  <2>1. SubSeq(q, 1, n) = [i \in 1..(n - 1 + 1) |-> q[i + 1 - 1]]
    BY <1>1, SubSeqProperties
  <2>2. n - 1 + 1 = n /\ \A i \in 1..n : i + 1 - 1 = i BY <1>1
  <2> QED BY <1>1, <2>1, <2>2
<1>3. SubSeq(q, 1, n) \in Seq(S) /\ Len(SubSeq(q, 1, n)) = n BY <1>1, <1>2
<1> DEFINE m == Len(q) - n
<1>4. m \in Nat /\ \A i \in 1..m : n + i \in 1..Len(q) BY <1>1
<1>5. SubSeq(q, n + 1, Len(q)) = [i \in 1..m |-> q[n + i]]
  <2>1. SubSeq(q, n + 1, Len(q)) = [i \in 1..(Len(q) - (n + 1) + 1) |-> q[i + (n + 1) - 1]]
    BY <1>1, SubSeqProperties
  <2>2. Len(q) - (n + 1) + 1 = m /\ \A i \in 1..m : i + (n + 1) - 1 = n + i
    BY <1>1
  <2> QED BY <1>1, <2>1, <2>2
<1>6. SubSeq(q, n + 1, Len(q)) \in Seq(S) /\ Len(SubSeq(q, n + 1, Len(q))) = m
  <2> HIDE DEF m
  <2> QED BY <1>1, <1>4, <1>5
<1> QED BY <1>1, <1>2, <1>3, <1>5, <1>6

(* An aggregate takes no more than the queue has. *)
LEMMA FormAggrType ==
    ASSUME NEW t \in Tids, NEW r, OwnQueue(r, t), NEW lim \in Limits
    PROVE  /\ FormAggr(r, lim) \in 0..Len(r.buf_q) /\ FormAggr(r, lim) <= lim
           /\ \A i \in 1..FormAggr(r, lim) : BawWithin(r.seq_start, r.buf_q[i].seq)
<1> DEFINE B == {n \in 0..Len(r.buf_q) : \A i \in 1..n : BawWithin(r.seq_start, r.buf_q[i].seq)}
<1>1. Len(r.buf_q) \in Nat BY DEF OwnQueue
<1>2. 0 \in B /\ B \subseteq 0..Len(r.buf_q) BY <1>1
<1>3. Max(B) \in B
  <2> DEFINE N == Len(r.buf_q)
             T == {N - x : x \in B}
  <2>1. T \in SUBSET Nat /\ T # {}
    <3>1. N - 0 \in T BY <1>2
    <3>2. \A x \in B : N - x \in Nat BY <1>1, <1>2
    <3> QED BY <3>1, <3>2
  <2> HIDE DEF B
  <2>2. PICK z \in T : \A y \in T : z <= y BY <2>1, LeastOf
  <2>3. PICK x \in B : z = N - x BY <2>2
  <2>4. \A y \in B : N - x <= N - y BY <2>2, <2>3
  <2>5. \A y \in B : y \in Nat BY <1>1, <1>2
  <2>6. \A y \in B : x >= y BY <1>1, <2>3, <2>4, <2>5
  <2> QED BY <2>3, <2>6 DEF Max
<1>4. FormAggr(r, lim) = Min({lim, Max(B)}) BY DEF FormAggr
<1>5. Max(B) \in Nat /\ lim \in Nat BY <1>1, <1>2, <1>3, LimitType
<1>6. Min({lim, Max(B)}) \in {lim, Max(B)} /\ Min({lim, Max(B)}) <= lim /\ Min({lim, Max(B)}) <= Max(B)
  <2> DEFINE x == Max(B)
  <2>1. x \in Nat BY <1>5
  <2> HIDE DEF x
  <2>2. {lim, x} \in SUBSET Nat /\ {lim, x} # {} BY <1>5, <2>1
  <2>3. Min({lim, x}) \in {lim, x} /\ \A y \in {lim, x} : Min({lim, x}) <= y
    BY <2>2, MinOf
  <2> QED BY <2>3 DEF x
<1>7. Max(B) <= Len(r.buf_q) /\ \A i \in 1..Max(B) : BawWithin(r.seq_start, r.buf_q[i].seq)
  BY <1>3
<1> HIDE DEF B
<1>8. FormAggr(r, lim) \in Nat /\ FormAggr(r, lim) <= lim /\ FormAggr(r, lim) <= Max(B)
  BY <1>4, <1>5, <1>6
<1> QED BY <1>1, <1>5, <1>7, <1>8

(* ath_tx_addto_baw and ath_tx_update_baw on many frames. *)
LEMMA AddAllType ==
    ASSUME NEW r \in TidStates, NEW q \in Seq(Frames)
    PROVE  AddAllToBaw(r, q) \in Windows(r)
<1> DEFINE D == Windows(r)
<1>1. r \in D BY DEF Windows, SameQueue
<1>2. ASSUME NEW n \in 1..Len(q), NEW w \in D
      PROVE  AddStep(w, q[n]) \in D
  <2>1. q[n] \in Frames OBVIOUS
  <2>2. w \in TidStates /\ q[n].seq \in SeqNos BY <2>1 DEF Windows, Frames
  <2>3. AddToBaw(w, q[n].seq) \in Windows(w) BY <2>2, BawTypes
  <2> QED BY <2>3 DEF AddStep, Windows, SameQueue
<1> HIDE DEF D
<1>3. AddAllRuns(q, D, r) BY <1>1, <1>2, AddAllRun
<1>4. Len(q) \in 0..Len(q) OBVIOUS
<1> QED BY <1>3, <1>4 DEF AddAllRuns, D

(* UpdateBawFor leaves an identifier with its queue. *)
LEMMA UpdateType ==
    ASSUME NEW r \in TidStates, NEW q \in Seq(Frames), NEW K
    PROVE  UpdateBawFor(r, q, K) \in Windows(r)
<1> DEFINE D == Windows(r)
<1>1. r \in D BY DEF Windows, SameQueue
<1>2. ASSUME NEW n \in 1..Len(q), NEW w \in D
      PROVE  UpdStep(w, q[n], K) \in D
  <2>1. q[n] \in Frames OBVIOUS
  <2>2. w \in TidStates /\ q[n].seq \in SeqNos BY <2>1 DEF Windows, Frames
  <2>3. UpdateBaw(w, q[n].seq) \in Windows(w) BY <2>2, BawTypes
  <2> QED BY <2>3 DEF UpdStep, Windows, SameQueue
<1> HIDE DEF D
<1>3. UpdateRuns(q, D, r, K) BY <1>1, <1>2, UpdateRun
<1>4. Len(q) \in 0..Len(q) OBVIOUS
<1> QED BY <1>3, <1>4 DEF UpdateRuns, D

(* Frames of one identifier make a chain. *)
LEMMA OwnChain ==
    ASSUME NEW t \in Tids, NEW c \in Seq(OwnFrames(t)), c # << >>
    PROVE  c \in Chains /\ c \in Seq(Frames)
<1>1. c \in Seq(Frames) BY OwnFramesType
<1> QED BY <1>1 DEF Chains

(* A window with another queue of the identifier's own. *)
LEMMA Requeue ==
    ASSUME NEW s \in States, NEW t \in Tids, NEW w \in Windows(s.tid[t]), NEW q \in Seq(OwnFrames(t))
    PROVE  Follows(s, t, [w EXCEPT !.buf_q = q]) /\ [w EXCEPT !.buf_q = q].buf_q = q
<1>1. w \in TidStates /\ SameQueue(w, s.tid[t]) BY DEF Windows
<1>2. q \in Seq(Frames) BY OwnFramesType
<1> DEFINE r == [w EXCEPT !.buf_q = q]
<1>3. r \in TidStates /\ r.buf_q = q /\ r.reinit = s.tid[t].reinit /\ r.sched = s.tid[t].sched
  BY <1>1, <1>2 DEF TidStates, SameQueue
<1> HIDE DEF r
<1> QED BY <1>3 DEF Follows, OwnQueue, NoReinit, r

(* What is sent in a turn is a part of the queue. *)
LEMMA SchedCountType ==
    ASSUME NEW t \in Tids, NEW r, OwnQueue(r, t), NEW lim \in Limits
    PROVE  SchedCount(r, lim) \in 0..Len(r.buf_q)
<1>1. Len(r.buf_q) \in Nat BY DEF OwnQueue
<1>2. CASE r.aggr BY <1>2, FormAggrType DEF SchedCount
<1>3. CASE ~r.aggr
  <2> DEFINE x == Len(r.buf_q)
  <2>1. {1, x} \in SUBSET Nat /\ {1, x} # {} BY <1>1
  <2>2. Min({1, x}) \in {1, x} /\ \A y \in {1, x} : Min({1, x}) <= y
    BY <2>1, MinOf
  <2>3. Min({1, x}) \in Nat /\ Min({1, x}) <= x BY <1>1, <2>2
  <2> QED BY <1>1, <1>3, <2>3 DEF SchedCount
<1> QED BY <1>2, <1>3

(* ath_tgt_tx_sched_aggr and ath_tgt_tx_sched_normal move frames from a
   software queue to the hardware queue. *)
LEMMA SchedKeeps ==
    ASSUME NEW s \in States, NEW t \in Tids, NEW lim \in Limits
    PROVE  SchedTid(s, t, lim) \in States /\ Keeps(s, SchedTid(s, t, lim), 0)
<1> DEFINE r == s.tid[t]
           q == r.buf_q
           n == SchedCount(r, lim)
           chain == SubSeq(q, 1, n)
           rest == SubSeq(q, n + 1, Len(q))
           w == IF r.aggr THEN AddAllToBaw(r, chain) ELSE r
           x == [w EXCEPT !.buf_q = rest]
           mid == Put(s, 0, t, x)
           v == SchedTid(s, t, lim)
<1>1. OwnQueue(r, t) /\ r \in TidStates /\ q \in Seq(OwnFrames(t)) /\ Len(q) \in Nat
  BY Types
<1>2. n \in 0..Len(q) BY <1>1, SchedCountType
<1> HIDE DEF n
<1>3. /\ chain \in Seq(OwnFrames(t)) /\ Len(chain) = n
      /\ rest \in Seq(OwnFrames(t)) /\ Len(rest) = Len(q) - n
  <2> HIDE DEF q
  <2> QED BY <1>1, <1>2, Part
<1>4. w \in Windows(r)
  <2>1. chain \in Seq(Frames) BY <1>3, OwnFramesType
  <2>2. r \in Windows(r) BY <1>1 DEF Windows, SameQueue
  <2> QED BY <1>1, <2>1, <2>2, AddAllType
<1>5. w.buf_q = q BY <1>4 DEF Windows, SameQueue
<1>6. v = IF n = 0 THEN s ELSE TxqAdd([s EXCEPT !.tid[t] = x], chain)
  BY <1>5 DEF SchedTid, SchedCount, n
<1>7. CASE n = 0 BY <1>6, <1>7, KeepsZero
<1>8. CASE n # 0
  <2> HIDE DEF chain, rest, w
  <2>1. Follows(s, t, x) /\ x.buf_q = rest BY <1>3, <1>4, Requeue
  <2> HIDE DEF x
  <2>2. mid \in States /\ Keeps(s, mid, (0 + Len(rest)) - Len(q))
    <3>1. 0 \in Int OBVIOUS
    <3>2. mid \in States /\ Keeps(s, mid, (0 + Len(x.buf_q)) - Len(q))
      BY <2>1, <3>1, PutKeeps
    <3> QED BY <2>1, <3>2
  <2>3. (0 + Len(rest)) - Len(q) = 0 - n /\ n \in Int
    <3> DEFINE L == Len(q)
    <3>1. L \in Int /\ n \in Int /\ Len(rest) = L - n BY <1>1, <1>2, <1>3
    <3> HIDE DEF L
    <3>2. (0 + (L - n)) - L = 0 - n BY <3>1
    <3> QED BY <3>1, <3>2 DEF L
  <2>4. chain # << >> BY <1>2, <1>3, <1>8
  <2>5. chain \in Chains BY <1>3, <2>4, OwnChain
  <2> HIDE DEF mid
  <2>6. Keeps(mid, TxqAdd(mid, chain), n) BY <1>3, <2>2, <2>5, TxqAddKeeps
  <2>7. v = TxqAdd(mid, chain) BY <1>6, <1>8, PutZero DEF mid
  <2>8. Keeps(s, mid, 0 - n) BY <2>2, <2>3
  <2>9. (0 - n) + n = 0 /\ 0 - n \in Int BY <2>3
  <2> QED BY <2>3, <2>6, <2>7, <2>8, <2>9, KeepsTwo
<1> QED BY <1>7, <1>8

(* The loop of ath_tgt_txq_schedule over paused identifiers. *)
LEMMA UnlinkKeeps ==
    ASSUME NEW s \in States, NEW n \in 0..Len(s.tidq)
    PROVE  /\ Unlink(s, n) \in States /\ Keeps(s, Unlink(s, n), 0)
           /\ Unlink(s, n).axq = s.axq
           /\ Unlink(s, n).tidq = SubSeq(s.tidq, n + 1, Len(s.tidq))
           /\ \A t \in Tids : Unlink(s, n).tid[t].buf_q = s.tid[t].buf_q
<1> DEFINE off == ToSet(SubSeq(s.tidq, 1, n))
           map == [t \in Tids |-> IF t \in off THEN [s.tid[t] EXCEPT !.sched = FALSE] ELSE s.tid[t]]
           rest == SubSeq(s.tidq, n + 1, Len(s.tidq))
           v == Unlink(s, n)
<1>1. /\ v = [s EXCEPT !.tid = map, !.tidq = rest]
      /\ v.tid = map /\ v.axq = s.axq /\ v.tidq = rest /\ v.free = s.free /\ v.held = s.held
  BY DEF Unlink, States
<1> DEFINE N == Len(s.tidq)
<1>2. /\ s.tidq \in Seq(Tids) /\ N \in Nat /\ n \in Nat
      /\ rest \in Seq(Tids) /\ Len(rest) = N - n
      /\ \A i \in 1..(N - n) : rest[i] = s.tidq[n + i]
  BY Types, Part
<1>3. off = {s.tidq[i] : i \in 1..n}
  <2> DEFINE first == SubSeq(s.tidq, 1, n)
  <2>1. first \in Seq(Tids) /\ Len(first) = n /\ \A i \in 1..n : first[i] = s.tidq[i]
    BY <1>2, Part
  <2> HIDE DEF first
  <2>2. DOMAIN first = 1..n BY <2>1
  <2> QED BY <2>1, <2>2 DEF ToSet, first
<1> HIDE DEF v, off, rest
<1>4. ASSUME NEW t \in Tids
      PROVE  /\ OwnQueue(map[t], t) /\ map[t].buf_q = s.tid[t].buf_q /\ map[t].reinit = s.tid[t].reinit
             /\ map[t].sched <=> s.tid[t].sched /\ t \notin off
  <2>1. OwnQueue(s.tid[t], t) BY Types
  <2> QED BY <2>1 DEF OwnQueue, TidStates
<1> HIDE DEF map
<1>5. map \in TidMap
  <2>1. map \in [Tids -> TidStates] BY <1>4 DEF map, OwnQueue
  <2> QED BY <1>4, <2>1 DEF TidMap
<1>6. v \in States BY <1>1, <1>2, <1>5 DEF States
<1>7. Queued(v.tid) = Queued(s.tid)
  <2>1. \A t \in Tids : QueueLen(map, t) = QueueLen(s.tid, t)
    BY <1>4 DEF QueueLen
  <2> QED BY <1>1, <1>5, <2>1, Types, QueuedSame
<1>8. Account(v) = Account(s) /\ Account(s) \in Int /\ s.free \in Int /\ s.held \in Int
  BY <1>1, <1>6, <1>7, Nums
<1>9. NoReinit(s) => NoReinit(v) BY <1>1, <1>4 DEF NoReinit
<1>10. ASSUME Linked(s)
       PROVE  Linked(v)
  <2>1. \A i \in 1..(N - n) : n + i \in 1..N /\ n + i \notin 1..n BY <1>2
  <2>2. \A i \in 1..n : i \in 1..N BY <1>2
  <2>3. ASSUME NEW i \in 1..Len(rest), NEW j \in 1..Len(rest), rest[i] = rest[j]
        PROVE  i = j
    <3>1. s.tidq[n + i] = s.tidq[n + j] /\ n + i \in 1..N /\ n + j \in 1..N
      BY <1>2, <2>1, <2>3
    <3>2. n + i = n + j BY <1>10, <3>1 DEF Linked
    <3> QED BY <1>2, <3>2
  <2>4. ASSUME NEW t \in Tids
        PROVE  map[t].sched <=> \E i \in 1..Len(rest) : rest[i] = t
    <3>1. ASSUME NEW i \in 1..Len(rest), rest[i] = t
          PROVE  map[t].sched
      <4>1. n + i \in 1..N /\ n + i \notin 1..n /\ s.tidq[n + i] = t
        BY <1>2, <2>1, <3>1
      <4>2. s.tid[t].sched BY <1>10, <4>1 DEF Linked
      <4>3. t \notin off
        <5>1. \A j \in 1..n : s.tidq[j] # t BY <1>10, <2>2, <4>1 DEF Linked
        <5> QED BY <1>3, <5>1
      <4> QED BY <1>4, <4>2, <4>3
    <3>2. ASSUME map[t].sched
          PROVE  \E i \in 1..Len(rest) : rest[i] = t
      <4>1. s.tid[t].sched /\ t \notin off BY <1>4, <3>2
      <4>2. PICK j \in 1..N : s.tidq[j] = t BY <1>10, <4>1 DEF Linked
      <4>3. j \notin 1..n BY <1>3, <4>1, <4>2
      <4>4. j - n \in 1..(N - n) /\ n + (j - n) = j BY <1>2, <4>3
      <4> QED BY <1>2, <4>2, <4>4
    <3> QED BY <3>1, <3>2
  <2> QED BY <1>1, <2>3, <2>4 DEF Linked
<1>11. Keeps(s, v, 0) BY <1>1, <1>6, <1>8, <1>9, <1>10 DEF Keeps
<1> QED BY <1>1, <1>4, <1>6, <1>11 DEF v, rest

(* ath_tgt_txq_schedule. *)
LEMMA ScheduleKeeps ==
    ASSUME NEW s \in States, NEW lim \in Limits
    PROVE  Schedule(s, lim) \in States /\ Keeps(s, Schedule(s, lim), 0)
<1> DEFINE N == Len(s.tidq)
           ready == {i \in 1..N : ~s.tid[s.tidq[i]].paused}
           n == IF ready = {} THEN N ELSE Min(ready)
           t == s.tidq[n]
           u == Unlink(s, n)
           sent == SchedTid(u, t, lim)
           v == Schedule(s, lim)
<1>1. v = CASE ready = {} -> u
            [] ready # {} /\ sent.tid[t].buf_q # << >> -> Enqueue(sent, t)
            [] OTHER -> sent
  BY DEF Schedule
<1>2. N \in Nat /\ s.tidq \in Seq(Tids) BY Types
<1>3. n \in 0..N /\ (ready # {} => n \in 1..N)
  <2>1. ready \in SUBSET Nat /\ ready \subseteq 1..N BY <1>2
  <2>2. ready # {} => Min(ready) \in ready BY <2>1, MinOf
  <2> HIDE DEF ready
  <2>3. CASE ready = {} BY <1>2, <2>3
  <2>4. CASE ready # {}
    <3>1. n = Min(ready) /\ Min(ready) \in 1..N BY <2>1, <2>2, <2>4
    <3> HIDE DEF n
    <3> QED BY <1>2, <2>4, <3>1
  <2> QED BY <2>3, <2>4
<1> HIDE DEF v, n
<1>4. u \in States /\ Keeps(s, u, 0) BY <1>3, UnlinkKeeps
<1> HIDE DEF u
<1>5. CASE ready = {}
  <2>1. v = u BY <1>1, <1>5, Zenon
  <2> QED BY <1>4, <2>1 DEF v
<1>6. CASE ready # {}
  <2>1. t \in Tids BY <1>2, <1>3, <1>6
  <2> HIDE DEF t, ready
  <2>2. sent \in States /\ Keeps(u, sent, 0) BY <1>4, <2>1, SchedKeeps
  <2> HIDE DEF sent
  <2>3. Enqueue(sent, t) \in States /\ Keeps(sent, Enqueue(sent, t), 0)
    BY <2>1, <2>2, EnqueueKeeps
  <2>4. 0 \in Int /\ 0 + 0 = 0 OBVIOUS
  <2>5. Keeps(s, sent, 0) BY <1>4, <2>2, <2>4, KeepsTwo
  <2>6. Keeps(s, Enqueue(sent, t), 0) BY <2>2, <2>3, <2>4, <2>5, KeepsTwo
  <2>7. v = sent \/ v = Enqueue(sent, t) BY <1>1, <1>6, Zenon
  <2> QED BY <2>2, <2>3, <2>5, <2>6, <2>7 DEF v
<1> QED BY <1>5, <1>6

(* An identifier that keeps its queue and its place. *)
LEMMA FlagKeeps ==
    ASSUME NEW s \in States, NEW t \in Tids, NEW r \in Windows(s.tid[t])
    PROVE  /\ [s EXCEPT !.tid[t] = r] \in States
           /\ Keeps(s, [s EXCEPT !.tid[t] = r], 0)
           /\ [s EXCEPT !.tid[t] = r].tid = [s.tid EXCEPT ![t] = r]
<1>1. r \in TidStates /\ SameQueue(r, s.tid[t]) /\ OwnQueue(s.tid[t], t)
  BY Types DEF Windows
<1>2. Follows(s, t, r) BY <1>1 DEF Follows, OwnQueue, SameQueue, NoReinit
<1>3. 0 \in Int /\ [s EXCEPT !.tid[t] = r] = Put(s, 0, t, r) BY PutZero
<1>4. Put(s, 0, t, r) \in States /\ Keeps(s, Put(s, 0, t, r), (0 + Len(r.buf_q)) - Len(s.tid[t].buf_q))
  BY <1>2, <1>3, PutKeeps
<1>5. (0 + Len(r.buf_q)) - Len(s.tid[t].buf_q) = 0
  BY <1>1 DEF SameQueue, OwnQueue
<1>6. [s EXCEPT !.tid[t] = r].tid = [s.tid EXCEPT ![t] = r] BY DEF States
<1> QED BY <1>3, <1>4, <1>5, <1>6

(* The same for flags that say nothing of the queue. *)
LEMMA FlagsKeep ==
    ASSUME NEW s \in States, NEW t \in Tids, NEW b \in BOOLEAN
    PROVE  /\ [s EXCEPT !.tid[t].paused = b] \in States
           /\ Keeps(s, [s EXCEPT !.tid[t].paused = b], 0)
           /\ [s EXCEPT !.tid[t].aggr = b] \in States
           /\ Keeps(s, [s EXCEPT !.tid[t].aggr = b], 0)
           /\ [s EXCEPT !.tid[t].cleanup = b] \in States
           /\ Keeps(s, [s EXCEPT !.tid[t].cleanup = b], 0)
<1> DEFINE r == s.tid[t]
           p == [r EXCEPT !.paused = b]
           a == [r EXCEPT !.aggr = b]
           c == [r EXCEPT !.cleanup = b]
<1>1. r \in TidStates /\ OwnQueue(r, t) /\ s.tid \in TidMap /\ DOMAIN s.tid = Tids
  BY Types DEF TidMap
<1>2. ASSUME NEW x, x \in {p, a, c}
      PROVE  Follows(s, t, x) /\ Len(x.buf_q) = Len(r.buf_q)
  <2>1. x \in TidStates /\ x.buf_q = r.buf_q /\ x.reinit = r.reinit /\ x.sched = r.sched
    BY <1>1, <1>2 DEF TidStates
  <2> QED BY <1>1, <2>1 DEF Follows, OwnQueue, NoReinit
<1>3. ASSUME NEW x, x \in {p, a, c}
      PROVE  [s EXCEPT !.tid[t] = x] \in States /\ Keeps(s, [s EXCEPT !.tid[t] = x], 0)
  <2> HIDE DEF p, a, c
  <2>1. 0 \in Int /\ [s EXCEPT !.tid[t] = x] = Put(s, 0, t, x) BY PutZero
  <2>2. Put(s, 0, t, x) \in States /\ Keeps(s, Put(s, 0, t, x), (0 + Len(x.buf_q)) - Len(r.buf_q))
    BY <1>2, <1>3, <2>1, PutKeeps
  <2>3. (0 + Len(x.buf_q)) - Len(r.buf_q) = 0
    <3>1. Len(r.buf_q) \in Nat BY Types
    <3> QED BY <1>2, <1>3, <3>1
  <2> QED BY <2>1, <2>2, <2>3
<1>4. /\ [s EXCEPT !.tid[t].paused = b] = [s EXCEPT !.tid[t] = p]
      /\ [s EXCEPT !.tid[t].aggr = b] = [s EXCEPT !.tid[t] = a]
      /\ [s EXCEPT !.tid[t].cleanup = b] = [s EXCEPT !.tid[t] = c]
  BY <1>1 DEF States
<1> HIDE DEF p, a, c
<1> QED BY <1>3, <1>4

(* ath_aggr_pause_tid moves nothing. *)
LEMMA PauseKeeps ==
    ASSUME NEW s \in States, NEW t \in Tids
    PROVE  PauseTid(s, t) \in States /\ Keeps(s, PauseTid(s, t), 0)
BY FlagsKeep DEF PauseTid

(* ath_aggr_resume_tid. *)
LEMMA ResumeKeeps ==
    ASSUME NEW s \in States, NEW t \in Tids, NEW lim \in Limits
    PROVE  ResumeTid(s, t, lim) \in States /\ Keeps(s, ResumeTid(s, t, lim), 0)
<1> DEFINE a == [s EXCEPT !.tid[t].paused = FALSE]
           b == Enqueue(a, t)
           c == Schedule(b, lim)
<1>1. ResumeTid(s, t, lim) = IF s.tid[t].buf_q = << >> THEN a ELSE c
  BY DEF ResumeTid
<1>2. a \in States /\ Keeps(s, a, 0) BY FlagsKeep
<1> HIDE DEF a
<1>3. b \in States /\ Keeps(a, b, 0) BY <1>2, EnqueueKeeps
<1> HIDE DEF b
<1>4. c \in States /\ Keeps(b, c, 0) BY <1>3, ScheduleKeeps
<1> HIDE DEF c
<1>5. 0 \in Int /\ 0 + 0 = 0 OBVIOUS
<1>6. Keeps(s, b, 0) BY <1>2, <1>3, <1>5, KeepsTwo
<1>7. Keeps(s, c, 0) BY <1>3, <1>4, <1>5, <1>6, KeepsTwo
<1> QED BY <1>1, <1>2, <1>4, <1>7

(* The frames of an identifier are dropped and their buffers released. *)
LEMMA EmptyKeeps ==
    ASSUME NEW s \in States, NEW t \in Tids, NEW r \in TidStates,
           r.buf_q = << >>, r.reinit = s.tid[t].reinit, r.sched = s.tid[t].sched
    PROVE  /\ Put(s, Len(s.tid[t].buf_q), t, r) \in States
           /\ Keeps(s, Put(s, Len(s.tid[t].buf_q), t, r), 0)
<1> DEFINE n == Len(s.tid[t].buf_q)
<1>1. n \in Nat /\ n - n = 0 /\ n + 0 = n
  <2>1. n \in Nat BY Types
  <2> QED BY <2>1
<1>2. Follows(s, t, r) BY DEF Follows, OwnQueue, NoReinit
<1>3. Len(r.buf_q) = 0 OBVIOUS
<1> HIDE DEF n
<1>4. Put(s, n, t, r) \in States /\ Keeps(s, Put(s, n, t, r), (n + Len(r.buf_q)) - n)
  BY <1>1, <1>2, PutKeeps DEF n
<1>5. (n + Len(r.buf_q)) - n = 0 BY <1>1, <1>3
<1> QED BY <1>4, <1>5 DEF n

(* ath_tgt_tx_cleanup. *)
LEMMA CleanupKeeps ==
    ASSUME NEW s \in States, NEW t \in Tids, NEW lim \in Limits
    PROVE  TxCleanup(s, t, lim) \in States /\ Keeps(s, TxCleanup(s, t, lim), 0)
<1> DEFINE r == s.tid[t]
           w == UpdateBawFor(r, r.buf_q, Waiting(r))
           x == [CloseBaw(w) EXCEPT !.buf_q = << >>,
                                    !.incomp = @ + Cardinality(Busy(w)),
                                    !.cleanup = @ \/ Busy(w) # {}]
           a == Put(s, Len(r.buf_q), t, x)
           b == PauseTid(a, t)
           v == TxCleanup(s, t, lim)
<1>1. v = IF b.tid[t].cleanup THEN b ELSE ResumeTid(b, t, lim)
  BY DEF TxCleanup, Put
<1>2. r \in TidStates /\ r.buf_q \in Seq(Frames) BY Types DEF TidStates
<1>3. w \in Windows(r) BY <1>2, UpdateType
<1> HIDE DEF w
<1>4. w \in TidStates BY <1>3 DEF Windows
<1>5. 0 \in SeqNos BY RingTypes
<1> DEFINE c == CloseBaw(w)
<1>6. c \in TidStates /\ c.reinit = r.reinit /\ c.sched = r.sched
  <2>1. c \in Windows(w) BY <1>4, <1>5, BawTypes
  <2> HIDE DEF c
  <2> QED BY <1>3, <2>1 DEF Windows, SameQueue
<1> HIDE DEF c
<1> DEFINE k == c.incomp + Cardinality(Busy(w))
           z == c.cleanup \/ Busy(w) # {}
<1>7. k \in Int /\ z \in BOOLEAN BY <1>4, <1>6, SpanType DEF TidStates
<1>8. x = [c EXCEPT !.buf_q = << >>, !.incomp = k, !.cleanup = z] BY DEF c
<1> HIDE DEF x, k, z
<1>9. x \in TidStates /\ x.buf_q = << >> /\ x.reinit = r.reinit /\ x.sched = r.sched
  <2>1. << >> \in Seq(Frames) OBVIOUS
  <2> QED BY <1>6, <1>7, <1>8, <2>1 DEF TidStates
<1>10. a \in States /\ Keeps(s, a, 0) BY <1>9, EmptyKeeps
<1> HIDE DEF a
<1>11. b \in States /\ Keeps(a, b, 0) BY <1>10, PauseKeeps
<1> HIDE DEF b
<1>12. ResumeTid(b, t, lim) \in States /\ Keeps(b, ResumeTid(b, t, lim), 0)
  BY <1>11, ResumeKeeps
<1>13. 0 \in Int /\ 0 + 0 = 0 OBVIOUS
<1>14. Keeps(s, b, 0) BY <1>10, <1>11, <1>13, KeepsTwo
<1>15. Keeps(s, ResumeTid(b, t, lim), 0) BY <1>11, <1>12, <1>13, <1>14, KeepsTwo
<1> HIDE DEF v
<1> QED BY <1>1, <1>11, <1>12, <1>14, <1>15 DEF v

(* ath_tgt_tid_drain. *)
LEMMA DrainKeeps ==
    ASSUME NEW s \in States, NEW t \in Tids
    PROVE  TidDrain(s, t) \in States /\ Keeps(s, TidDrain(s, t), 0)
<1> DEFINE r == s.tid[t]
           x == [r EXCEPT !.buf_q = << >>, !.seq_next = r.seq_start, !.baw_tail = r.baw_head]
<1>1. r \in TidStates /\ s.tid \in TidMap /\ DOMAIN s.tid = Tids
  BY Types DEF TidMap
<1>2. x \in TidStates /\ x.buf_q = << >> /\ x.reinit = r.reinit /\ x.sched = r.sched
  <2>1. << >> \in Seq(Frames) OBVIOUS
  <2> QED BY <1>1, <2>1 DEF TidStates
<1>3. TidDrain(s, t) = Put(s, Len(r.buf_q), t, x)
  <2> DEFINE a == Release(s, Len(r.buf_q))
  <2>1. a.tid = s.tid /\ TidDrain(s, t) = [a EXCEPT !.tid[t].buf_q = << >>,
                                                     !.tid[t].seq_next = r.seq_start,
                                                     !.tid[t].baw_tail = r.baw_head]
    BY DEF Release, States, TidDrain
  <2>2. a = [s EXCEPT !.free = s.free + Len(r.buf_q), !.held = s.held - Len(r.buf_q)]
    BY DEF Release, States
  <2>3. "tid" \in DOMAIN a BY <2>2 DEF States
  <2> HIDE DEF a
  <2>4. TidDrain(s, t) = [a EXCEPT !.tid[t] = x] BY <1>1, <2>1, <2>3, ZenonT(60)
  <2> QED BY <2>4 DEF Put, a
<1> HIDE DEF x
<1>4. Put(s, Len(r.buf_q), t, x) \in States /\ Keeps(s, Put(s, Len(r.buf_q), t, x), 0)
  BY <1>1, <1>2, EmptyKeeps
<1> QED BY <1>3, <1>4

(* owl_tgt_tid_cleanup. *)
LEMMA TidCleanupKeeps ==
    ASSUME NEW s \in States, NEW t \in Tids, NEW lim \in Limits
    PROVE  TidCleanup(s, t, lim) \in States /\ Keeps(s, TidCleanup(s, t, lim), 0)
<1> DEFINE o == s.tid[t]
           r == [o EXCEPT !.incomp = o.incomp - 1]
           c == [r EXCEPT !.cleanup = FALSE]
           i == TidInit(r)
           a == [s EXCEPT !.tid[t] = r]
           done == [s EXCEPT !.tid[t] = c]
           v == TidCleanup(s, t, lim)
<1>1. v = CASE r.incomp # 0 -> a
            [] r.incomp = 0 /\ r.reinit -> [done EXCEPT !.tid[t] = i]
            [] OTHER -> ResumeTid(done, t, lim)
  BY DEF TidCleanup
<1>2. o \in TidStates /\ OwnQueue(o, t) /\ s.tid \in TidMap /\ DOMAIN s.tid = Tids
  BY Types DEF TidMap
<1>3. r \in TidStates /\ r.buf_q = o.buf_q /\ r.reinit = o.reinit /\ r.sched = o.sched
  <2>1. o.incomp - 1 \in Int BY <1>2 DEF TidStates
  <2> QED BY <1>2, <2>1 DEF TidStates
<1>4. c \in TidStates /\ c.buf_q = o.buf_q /\ c.reinit = o.reinit /\ c.sched = o.sched
  <2> HIDE DEF r
  <2> QED BY <1>3 DEF TidStates
<1>5. i \in TidStates /\ i.buf_q = << >> /\ OwnQueue(i, t)
  <2> HIDE DEF r
  <2>1. << >> \in Seq(Frames) /\ << >> \in Seq(OwnFrames(t)) OBVIOUS
  <2>2. i \in TidStates /\ i.buf_q = << >>
    BY <1>3, <2>1, RingTypes DEF TidStates, TidInit
  <2> QED BY <2>1, <2>2 DEF OwnQueue
<1> HIDE DEF v, r, c, i
<1>6. ASSUME NEW x \in TidStates, x.buf_q = o.buf_q, x.reinit = o.reinit, x.sched = o.sched
      PROVE  [s EXCEPT !.tid[t] = x] \in States /\ Keeps(s, [s EXCEPT !.tid[t] = x], 0)
  <2>1. Follows(s, t, x) BY <1>2, <1>6 DEF Follows, OwnQueue, NoReinit
  <2>2. 0 \in Int /\ [s EXCEPT !.tid[t] = x] = Put(s, 0, t, x) BY PutZero
  <2>3. Put(s, 0, t, x) \in States /\ Keeps(s, Put(s, 0, t, x), (0 + Len(x.buf_q)) - Len(o.buf_q))
    BY <2>1, <2>2, PutKeeps
  <2>4. (0 + Len(x.buf_q)) - Len(o.buf_q) = 0
    <3>1. Len(o.buf_q) \in Nat BY Types
    <3> QED BY <1>6, <3>1
  <2> QED BY <2>2, <2>3, <2>4
<1>7. a \in States /\ Keeps(s, a, 0) /\ done \in States /\ Keeps(s, done, 0)
  BY <1>3, <1>4, <1>6
<1>8. ASSUME r.incomp = 0, r.reinit
      PROVE  [done EXCEPT !.tid[t] = i] \in States /\ Keeps(s, [done EXCEPT !.tid[t] = i], 0)
  <2> DEFINE u == [done EXCEPT !.tid[t] = i]
             n == Len(o.buf_q)
  <2>1. o.reinit /\ ~NoReinit(s) BY <1>3, <1>8 DEF NoReinit
  <2>2. u = Put(s, 0, t, i)
    <3>1. u = [s EXCEPT !.tid[t] = i] BY <1>2 DEF States
    <3> QED BY <3>1, PutZero
  <2>3. Follows(s, t, i) BY <1>5, <2>1 DEF Follows
  <2>4. u \in States /\ Keeps(s, u, (0 + Len(i.buf_q)) - Len(o.buf_q))
    <3>1. 0 \in Int OBVIOUS
    <3>2. Put(s, 0, t, i) \in States /\ Keeps(s, Put(s, 0, t, i), (0 + Len(i.buf_q)) - Len(o.buf_q))
      BY <2>3, <3>1, PutKeeps
    <3> HIDE DEF u
    <3> QED BY <2>2, <3>2
  <2>5. (0 + Len(i.buf_q)) - Len(o.buf_q) = 0 - n /\ n \in Nat BY <1>5, Types
  <2> HIDE DEF u, n
  <2>6. Keeps(s, u, 0 - n) BY <2>4, <2>5 DEF n
  <2>7. Account(u) \in Int /\ Account(s) \in Int BY <2>4, Nums
  <2>8. Account(u) <= Account(s) + (0 - n) BY <2>6 DEF Keeps
  <2>9. Account(u) <= Account(s) + 0 BY <2>5, <2>7, <2>8
  <2>10. Keeps(s, u, 0) BY <2>1, <2>6, <2>9 DEF Keeps
  <2> QED BY <2>4, <2>10 DEF u
<1> HIDE DEF a, done
<1>9. ResumeTid(done, t, lim) \in States /\ Keeps(s, ResumeTid(done, t, lim), 0)
  <2>1. ResumeTid(done, t, lim) \in States /\ Keeps(done, ResumeTid(done, t, lim), 0)
    BY <1>7, ResumeKeeps
  <2>2. 0 \in Int /\ 0 + 0 = 0 OBVIOUS
  <2> QED BY <1>7, <2>1, <2>2, KeepsTwo
<1>10. CASE r.incomp # 0
  <2>1. v = a BY <1>1, <1>10, Zenon
  <2> QED BY <1>7, <2>1 DEF v
<1>11. CASE r.incomp = 0 /\ r.reinit
  <2>1. v = [done EXCEPT !.tid[t] = i] BY <1>1, <1>11, Zenon
  <2> QED BY <1>8, <1>11, <2>1 DEF v
<1>12. CASE r.incomp = 0 /\ ~r.reinit
  <2>1. v = ResumeTid(done, t, lim) BY <1>1, <1>12, Zenon
  <2> QED BY <1>9, <2>1 DEF v
<1> QED BY <1>10, <1>11, <1>12

(* ath_tx_comp_cleanup frees the frames it counts. *)
LEMMA CompCleanupKeeps ==
    ASSUME NEW s \in States, NEW t \in Tids, NEW chain \in Chains, NEW lim \in Limits
    PROVE  /\ CleanupCount(s.tid[t], chain) \in 1..Len(chain)
           /\ CompCleanup(s, t, chain, lim) \in States
           /\ Keeps(s, CompCleanup(s, t, chain, lim), CleanupCount(s.tid[t], chain))
<1> DEFINE r == s.tid[t]
           L == Len(chain)
           n == IF r.incomp \in 1..L THEN r.incomp ELSE L
           one == Release(s, 1)
           rel == Release(s, n)
           x == [r EXCEPT !.incomp = r.incomp - n]
           counted == [rel EXCEPT !.tid[t] = x]
           off == [counted EXCEPT !.tid[t].cleanup = FALSE]
           v == CompCleanup(s, t, chain, lim)
           k == CleanupCount(r, chain)
<1>1. chain \in Seq(Frames) /\ chain # << >> BY DEF Chains
<1>2. L \in Nat /\ L >= 1 BY <1>1
<1>3. r \in TidStates /\ OwnQueue(r, t) /\ s.tid \in TidMap /\ DOMAIN s.tid = Tids
  BY Types DEF TidMap
<1>4. r.incomp \in Int BY <1>3 DEF TidStates
<1>5. n \in 1..L /\ n \in Int
  <2> HIDE DEF L
  <2> QED BY <1>2, <1>4
<1>6. (L > 1 => k = n) /\ (L = 1 => k = 1) /\ k \in 1..L
  <2>1. k = IF L > 1 /\ r.incomp \in 1..L THEN r.incomp ELSE L
    BY Zenon DEF CleanupCount
  <2> HIDE DEF L, k
  <2> QED BY <1>2, <1>4, <2>1
<1>7. v = CASE L = 1 -> TidCleanup(one, t, lim)
            [] L > 1 /\ r.incomp # n -> counted
            [] OTHER -> ResumeTid(off, t, lim)
  <2>1. rel.tid = s.tid BY DEF Release, States
  <2>2. "tid" \in DOMAIN rel
    <3>1. rel = [s EXCEPT !.free = s.free + n, !.held = s.held - n]
      BY DEF Release, States
    <3> HIDE DEF rel, n
    <3> QED BY <3>1 DEF States
  <2>3. [rel EXCEPT !.tid[t].incomp = @ - n] = counted
    <3> HIDE DEF rel, n
    <3> QED BY <1>3, <2>1, <2>2
  <2> HIDE DEF counted
  <2> QED BY <2>3, Zenon DEF CompCleanup
<1>8. one \in States /\ Keeps(s, one, 1) /\ one.tid = s.tid BY ReleaseKeeps
<1>9. rel \in States /\ Keeps(s, rel, n) /\ rel.tid = s.tid
  BY <1>5, ReleaseKeeps
<1> HIDE DEF v, one, rel, n, L, k
<1>10. x \in TidStates /\ x.buf_q = r.buf_q /\ x.reinit = r.reinit /\ x.sched = r.sched
  <2>1. r.incomp - n \in Int BY <1>4, <1>5
  <2> QED BY <1>3, <2>1 DEF TidStates
<1> HIDE DEF x
<1>11. counted \in States /\ Keeps(rel, counted, 0)
  <2>1. Follows(rel, t, x) BY <1>3, <1>9, <1>10 DEF Follows, OwnQueue, NoReinit
  <2>2. 0 \in Int /\ counted = Put(rel, 0, t, x) BY <1>9, PutZero
  <2>3. /\ Put(rel, 0, t, x) \in States
        /\ Keeps(rel, Put(rel, 0, t, x), (0 + Len(x.buf_q)) - Len(rel.tid[t].buf_q))
    BY <1>9, <2>1, <2>2, PutKeeps
  <2>4. (0 + Len(x.buf_q)) - Len(rel.tid[t].buf_q) = 0
    <3>1. Len(r.buf_q) \in Nat BY Types
    <3> QED BY <1>9, <1>10, <3>1
  <2> QED BY <2>2, <2>3, <2>4
<1> HIDE DEF counted
<1>12. off \in States /\ Keeps(counted, off, 0) BY <1>11, FlagsKeep
<1> HIDE DEF off
<1>13. ResumeTid(off, t, lim) \in States /\ Keeps(off, ResumeTid(off, t, lim), 0)
  BY <1>12, ResumeKeeps
<1>14. 0 \in Int /\ n + 0 = n /\ 1 \in Int /\ 1 + 0 = 1 BY <1>5
<1>15. Keeps(s, counted, n) BY <1>5, <1>9, <1>11, <1>14, KeepsTwo
<1>16. Keeps(s, off, n) BY <1>5, <1>11, <1>12, <1>14, <1>15, KeepsTwo
<1>17. Keeps(s, ResumeTid(off, t, lim), n)
  BY <1>5, <1>12, <1>13, <1>14, <1>16, KeepsTwo
<1>18. TidCleanup(one, t, lim) \in States /\ Keeps(s, TidCleanup(one, t, lim), 1)
  <2>1. TidCleanup(one, t, lim) \in States /\ Keeps(one, TidCleanup(one, t, lim), 0)
    BY <1>8, TidCleanupKeeps
  <2> QED BY <1>8, <1>14, <2>1, KeepsTwo
<1>19. CASE L = 1
  <2>0. ~(L > 1) BY <1>19
  <2>1. v = TidCleanup(one, t, lim) BY <1>7, <1>19, <2>0, Zenon
  <2> QED BY <1>6, <1>18, <1>19, <2>1 DEF v, k, L
<1>20. CASE L > 1 /\ r.incomp # n
  <2>0. L # 1 BY <1>2, <1>20
  <2>1. v = counted BY <1>7, <1>20, <2>0, Zenon
  <2> QED BY <1>6, <1>11, <1>15, <1>20, <2>1 DEF v, k, L
<1>21. CASE L > 1 /\ r.incomp = n
  <2>0. L # 1 BY <1>2, <1>21
  <2>1. v = ResumeTid(off, t, lim) BY <1>7, <1>21, <2>0, Zenon
  <2> QED BY <1>6, <1>13, <1>17, <1>21, <2>1 DEF v, k, L
<1> QED BY <1>2, <1>19, <1>20, <1>21

(* ath_bar_tx. *)
LEMMA BarTxKeeps ==
    ASSUME NEW s \in States, NEW t \in Tids, NEW f \in OwnFrames(t)
    PROVE  BarTx(s, t, f) \in States /\ Keeps(s, BarTx(s, t, f), 1)
<1> DEFINE b == [f EXCEPT !.kind = "bar", !.seq = s.tid[t].seq_start]
           c == <<b>>
           p == PauseTid(s, t)
<1>1. b \in Frames /\ b.kind = "bar" /\ b.tid = t
  <2>1. s.tid[t].seq_start \in SeqNos BY Types DEF TidStates
  <2> QED BY <2>1 DEF OwnFrames, Frames
<1> HIDE DEF b
<1>2. c \in Chains /\ Len(c) = 1 BY <1>1 DEF Chains, Singles
<1>3. p \in States /\ Keeps(s, p, 0) BY PauseKeeps
<1> HIDE DEF c, p
<1>4. TxqAdd(p, c) \in States /\ Keeps(p, TxqAdd(p, c), 1)
  <2>1. TxqAdd(p, c) \in States /\ Keeps(p, TxqAdd(p, c), Len(c))
    BY <1>2, <1>3, TxqAddKeeps
  <2> QED BY <1>2, <2>1
<1>5. 0 \in Int /\ 1 \in Int /\ 0 + 1 = 1 OBVIOUS
<1>6. Keeps(s, TxqAdd(p, c), 1) BY <1>3, <1>4, <1>5, KeepsTwo
<1>7. BarTx(s, t, f) = TxqAdd(p, c) BY DEF BarTx, p, c, b
<1> QED BY <1>4, <1>6, <1>7

(* ath_tgt_delba_send. *)
LEMMA DelbaKeeps ==
    ASSUME NEW s \in States, NEW t \in Tids, NEW lim \in Limits
    PROVE  DelbaSend(s, t, lim) \in States /\ Keeps(s, DelbaSend(s, t, lim), 0)
<1> DEFINE a == [s EXCEPT !.tid[t].aggr = FALSE]
           v == TxCleanup(a, t, lim)
<1>1. a \in States /\ Keeps(s, a, 0) BY FlagsKeep
<1> HIDE DEF a
<1>2. v \in States /\ Keeps(a, v, 0) BY <1>1, CleanupKeeps
<1>3. 0 \in Int /\ 0 + 0 = 0 OBVIOUS
<1>4. DelbaSend(s, t, lim) = v BY DEF DelbaSend, a
<1> HIDE DEF v
<1>5. Keeps(s, v, 0) BY <1>1, <1>2, <1>3, KeepsTwo
<1> QED BY <1>2, <1>4, <1>5

(* ath_bar_tx_comp and ath_bar_retry. *)
LEMMA CompBarKeeps ==
    ASSUME NEW s \in States, NEW t \in Tids, NEW lim \in Limits,
           NEW f \in Frames, f.kind = "bar", f.tid = t, NEW ok \in BOOLEAN
    PROVE  CompBar(s, t, f, ok, lim) \in States /\ Keeps(s, CompBar(s, t, f, ok, lim), 1)
<1> DEFINE a == ResumeTid(s, t, lim)
           b == DelbaSend(s, t, lim)
           c == TidDrain(b, t)
           g == [f EXCEPT !.retries = @ + 1]
           q == <<g>>
           v == CompBar(s, t, f, ok, lim)
<1>1. v = CASE ok -> Release(a, 1)
            [] ~ok /\ f.retries >= MaxBarRetries -> Release(c, 1)
            [] OTHER -> TxqAdd(s, q)
  BY DEF CompBar
<1>2. q \in Chains /\ Len(q) = 1
  <2>1. g \in Frames /\ g.kind = "bar" /\ g.tid = t BY DEF Frames
  <2> HIDE DEF g
  <2> QED BY <2>1 DEF Chains, Singles
<1> HIDE DEF v, q
<1>3. 0 \in Int /\ 0 + 0 = 0 /\ 1 \in Int /\ 0 + 1 = 1 OBVIOUS
<1>4. a \in States /\ Keeps(s, a, 0) BY ResumeKeeps
<1>5. b \in States /\ Keeps(s, b, 0) BY DelbaKeeps
<1> HIDE DEF a, b
<1>6. c \in States /\ Keeps(b, c, 0) BY <1>5, DrainKeeps
<1> HIDE DEF c
<1>7. Keeps(s, c, 0) BY <1>3, <1>5, <1>6, KeepsTwo
<1>8. ASSUME NEW u \in States, Keeps(s, u, 0)
      PROVE  Release(u, 1) \in States /\ Keeps(s, Release(u, 1), 1)
  <2>1. Release(u, 1) \in States /\ Keeps(u, Release(u, 1), 1)
    BY <1>3, ReleaseKeeps
  <2> QED BY <1>3, <1>8, <2>1, KeepsTwo
<1>9. TxqAdd(s, q) \in States /\ Keeps(s, TxqAdd(s, q), 1)
  <2>1. TxqAdd(s, q) \in States /\ Keeps(s, TxqAdd(s, q), Len(q))
    BY <1>2, TxqAddKeeps
  <2> QED BY <1>2, <2>1
<1>10. v = Release(a, 1) \/ v = Release(c, 1) \/ v = TxqAdd(s, q) BY <1>1, Zenon
<1> QED BY <1>4, <1>6, <1>7, <1>8, <1>9, <1>10 DEF v

-----------------------------------------------------------------------------
(* Completions. *)

(* A frame retried is a frame of the same identifier. *)
LEMMA RetriedType ==
    ASSUME NEW t \in Tids, NEW f \in OwnFrames(t)
    PROVE  Retried(f) \in OwnFrames(t)
BY DEF OwnFrames, Retried

(* The frames for a retry are fewer where a frame is done. *)
LEMMA RetryType ==
    ASSUME NEW t \in Tids, NEW chain \in Seq(OwnFrames(t)), NEW done
    PROVE  /\ RetryAll(chain, done) \in Seq(OwnFrames(t))
           /\ Len(RetryAll(chain, done)) <= Len(chain)
           /\ \A i \in 1..Len(chain) :
                 chain[i] \in done => Len(RetryAll(chain, done)) < Len(chain)
<1> DEFINE D == Seq(OwnFrames(t))
           b == << >>
           N == Len(chain)
<1>1. chain \in Seq(Frames) /\ N \in Nat BY OwnFramesType
<1>2. b \in D /\ b = << >> OBVIOUS
<1>3. ASSUME NEW n \in 1..N, NEW w \in D
      PROVE  /\ AgainStep(w, chain[n], done) \in D
             /\ Len(AgainStep(w, chain[n], done)) = IF chain[n] \in done THEN Len(w) ELSE Len(w) + 1
  <2>1. chain[n] \in OwnFrames(t) OBVIOUS
  <2>2. Retried(chain[n]) \in OwnFrames(t) BY <2>1, RetriedType
  <2> QED BY <2>2 DEF AgainStep
<1> HIDE DEF b
<1>4. AgainRuns(chain, D, b, done)
  <2> HIDE DEF D
  <2> QED BY <1>1, <1>2, <1>3, AgainRun
<1>5. PICK p \in [0..N -> D] :
          /\ p[0] = b /\ p[N] = RetryAll(chain, done)
          /\ \A n \in 1..N : p[n] = AgainStep(p[n - 1], chain[n], done)
  BY <1>4 DEF AgainRuns
<1>6. \A n \in 0..N : p[n] \in D /\ Len(p[n]) \in Nat
  <2>1. \A n \in 0..N : p[n] \in D BY <1>5
  <2> QED BY <2>1
<1>7. ASSUME NEW n \in 1..N
      PROVE  Len(p[n]) = IF chain[n] \in done THEN Len(p[n - 1]) ELSE Len(p[n - 1]) + 1
  <2>1. n - 1 \in 0..N OBVIOUS
  <2>2. p[n - 1] \in D BY <1>6, <2>1
  <2> HIDE DEF D
  <2> QED BY <1>3, <1>5, <2>2
<1> DEFINE M == {n \in Nat : n <= N =>
                   /\ Len(p[n]) <= n
                   /\ \A i \in 1..n : chain[i] \in done => Len(p[n]) < n}
<1> HIDE DEF D
<1>8. 0 \in M
  <2>1. Len(p[0]) = 0 BY <1>5 DEF b
  <2> QED BY <2>1
<1>9. ASSUME NEW n \in Nat, n \in M
      PROVE  n + 1 \in M
  <2> SUFFICES ASSUME n + 1 <= N
               PROVE  /\ Len(p[n + 1]) <= n + 1
                      /\ \A i \in 1..(n + 1) : chain[i] \in done => Len(p[n + 1]) < n + 1
    OBVIOUS
  <2> DEFINE x == Len(p[n])
             y == Len(p[n + 1])
  <2>1. x \in Nat /\ y \in Nat BY <1>1, <1>6
  <2>2. y = IF chain[n + 1] \in done THEN x ELSE x + 1
    <3>1. n + 1 \in 1..N /\ (n + 1) - 1 = n BY <1>1
    <3> HIDE DEF M
    <3> QED BY <1>7, <3>1
  <2>3. x <= n /\ \A i \in 1..n : chain[i] \in done => x < n BY <1>1, <1>9
  <2> HIDE DEF x, y, M
  <2>4. y <= n + 1 BY <2>1, <2>2, <2>3
  <2>5. ASSUME NEW i \in 1..(n + 1), chain[i] \in done
        PROVE  y < n + 1
    <3>1. CASE i = n + 1 BY <2>1, <2>2, <2>3, <2>5, <3>1
    <3>2. CASE i \in 1..n BY <2>1, <2>2, <2>3, <2>5, <3>2
    <3> QED BY <3>1, <3>2
  <2> QED BY <2>4, <2>5 DEF y
<1> HIDE DEF M
<1>10. N \in M BY <1>1, <1>8, <1>9, SetInduction
<1>11. RetryAll(chain, done) = p[N] /\ p[N] \in D BY <1>1, <1>5, <1>6
<1> QED BY <1>1, <1>10, <1>11 DEF M, D

(* TAILQ_INSERTQ_HEAD on a window. *)
LEMMA PrependFollows ==
    ASSUME NEW s \in States, NEW t \in Tids, NEW w \in Windows(s.tid[t]), NEW q \in Seq(OwnFrames(t))
    PROVE  /\ Follows(s, t, Prepend(w, q))
           /\ Len(Prepend(w, q).buf_q) = Len(q) + Len(s.tid[t].buf_q)
<1>1. w.buf_q = s.tid[t].buf_q /\ s.tid[t].buf_q \in Seq(OwnFrames(t))
  BY Types DEF Windows, SameQueue
<1> DEFINE u == q \o w.buf_q
<1>2. u \in Seq(OwnFrames(t)) /\ Len(u) = Len(q) + Len(s.tid[t].buf_q) BY <1>1
<1>3. Prepend(w, q) = [w EXCEPT !.buf_q = u] BY DEF Prepend
<1> HIDE DEF u
<1>4. Follows(s, t, [w EXCEPT !.buf_q = u]) /\ [w EXCEPT !.buf_q = u].buf_q = u
  BY <1>2, Requeue
<1> QED BY <1>2, <1>3, <1>4

(* ath_tx_comp_unaggr and ath_tx_retry_unaggr. *)
LEMMA CompUnaggrKeeps ==
    ASSUME NEW s \in States, NEW t \in Tids, NEW f \in OwnFrames(t), NEW ok \in BOOLEAN
    PROVE  CompUnaggr(s, t, f, ok) \in States /\ Keeps(s, CompUnaggr(s, t, f, ok), 1)
<1> DEFINE r == s.tid[t]
           w == UpdateBaw(r, f.seq)
           done == [s EXCEPT !.tid[t] = w]
           q == <<Retried(f)>>
           x == Prepend(r, q)
           back == [s EXCEPT !.tid[t] = x]
           again == Enqueue(back, t)
           v == CompUnaggr(s, t, f, ok)
<1>1. v = CASE ok -> Release(done, 1)
            [] ~ok /\ f.retries >= MaxRetries -> BarTx(done, t, f)
            [] OTHER -> again
  BY DEF CompUnaggr
<1>2. r \in TidStates /\ f.seq \in SeqNos /\ r \in Windows(r)
  BY Types DEF OwnFrames, Windows, SameQueue
<1>3. w \in Windows(r) BY <1>2, BawTypes
<1> HIDE DEF w, v
<1>4. done \in States /\ Keeps(s, done, 0) BY <1>3, FlagKeeps
<1> HIDE DEF done
<1>5. 0 \in Int /\ 1 \in Int /\ 1 \in Nat /\ 0 + 1 = 1 /\ 1 + 0 = 1 OBVIOUS
<1>6. Release(done, 1) \in States /\ Keeps(s, Release(done, 1), 1)
  <2>1. Release(done, 1) \in States /\ Keeps(done, Release(done, 1), 1)
    BY <1>4, <1>5, ReleaseKeeps
  <2> QED BY <1>4, <1>5, <2>1, KeepsTwo
<1>7. BarTx(done, t, f) \in States /\ Keeps(s, BarTx(done, t, f), 1)
  <2>1. BarTx(done, t, f) \in States /\ Keeps(done, BarTx(done, t, f), 1)
    BY <1>4, BarTxKeeps
  <2> QED BY <1>4, <1>5, <2>1, KeepsTwo
<1>8. back \in States /\ Keeps(s, back, 1)
  <2>1. q \in Seq(OwnFrames(t)) /\ Len(q) = 1 BY RetriedType
  <2> HIDE DEF q
  <2>2. Follows(s, t, x) /\ Len(x.buf_q) = 1 + Len(r.buf_q)
    BY <1>2, <2>1, PrependFollows
  <2> HIDE DEF x
  <2>3. Put(s, 0, t, x) \in States /\ Keeps(s, Put(s, 0, t, x), (0 + Len(x.buf_q)) - Len(r.buf_q))
    <3>1. 0 \in Nat OBVIOUS
    <3> QED BY <2>2, <3>1, PutKeeps
  <2>4. (0 + Len(x.buf_q)) - Len(r.buf_q) = 1
    <3>1. Len(r.buf_q) \in Nat BY Types
    <3> DEFINE l == Len(r.buf_q)
    <3>2. l \in Nat /\ (0 + Len(x.buf_q)) - Len(r.buf_q) = (0 + (1 + l)) - l
      BY <2>2, <3>1
    <3> HIDE DEF l
    <3> QED BY <3>2
  <2>5. back = Put(s, 0, t, x) BY PutZero
  <2> HIDE DEF back
  <2> QED BY <2>3, <2>4, <2>5
<1> HIDE DEF back
<1>9. again \in States /\ Keeps(s, again, 1)
  <2>1. again \in States /\ Keeps(back, again, 0) BY <1>8, EnqueueKeeps
  <2> HIDE DEF again
  <2> QED BY <1>5, <1>8, <2>1, KeepsTwo
<1> HIDE DEF again
<1>10. v = Release(done, 1) \/ v = BarTx(done, t, f) \/ v = again BY <1>1, Zenon
<1> QED BY <1>6, <1>7, <1>9, <1>10 DEF v

(* ath_tgt_tx_comp_normal. *)
LEMMA CompNormalKeeps ==
    ASSUME NEW s \in States, NEW t \in Tids, NEW lim \in Limits
    PROVE  CompNormal(s, t, lim) \in States /\ Keeps(s, CompNormal(s, t, lim), 1)
<1> DEFINE u == IF s.tid[t].cleanup THEN TidCleanup(s, t, lim) ELSE s
<1>1. u \in States /\ Keeps(s, u, 0) BY TidCleanupKeeps, KeepsZero
<1> HIDE DEF u
<1>2. Release(u, 1) \in States /\ Keeps(u, Release(u, 1), 1)
  BY <1>1, ReleaseKeeps
<1>3. 0 \in Int /\ 1 \in Int /\ 0 + 1 = 1 OBVIOUS
<1>4. Keeps(s, Release(u, 1), 1) BY <1>1, <1>2, <1>3, KeepsTwo
<1>5. CompNormal(s, t, lim) = Release(u, 1) BY DEF CompNormal, u
<1> QED BY <1>2, <1>4, <1>5

(* ath_tgt_tx_comp_aggr. *)
LEMMA CompAggrKeeps ==
    ASSUME NEW s \in States, NEW t \in Tids, NEW chain \in Seq(OwnFrames(t)), NEW ack,
           NEW lim \in Limits
    PROVE  /\ CompAggr(s, t, chain, ack, lim) \in States
           /\ Keeps(s, CompAggr(s, t, chain, ack, lim), Len(chain))
<1> DEFINE done == {f \in ToSet(chain) : f.seq \in ack \/ f.retries >= MaxRetries}
           given == {i \in DOMAIN chain : chain[i] \in done /\ chain[i].seq \notin ack}
           again == RetryAll(chain, done)
           w == UpdateBawFor(s.tid[t], chain, done)
           r == Prepend(w, again)
           bar == IF given = {} THEN 0 ELSE 1
           L == Len(chain)
           A == Len(again)
           spare == L - A - bar
           freed == [Release(s, spare) EXCEPT !.tid[t] = r]
           first == chain[Min(given)]
           sent == BarTx(freed, t, first)
           barred == IF given = {} THEN freed ELSE sent
           back == Enqueue(barred, t)
           v == CompAggr(s, t, chain, ack, lim)
<1>1. v = IF again = << >> THEN barred ELSE back BY DEF CompAggr
<1> HIDE DEF v
<1>2. chain \in Seq(Frames) /\ DOMAIN chain = 1..L /\ L \in Nat BY OwnFramesType
<1>3. /\ again \in Seq(OwnFrames(t)) /\ A \in Nat /\ A <= L
      /\ \A i \in 1..L : chain[i] \in done => A < L
  <2> HIDE DEF done
  <2>1. again \in Seq(OwnFrames(t)) BY RetryType
  <2>2. A \in Nat BY <2>1
  <2> QED BY <2>1, <2>2, RetryType
<1>4. given # {} => Min(given) \in given
  <2>1. given \in SUBSET Nat BY <1>2
  <2> HIDE DEF given
  <2> QED BY <2>1, MinOf
<1>5. given # {} => first \in OwnFrames(t) /\ A < L
  <2> SUFFICES ASSUME given # {}
               PROVE  first \in OwnFrames(t) /\ A < L
    OBVIOUS
  <2> DEFINE i == Min(given)
  <2>1. i \in given BY <1>4
  <2> HIDE DEF i
  <2>2. i \in 1..L /\ chain[i] \in done BY <1>2, <2>1
  <2> HIDE DEF done, A, L
  <2> QED BY <1>3, <2>2 DEF i, L
<1>6. w \in Windows(s.tid[t])
  <2> HIDE DEF done
  <2>1. s.tid[t] \in TidStates BY Types
  <2> QED BY <1>2, <2>1, UpdateType
<1> HIDE DEF w, again, first, given, L
<1>7. Follows(s, t, r) /\ Len(r.buf_q) = A + Len(s.tid[t].buf_q)
  BY <1>3, <1>6, PrependFollows
<1> HIDE DEF r
<1>8. spare \in Nat /\ bar \in Int /\ A \in Int /\ L \in Int /\ spare + A = L - bar
  <2>1. CASE given = {}
    <3>1. bar = 0 BY <2>1
    <3> HIDE DEF bar, A
    <3> QED BY <1>2, <1>3, <3>1
  <2>2. CASE given # {}
    <3>1. bar = 1 BY <2>2
    <3> HIDE DEF bar, A
    <3> QED BY <1>2, <1>3, <1>5, <2>2, <3>1
  <2> QED BY <2>1, <2>2
<1> HIDE DEF spare, A, bar
<1>9. freed \in States /\ Keeps(s, freed, L - bar)
  <2>1. freed = Put(s, spare, t, r) BY DEF Put
  <2>2. Put(s, spare, t, r) \in States
        /\ Keeps(s, Put(s, spare, t, r), (spare + Len(r.buf_q)) - Len(s.tid[t].buf_q))
    BY <1>7, <1>8, PutKeeps
  <2> DEFINE l == Len(s.tid[t].buf_q)
  <2>3. l \in Int /\ Len(r.buf_q) = A + l BY <1>7, Types
  <2> HIDE DEF l
  <2>4. (spare + (A + l)) - l = L - bar BY <1>8, <2>3
  <2> QED BY <2>1, <2>2, <2>3, <2>4 DEF l
<1> HIDE DEF freed
<1>10. barred \in States /\ Keeps(s, barred, L)
  <2>1. CASE given = {}
    <3>1. bar = 0 /\ L - 0 = L BY <1>8, <2>1 DEF bar
    <3> QED BY <1>9, <2>1, <3>1
  <2>2. CASE given # {}
    <3>1. bar = 1 /\ L - 1 \in Int /\ 1 \in Int /\ (L - 1) + 1 = L
      BY <1>8, <2>2 DEF bar
    <3>2. sent \in States /\ Keeps(freed, sent, 1)
      BY <1>5, <1>9, <2>2, BarTxKeeps
    <3> HIDE DEF sent
    <3>3. Keeps(s, freed, L - 1) BY <1>9, <3>1
    <3>4. Keeps(s, sent, L) BY <1>8, <1>9, <3>1, <3>2, <3>3, KeepsTwo
    <3> QED BY <2>2, <3>2, <3>4
  <2> QED BY <2>1, <2>2
<1> HIDE DEF barred
<1>11. back \in States /\ Keeps(s, back, L)
  <2>1. back \in States /\ Keeps(barred, back, 0) BY <1>10, EnqueueKeeps
  <2>2. 0 \in Int /\ L + 0 = L BY <1>8
  <2> HIDE DEF back
  <2> QED BY <1>8, <1>10, <2>1, <2>2, KeepsTwo
<1> QED BY <1>1, <1>10, <1>11 DEF v, L

(* Taking the chain off the hardware queue. *)
LEMMA RestKeeps ==
    ASSUME NEW s \in States, s.axq # << >>
    PROVE  /\ Head(s.axq) \in Chains /\ Len(Head(s.axq)) \in Nat
           /\ Rest(s) \in States /\ Keeps(s, Rest(s), 0 - Len(Head(s.axq)))
           /\ Rest(s).tid = s.tid /\ Rest(s).axq = Tail(s.axq) /\ Rest(s).tidq = s.tidq
<1> DEFINE v == Rest(s)
           q == Tail(s.axq)
           c == Head(s.axq)
<1>1. /\ v = [s EXCEPT !.axq = q]
      /\ v.tid = s.tid /\ v.axq = q /\ v.tidq = s.tidq /\ v.free = s.free /\ v.held = s.held
  BY DEF Rest, States
<1>2. s.axq \in Seq(Chains) /\ q \in Seq(Chains) /\ c \in Chains BY Types
<1>3. s.axq \in Seq(Seq(Frames)) /\ c \in Seq(Frames) /\ Len(c) \in Nat
  <2>1. Chains \subseteq Seq(Frames) BY DEF Chains
  <2> QED BY <1>2, <2>1
<1>4. Sent(s.axq) = Len(c) + Sent(q) BY <1>3, SentTail
<1> HIDE DEF v, q, c
<1>5. v \in States BY <1>1, <1>2 DEF States
<1> DEFINE l == Len(c)
<1>6. Account(v) = Account(s) + (0 - l) /\ Account(v) \in Int
      /\ v.free + v.held = s.free + s.held /\ v.free >= s.free
  <2>1. /\ NumFrames(v) = Sent(v.axq) + Queued(v.tid) /\ Account(v) = v.free + NumFrames(v)
        /\ Account(v) \in Int /\ Sent(v.axq) \in Nat
    BY <1>5, Nums
  <2>2. /\ NumFrames(s) = Sent(s.axq) + Queued(s.tid) /\ Account(s) = s.free + NumFrames(s)
        /\ s.free \in Int /\ s.held \in Int /\ Sent(s.axq) \in Nat /\ Queued(s.tid) \in Nat
    BY Nums
  <2>3. l \in Nat /\ Sent(s.axq) = l + Sent(q) BY <1>3, <1>4
  <2> HIDE DEF l
  <2> QED BY <1>1, <2>1, <2>2, <2>3
<1> HIDE DEF l
<1>7. Keeps(s, v, 0 - l) BY <1>1, <1>5, <1>6 DEF Keeps, NoReinit, Linked
<1> QED BY <1>1, <1>2, <1>3, <1>5, <1>7 DEF v, q, c, l

(* owltgt_tx_processq. *)
LEMMA CompleteKeeps ==
    ASSUME NEW s \in States, s.axq # << >>, NEW ack, NEW lim \in Limits
    PROVE  /\ Complete(s, ack, lim) \in States
           /\ CompCount(s) \in 1..Len(Head(s.axq))
           /\ Keeps(s, Complete(s, ack, lim), CompCount(s) - Len(Head(s.axq)))
<1> DEFINE chain == Head(s.axq)
           f == Head(chain)
           t == f.tid
           rest == Rest(s)
           ok == f.seq \in ack
           r == s.tid[t]
           L == Len(chain)
           k == CompCount(s)
           v == Complete(s, ack, lim)
<1>1. v = CASE f.kind = "mgt"    -> Release(rest, 1)
            [] f.kind = "normal" -> CompNormal(rest, t, lim)
            [] f.kind = "bar"    -> CompBar(rest, t, f, ok, lim)
            [] f.kind = "aggr" /\ rest.tid[t].cleanup -> CompCleanup(rest, t, chain, lim)
            [] f.kind = "aggr" /\ ~rest.tid[t].cleanup /\ L = 1 -> CompUnaggr(rest, t, f, ok)
            [] OTHER -> CompAggr(rest, t, chain, ack, lim)
  BY DEF Complete, Rest
<1>2. k = IF f.kind = "aggr" /\ r.cleanup THEN CleanupCount(r, chain) ELSE L
  BY DEF CompCount
<1>3. /\ chain \in Chains /\ L \in Nat
      /\ rest \in States /\ Keeps(s, rest, 0 - L) /\ rest.tid = s.tid
  BY RestKeeps
<1>4. chain \in Seq(Frames) /\ L >= 1 /\ f = chain[1] /\ f \in Frames
  BY <1>3 DEF Chains
<1>5. /\ f.kind = "mgt" => L = 1
      /\ f.kind \in {"normal", "bar"} => L = 1 /\ t \in Tids
      /\ f.kind \notin {"mgt", "normal", "bar"} =>
            f.kind = "aggr" /\ t \in Tids /\ chain \in Seq(OwnFrames(t)) /\ f \in OwnFrames(t)
  <2>1. CASE L = 1 /\ chain[1] \in Singles BY <1>4, <2>1 DEF Singles
  <2>2. ASSUME NEW u \in Tids, chain \in Seq(OwnFrames(u))
        PROVE  f.kind = "aggr" /\ t = u /\ f \in OwnFrames(u)
    <3>1. 1 \in 1..L BY <1>3, <1>4
    <3>2. chain[1] \in OwnFrames(u) BY <2>2, <3>1
    <3> QED BY <1>4, <3>2 DEF OwnFrames
  <2> QED BY <1>3, <2>1, <2>2 DEF Chains
<1> HIDE DEF v, f, t, chain, rest, L, k
<1>6. ok \in BOOLEAN /\ 0 - L \in Int /\ 1 \in Nat /\ 1 \in Int /\ L \in Int
  BY <1>3
<1> HIDE DEF ok
<1>7. ASSUME NEW u, NEW d \in Int, u \in States, Keeps(rest, u, d), d = k, k \in 1..L, v = u
      PROVE  v \in States /\ k \in 1..L /\ Keeps(s, v, k - L)
  <2>1. (0 - L) + d = k - L /\ k - L \in Int BY <1>3, <1>7
  <2>2. Keeps(s, u, k - L) BY <1>3, <1>6, <1>7, <2>1, KeepsTwo
  <2> QED BY <1>7, <2>2
<1>8. CASE f.kind = "mgt"
  <2>1. v = Release(rest, 1) BY <1>1, <1>8, Zenon
  <2>2. Release(rest, 1) \in States /\ Keeps(rest, Release(rest, 1), 1)
    BY <1>3, <1>6, ReleaseKeeps
  <2>3. 1 = k /\ k \in 1..L BY <1>2, <1>5, <1>8
  <2> QED BY <1>6, <1>7, <2>1, <2>2, <2>3 DEF v, k, L, chain
<1>9. CASE f.kind = "normal"
  <2>1. v = CompNormal(rest, t, lim) BY <1>1, <1>9, Zenon
  <2>2. CompNormal(rest, t, lim) \in States /\ Keeps(rest, CompNormal(rest, t, lim), 1)
    BY <1>3, <1>5, <1>9, CompNormalKeeps
  <2>3. 1 = k /\ k \in 1..L BY <1>2, <1>5, <1>9
  <2> QED BY <1>6, <1>7, <2>1, <2>2, <2>3 DEF v, k, L, chain
<1>10. CASE f.kind = "bar"
  <2>1. v = CompBar(rest, t, f, ok, lim) BY <1>1, <1>10, Zenon
  <2>2. CompBar(rest, t, f, ok, lim) \in States /\ Keeps(rest, CompBar(rest, t, f, ok, lim), 1)
    BY <1>3, <1>4, <1>5, <1>6, <1>10, CompBarKeeps DEF t
  <2>3. 1 = k /\ k \in 1..L BY <1>2, <1>5, <1>10
  <2> QED BY <1>6, <1>7, <2>1, <2>2, <2>3 DEF v, k, L, chain
<1>11. CASE f.kind \notin {"mgt", "normal", "bar"}
  <2>0. f.kind = "aggr" /\ t \in Tids /\ chain \in Seq(OwnFrames(t)) /\ f \in OwnFrames(t)
    BY <1>5, <1>11
  <2>1. CASE r.cleanup
    <3>1. v = CompCleanup(rest, t, chain, lim) BY <1>1, <1>3, <2>0, <2>1, Zenon
    <3>2. /\ CleanupCount(r, chain) \in 1..L
          /\ CompCleanup(rest, t, chain, lim) \in States
          /\ Keeps(rest, CompCleanup(rest, t, chain, lim), CleanupCount(r, chain))
      <4>1. rest.tid[t] = r BY <1>3
      <4> QED BY <1>3, <2>0, <4>1, CompCleanupKeeps DEF L
    <3>3. CleanupCount(r, chain) = k BY <1>2, <2>0, <2>1
    <3>4. k \in Int BY <1>3, <3>2, <3>3
    <3> QED BY <1>7, <3>1, <3>2, <3>3, <3>4 DEF v, k, L, chain
  <2>2. CASE ~r.cleanup
    <3>1. L = k /\ k \in 1..L BY <1>2, <1>3, <1>4, <2>2
    <3>2. CASE L = 1
      <4>1. v = CompUnaggr(rest, t, f, ok)
        BY <1>1, <1>3, <2>0, <2>2, <3>2, Zenon
      <4>2. CompUnaggr(rest, t, f, ok) \in States /\ Keeps(rest, CompUnaggr(rest, t, f, ok), 1)
        BY <1>3, <1>6, <2>0, CompUnaggrKeeps
      <4>3. 1 = k /\ k \in 1..L BY <3>1, <3>2
      <4> QED BY <1>6, <1>7, <4>1, <4>2, <4>3 DEF v, k, L, chain
    <3>3. CASE L # 1
      <4>1. v = CompAggr(rest, t, chain, ack, lim)
        BY <1>1, <1>3, <2>0, <2>2, <3>3, Zenon
      <4>2. /\ CompAggr(rest, t, chain, ack, lim) \in States
            /\ Keeps(rest, CompAggr(rest, t, chain, ack, lim), L)
        BY <1>3, <2>0, CompAggrKeeps DEF L
      <4> QED BY <1>6, <1>7, <3>1, <4>1, <4>2 DEF v, k, L, chain
    <3> QED BY <3>2, <3>3
  <2> QED BY <2>1, <2>2
<1> QED BY <1>8, <1>9, <1>10, <1>11

-----------------------------------------------------------------------------
(* Frames from the host. *)

(* The state of one identifier changes, not its queue or its place. *)
LEMMA FieldKeeps ==
    ASSUME NEW s \in States, NEW t \in Tids, NEW r \in TidStates,
           r.buf_q = s.tid[t].buf_q, r.reinit = s.tid[t].reinit, r.sched = s.tid[t].sched
    PROVE  [s EXCEPT !.tid[t] = r] \in States /\ Keeps(s, [s EXCEPT !.tid[t] = r], 0)
<1>1. Follows(s, t, r)
  <2>1. OwnQueue(s.tid[t], t) BY Types
  <2> QED BY <2>1 DEF Follows, OwnQueue, NoReinit
<1>2. 0 \in Nat /\ [s EXCEPT !.tid[t] = r] = Put(s, 0, t, r) BY PutZero
<1>3. Put(s, 0, t, r) \in States /\ Keeps(s, Put(s, 0, t, r), (0 + Len(r.buf_q)) - Len(s.tid[t].buf_q))
  BY <1>1, <1>2, PutKeeps
<1>4. (0 + Len(r.buf_q)) - Len(s.tid[t].buf_q) = 0
  <2>1. Len(s.tid[t].buf_q) \in Nat BY Types
  <2> QED BY <2>1
<1> QED BY <1>2, <1>3, <1>4

(* ath_tgt_handle_normal. *)
LEMMA NormalKeeps ==
    ASSUME NEW s \in States, NEW t \in Tids, NEW f \in Frames, f.kind = "normal", f.tid = t
    PROVE  /\ HandleNormal(s, t, f) \in States /\ Keeps(s, HandleNormal(s, t, f), 1)
           /\ HandleNormal(s, t, f).axq # << >>
<1> DEFINE r == s.tid[t]
           x == [r EXCEPT !.seq_start = SeqPlus(@, 1)]
           a == [s EXCEPT !.tid[t] = x]
           c == <<f>>
<1>1. r \in TidStates /\ s.tid \in TidMap /\ DOMAIN s.tid = Tids
  BY Types DEF TidMap
<1>2. x \in TidStates /\ x.buf_q = r.buf_q /\ x.reinit = r.reinit /\ x.sched = r.sched
  <2>1. SeqPlus(r.seq_start, 1) \in SeqNos
    BY <1>1, BawBounds DEF TidStates, SeqPlus, SeqNos
  <2> QED BY <1>1, <2>1 DEF TidStates
<1>3. HandleNormal(s, t, f) = TxqAdd(a, c)
  <2>1. a = [s EXCEPT !.tid[t].seq_start = SeqPlus(@, 1)] BY <1>1 DEF States
  <2> QED BY <2>1 DEF HandleNormal
<1> HIDE DEF x
<1>4. a \in States /\ Keeps(s, a, 0) BY <1>2, FieldKeeps
<1>5. c \in Chains /\ Len(c) = 1 BY DEF Chains, Singles
<1> HIDE DEF a, c
<1>6. TxqAdd(a, c) \in States /\ Keeps(a, TxqAdd(a, c), 1)
  <2>1. TxqAdd(a, c) \in States /\ Keeps(a, TxqAdd(a, c), Len(c))
    BY <1>4, <1>5, TxqAddKeeps
  <2> QED BY <1>5, <2>1
<1>7. TxqAdd(a, c).axq # << >>
  <2>1. TxqAdd(a, c).axq = Append(a.axq, c) /\ a.axq \in Seq(Chains)
    BY <1>4 DEF TxqAdd, States
  <2> QED BY <1>5, <2>1
<1>8. 0 \in Int /\ 1 \in Int /\ 0 + 1 = 1 OBVIOUS
<1>9. Keeps(s, TxqAdd(a, c), 1) BY <1>4, <1>6, <1>8, KeepsTwo
<1> QED BY <1>3, <1>6, <1>7, <1>9

(* ath_tgt_handle_aggr. *)
LEMMA AggrKeeps ==
    ASSUME NEW s \in States, NEW t \in Tids, NEW f \in OwnFrames(t)
    PROVE  /\ HandleAggr(s, t, f) \in States /\ Keeps(s, HandleAggr(s, t, f), 1)
           /\ s.axq # << >> => HandleAggr(s, t, f).axq # << >>
<1> DEFINE r == s.tid[t]
           q == Append(r.buf_q, f)
           x == [r EXCEPT !.buf_q = q]
           a == [s EXCEPT !.tid[t] = x]
           w == AddToBaw(r, f.seq)
           b == [s EXCEPT !.tid[t] = w]
           c == <<f>>
           v == HandleAggr(s, t, f)
<1>1. r \in TidStates /\ r.buf_q \in Seq(OwnFrames(t)) /\ s.tid \in TidMap /\ DOMAIN s.tid = Tids
  BY Types DEF TidMap
<1>2. v = Enqueue(a, t) \/ v = TxqAdd(b, c)
  <2>1. a = [s EXCEPT !.tid[t].buf_q = Append(@, f)] BY <1>1 DEF States
  <2> QED BY <2>1 DEF HandleAggr
<1> HIDE DEF v
<1>3. 0 \in Int /\ 1 \in Int /\ 0 \in Nat /\ 0 + 1 = 1 /\ 1 + 0 = 1 OBVIOUS
<1>4. a \in States /\ Keeps(s, a, 1) /\ a.axq = s.axq
  <2>1. q \in Seq(OwnFrames(t)) /\ Len(q) = Len(r.buf_q) + 1 /\ Len(r.buf_q) \in Nat
    BY <1>1
  <2> HIDE DEF q
  <2>2. r \in Windows(r) BY <1>1 DEF Windows, SameQueue
  <2>3. Follows(s, t, x) /\ x.buf_q = q BY <2>1, <2>2, Requeue
  <2> HIDE DEF x
  <2>4. Put(s, 0, t, x) \in States /\ Keeps(s, Put(s, 0, t, x), (0 + Len(x.buf_q)) - Len(r.buf_q))
    BY <1>3, <2>3, PutKeeps
  <2> DEFINE l == Len(r.buf_q)
  <2>5. l \in Int /\ Len(x.buf_q) = l + 1 BY <2>1, <2>3
  <2> HIDE DEF l
  <2>6. (0 + (l + 1)) - l = 1 BY <2>5
  <2>7. a = Put(s, 0, t, x) /\ a.axq = s.axq BY PutZero DEF States
  <2> HIDE DEF a
  <2> QED BY <2>4, <2>5, <2>6, <2>7 DEF l
<1> HIDE DEF a
<1>5. Enqueue(a, t) \in States /\ Keeps(s, Enqueue(a, t), 1) /\ Enqueue(a, t).axq = s.axq
  <2>1. Enqueue(a, t) \in States /\ Keeps(a, Enqueue(a, t), 0) /\ Enqueue(a, t).axq = a.axq
    BY <1>4, EnqueueKeeps
  <2> QED BY <1>3, <1>4, <2>1, KeepsTwo
<1>6. w \in Windows(r)
  <2>1. f.seq \in SeqNos BY DEF OwnFrames
  <2> QED BY <1>1, <2>1, BawTypes
<1> HIDE DEF w
<1>7. b \in States /\ Keeps(s, b, 0) BY <1>6, FlagKeeps
<1>8. c \in Chains /\ Len(c) = 1
  <2>1. c \in Seq(OwnFrames(t)) /\ c # << >> /\ Len(c) = 1 OBVIOUS
  <2> HIDE DEF c
  <2> QED BY <2>1, OwnChain
<1> HIDE DEF b, c
<1>9. TxqAdd(b, c) \in States /\ Keeps(s, TxqAdd(b, c), 1)
  <2>1. TxqAdd(b, c) \in States /\ Keeps(b, TxqAdd(b, c), Len(c))
    BY <1>7, <1>8, TxqAddKeeps
  <2> QED BY <1>3, <1>7, <1>8, <2>1, KeepsTwo
<1>10. TxqAdd(b, c).axq # << >>
  <2>1. TxqAdd(b, c).axq = Append(b.axq, c) /\ b.axq \in Seq(Chains)
    BY <1>7 DEF TxqAdd, States
  <2>2. \A u \in Seq(Chains) : Append(u, c) # << >> BY <1>8
  <2> QED BY <2>1, <2>2
<1> QED BY <1>2, <1>5, <1>9, <1>10 DEF v

(* ath_tgt_tx_prepare takes a buffer for a frame. *)
LEMMA PreparedTakes ==
    ASSUME sc \in States, NEW t \in Tids
    PROVE  Took(sc, Prepared(t))
<1> DEFINE r == sc.tid[t]
           x == [r EXCEPT !.seq_next = SeqPlus(@, 1)]
           a == [sc EXCEPT !.tid[t] = x]
           v == Prepared(t)
<1>1. r \in TidStates /\ sc.tid \in TidMap /\ DOMAIN sc.tid = Tids
  BY Types DEF TidMap
<1>2. x \in TidStates /\ x.buf_q = r.buf_q /\ x.reinit = r.reinit /\ x.sched = r.sched
  <2>1. SeqPlus(r.seq_next, 1) \in SeqNos
    BY <1>1, BawBounds DEF TidStates, SeqPlus, SeqNos
  <2> QED BY <1>1, <2>1 DEF TidStates
<1>3. /\ v = [a EXCEPT !.free = a.free - 1, !.held = a.held + 1]
      /\ a.free = sc.free /\ a.held = sc.held /\ a.axq = sc.axq /\ a.tidq = sc.tidq
  BY <1>1 DEF Prepared, States
<1> HIDE DEF x, v
<1>4. a \in States /\ Keeps(sc, a, 0) BY <1>2, FieldKeeps
<1> HIDE DEF a
<1>5. /\ v \in States /\ v.free = sc.free - 1 /\ v.held = sc.held + 1
      /\ v.axq = a.axq /\ v.tid = a.tid /\ v.tidq = a.tidq
  <2>1. a.free - 1 \in Int /\ a.held + 1 \in Int BY <1>4, Nums
  <2> QED BY <1>3, <1>4, <2>1 DEF States
<1>6. Account(v) = Account(a) - 1 /\ Account(a) \in Int
  <2>1. /\ NumFrames(v) = Sent(v.axq) + Queued(v.tid) /\ Account(v) = v.free + NumFrames(v)
        /\ Account(v) \in Int
    BY <1>5, Nums
  <2>2. /\ NumFrames(a) = Sent(a.axq) + Queued(a.tid) /\ Account(a) = a.free + NumFrames(a)
        /\ a.free \in Int /\ a.held \in Int /\ Sent(a.axq) \in Nat /\ Queued(a.tid) \in Nat
        /\ Account(a) \in Int
    BY <1>4, Nums
  <2> QED BY <1>3, <1>5, <2>1, <2>2
<1>7. Account(a) = Account(sc)
  <2>1. /\ Account(sc) \in Int
        /\ NumFrames(a) = Sent(a.axq) + Queued(a.tid) /\ Account(a) = a.free + NumFrames(a)
        /\ NumFrames(sc) = Sent(sc.axq) + Queued(sc.tid) /\ Account(sc) = sc.free + NumFrames(sc)
    BY <1>4, Nums
  <2>2. Queued(a.tid) = Queued(sc.tid)
    <3>1. a.tid \in TidMap /\ sc.tid \in TidMap /\ a.tid = [sc.tid EXCEPT ![t] = x]
      BY <1>4, Types DEF a, States
    <3>2. \A u \in Tids : QueueLen(a.tid, u) = QueueLen(sc.tid, u)
      BY <1>1, <1>2, <3>1 DEF QueueLen
    <3> QED BY <3>1, <3>2, QueuedSame
  <2> QED BY <1>3, <2>1, <2>2
<1>8. NoReinit(sc) => NoReinit(v) /\ (Linked(sc) => Linked(v))
  BY <1>4, <1>5 DEF Keeps, NoReinit, Linked
<1> QED BY <1>3, <1>5, <1>6, <1>7, <1>8 DEF Took, v

-----------------------------------------------------------------------------

(* Nothing but a completion takes a chain off the hardware queue. *)
LEMMA SchedFills ==
    ASSUME NEW s \in States, s.axq # << >>, NEW t, NEW lim
    PROVE  SchedTid(s, t, lim).axq # << >>
<1> DEFINE r == s.tid[t]
           n == IF r.aggr THEN FormAggr(r, lim) ELSE Min({1, Len(r.buf_q)})
           chain == SubSeq(r.buf_q, 1, n)
           w == IF r.aggr THEN AddAllToBaw(r, chain) ELSE r
           x == [w EXCEPT !.buf_q = SubSeq(@, n + 1, Len(@))]
           a == [s EXCEPT !.tid[t] = x]
<1>1. SchedTid(s, t, lim) = IF n = 0 THEN s ELSE TxqAdd(a, chain)
  BY DEF SchedTid
<1> HIDE DEF n, chain, x
<1>2. TxqAdd(a, chain).axq = Append(s.axq, chain) BY DEF TxqAdd, States
<1>3. s.axq \in Seq(Chains) BY Types
<1>4. Len(Append(s.axq, chain)) = Len(s.axq) + 1 /\ Len(s.axq) \in Nat BY <1>3
<1>5. Append(s.axq, chain) # << >>
  <2>1. Len(s.axq) + 1 # 0 BY <1>4
  <2> QED BY <1>4, <2>1
<1> QED BY <1>1, <1>2, <1>5

(* ath_tgt_txq_schedule does not empty the hardware queue. *)
LEMMA ScheduleFills ==
    ASSUME NEW s \in States, s.axq # << >>, NEW lim \in Limits
    PROVE  Schedule(s, lim).axq # << >>
<1> DEFINE N == Len(s.tidq)
           ready == {i \in 1..N : ~s.tid[s.tidq[i]].paused}
           n == IF ready = {} THEN N ELSE Min(ready)
           t == s.tidq[n]
           u == Unlink(s, n)
           sent == SchedTid(u, t, lim)
           v == Schedule(s, lim)
<1>1. v = CASE ready = {} -> u
            [] ready # {} /\ sent.tid[t].buf_q # << >> -> Enqueue(sent, t)
            [] OTHER -> sent
  BY DEF Schedule
<1>2. N \in Nat /\ s.tidq \in Seq(Tids) BY Types
<1>3. n \in 0..N /\ (ready # {} => n \in 1..N)
  <2>1. ready \in SUBSET Nat /\ ready \subseteq 1..N BY <1>2
  <2>2. ready # {} => Min(ready) \in ready BY <2>1, MinOf
  <2> HIDE DEF ready
  <2>3. CASE ready = {} BY <1>2, <2>3
  <2>4. CASE ready # {}
    <3>1. n = Min(ready) /\ Min(ready) \in 1..N BY <2>1, <2>2, <2>4
    <3> HIDE DEF n
    <3> QED BY <1>2, <2>4, <3>1
  <2> QED BY <2>3, <2>4
<1> HIDE DEF v, n
<1>4. u \in States /\ u.axq # << >> BY <1>3, UnlinkKeeps
<1> HIDE DEF u
<1>5. sent.axq # << >> BY <1>4, SchedFills
<1>6. CASE ready = {}
  <2>1. v = u BY <1>1, <1>6, Zenon
  <2> QED BY <1>4, <2>1 DEF v
<1>7. CASE ready # {}
  <2>1. t \in Tids BY <1>2, <1>3, <1>7
  <2> HIDE DEF t, ready
  <2>2. sent \in States BY <1>4, <2>1, SchedKeeps
  <2> HIDE DEF sent
  <2>3. Enqueue(sent, t).axq = sent.axq BY <2>1, <2>2, EnqueueKeeps
  <2>4. v = sent \/ v = Enqueue(sent, t) BY <1>1, <1>7, Zenon
  <2> QED BY <1>5, <2>3, <2>4 DEF v
<1> QED BY <1>6, <1>7

(* So does ath_aggr_resume_tid. *)
LEMMA ResumeFills ==
    ASSUME NEW s \in States, s.axq # << >>, NEW t \in Tids, NEW lim \in Limits
    PROVE  ResumeTid(s, t, lim).axq # << >>
<1> DEFINE a == [s EXCEPT !.tid[t].paused = FALSE]
           b == Enqueue(a, t)
           c == Schedule(b, lim)
<1>1. ResumeTid(s, t, lim) = IF s.tid[t].buf_q = << >> THEN a ELSE c
  BY DEF ResumeTid
<1>2. a \in States /\ a.axq = s.axq BY FlagsKeep DEF States
<1> HIDE DEF a
<1>3. b \in States /\ b.axq = s.axq BY <1>2, EnqueueKeeps
<1> HIDE DEF b
<1>4. c.axq # << >> BY <1>3, ScheduleFills
<1> QED BY <1>1, <1>2, <1>4

(* So does ath_tgt_tx_cleanup. *)
LEMMA CleanupFills ==
    ASSUME NEW s \in States, s.axq # << >>, NEW t \in Tids, NEW lim \in Limits
    PROVE  TxCleanup(s, t, lim).axq # << >>
<1> DEFINE r == s.tid[t]
           w == UpdateBawFor(r, r.buf_q, Waiting(r))
           x == [CloseBaw(w) EXCEPT !.buf_q = << >>,
                                    !.incomp = @ + Cardinality(Busy(w)),
                                    !.cleanup = @ \/ Busy(w) # {}]
           a == Put(s, Len(r.buf_q), t, x)
           b == PauseTid(a, t)
           v == TxCleanup(s, t, lim)
<1>1. v = IF b.tid[t].cleanup THEN b ELSE ResumeTid(b, t, lim)
  BY DEF TxCleanup, Put
<1>2. b \in States
  <2>1. r \in TidStates /\ r.buf_q \in Seq(Frames) /\ 0 \in SeqNos
    BY Types, RingTypes DEF TidStates
  <2>2. w \in Windows(r) BY <2>1, UpdateType
  <2> HIDE DEF w
  <2>3. w \in TidStates BY <2>2 DEF Windows
  <2> DEFINE c == CloseBaw(w)
             k == c.incomp + Cardinality(Busy(w))
             z == c.cleanup \/ Busy(w) # {}
  <2>4. c \in TidStates /\ c.reinit = r.reinit /\ c.sched = r.sched
    <3>1. c \in Windows(w) BY <2>1, <2>3, BawTypes
    <3> HIDE DEF c
    <3> QED BY <2>2, <3>1 DEF Windows, SameQueue
  <2>5. k \in Int /\ z \in BOOLEAN
    <3> HIDE DEF c
    <3> QED BY <2>3, <2>4, SpanType DEF TidStates
  <2>6. x = [c EXCEPT !.buf_q = << >>, !.incomp = k, !.cleanup = z] OBVIOUS
  <2> HIDE DEF x, k, z, c
  <2>7. x \in TidStates /\ x.buf_q = << >> /\ x.reinit = r.reinit /\ x.sched = r.sched
    <3>1. << >> \in Seq(Frames) OBVIOUS
    <3> QED BY <2>4, <2>5, <2>6, <3>1 DEF TidStates
  <2>8. a \in States BY <2>7, EmptyKeeps
  <2> HIDE DEF a
  <2> QED BY <2>8, PauseKeeps
<1>3. b.axq = s.axq BY DEF PauseTid, Put, Release, States
<1> HIDE DEF b, v
<1> QED BY <1>1, <1>2, <1>3, ResumeFills DEF v

-----------------------------------------------------------------------------
(* The invariant. *)

(* What adds no buffers keeps the invariant. *)
LEMMA GoodKeeps ==
    ASSUME NEW s, Good(s), NEW v, NEW d \in Int, d <= 0, Keeps(s, v, d)
    PROVE  Good(v)
<1>1. s \in States /\ v \in States BY DEF Good, Keeps
<1>2. /\ s.free \in Int /\ s.held \in Int /\ v.free \in Int /\ v.held \in Int
      /\ Account(s) = s.free + NumFrames(s) /\ Account(v) = v.free + NumFrames(v)
      /\ NumFrames(s) \in Nat /\ NumFrames(v) \in Nat
  BY <1>1, Nums
<1>3. Account(v) <= Account(s) + d /\ v.free + v.held = s.free + s.held /\ v.free >= s.free
  BY DEF Keeps
<1>4. BufferOnce(v)
  <2>1. s.free >= 0 /\ NumFrames(s) <= s.held /\ s.free + s.held <= NumBufs /\ NumBufs \in Int
    BY TxAssumption DEF Good, BufferOnce
  <2> QED BY <1>2, <1>3, <2>1 DEF BufferOnce
<1> QED BY <1>1, <1>4 DEF Good, Keeps

(* A frame is taken in and put into a queue. *)
LEMMA GoodTakes ==
    ASSUME NEW s, Good(s), s.free > 0, NEW u, Took(s, u), NEW v, Keeps(u, v, 1)
    PROVE  Good(v)
<1>1. s \in States /\ u \in States /\ v \in States BY DEF Good, Keeps, Took
<1>2. /\ s.free \in Int /\ s.held \in Int /\ v.free \in Int /\ v.held \in Int
      /\ Account(s) = s.free + NumFrames(s) /\ Account(v) = v.free + NumFrames(v)
      /\ NumFrames(s) \in Nat /\ NumFrames(v) \in Nat /\ Account(u) \in Int
  BY <1>1, Nums
<1>3. /\ Account(v) <= Account(u) + 1 /\ v.free + v.held = u.free + u.held /\ v.free >= u.free
      /\ Account(u) = Account(s) - 1 /\ u.free = s.free - 1 /\ u.held = s.held + 1
  BY DEF Keeps, Took
<1>4. BufferOnce(v)
  <2>1. s.free >= 0 /\ NumFrames(s) <= s.held /\ s.free + s.held <= NumBufs /\ NumBufs \in Int
    BY TxAssumption DEF Good, BufferOnce
  <2>2. v.free >= 0 BY <1>2, <1>3
  <2> QED BY <1>2, <1>3, <2>1, <2>2 DEF BufferOnce
<1> QED BY <1>1, <1>4 DEF Good, Keeps, Took

(* The invariant holds of a station just created. *)
LEMMA InitInv == Init => IInv
<1> SUFFICES ASSUME Init
             PROVE  IInv
  OBVIOUS
<1>1. FreshTid \in TidStates /\ FreshTid.buf_q = << >> /\ ~FreshTid.reinit /\ ~FreshTid.sched
  BY RingTypes DEF FreshTid, TidStates
<1>2. /\ sc.tid = [t \in Tids |-> FreshTid] /\ sc.axq = << >> /\ sc.tidq = << >>
      /\ sc.free = NumBufs /\ sc.held = 0
  BY DEF Init
<1>3. sc.tid \in TidMap
  <2>1. \A t \in Tids : << >> \in Seq(OwnFrames(t)) OBVIOUS
  <2> QED BY <1>1, <1>2, <2>1 DEF TidMap, OwnQueue
<1>4. sc \in States
  <2>1. NumBufs \in Int /\ 0 \in Int BY TxAssumption
  <2> QED BY <1>2, <1>3, <2>1 DEF Init, States
<1>5. NumFrames(sc) = 0
  <2>1. NumFrames(sc) = Sent(sc.axq) + Queued(sc.tid) /\ Sent(sc.axq) = 0
    BY <1>2, <1>4, Nums, SentEmpty
  <2>2. Queued(sc.tid) = 0
    <3> DEFINE m == sc.tid
    <3>1. PICK f : QueueSum(f, m) /\ f[Tids] = Queued(m) BY <1>3, MapSum
    <3>2. \A t \in Tids : QueueLen(m, t) = 0 BY <1>1, <1>2 DEF QueueLen
    <3> DEFINE M == {z \in SUBSET Tids : f[z] = 0}
    <3> HIDE DEF m
    <3>3. {} \in M BY <3>1 DEF QueueSum
    <3>4. ASSUME NEW z \in SUBSET Tids, z # {}, \A x \in z : z \ {x} \in M
          PROVE  z \in M
      <4>1. PICK x \in z : x \in Tids BY <3>4
      <4>2. f[z] = f[z \ {x}] + QueueLen(m, x) BY <3>1, <4>1 DEF QueueSum
      <4>3. f[z \ {x}] = 0 /\ QueueLen(m, x) = 0 BY <3>2, <3>4, <4>1
      <4> QED BY <4>2, <4>3
    <3> HIDE DEF M
    <3>5. \A z \in SUBSET Tids : z \in M
      BY <3>3, <3>4, TxAssumption, SubsetInduction
    <3> QED BY <3>1, <3>5 DEF M, m
  <2> QED BY <2>1, <2>2
<1>6. NoReinit(sc) /\ Linked(sc) BY <1>1, <1>2 DEF NoReinit, Linked
<1>7. BufferOnce(sc) BY <1>2, <1>5, TxAssumption DEF BufferOnce
<1> QED BY <1>4, <1>6, <1>7 DEF Init, IInv, Good

-----------------------------------------------------------------------------
(* One lemma for each action. *)

(* The hardware finishes a chain. *)
LEMMA HwDoneInv ==
    ASSUME IInv, HwDone
    PROVE  IInv'
<1>1. sc' = sc /\ valid' = valid /\ draining' = draining /\ txdone' = TRUE /\ sc.axq # << >>
      /\ acked' \subseteq SeqsOf(Head(sc.axq))
  BY DEF HwDone
<1>2. SeqsOf(Head(sc.axq)) \subseteq SeqNos
  <2>1. Head(sc.axq) \in Chains BY <1>1, RestKeeps DEF IInv, Good
  <2>2. Head(sc.axq) \in Seq(Frames) BY <2>1 DEF Chains
  <2> DEFINE c == Head(sc.axq)
  <2>3. \A i \in DOMAIN c : c[i] \in Frames BY <2>2
  <2> HIDE DEF c
  <2>4. SeqsOf(c) \subseteq SeqNos BY <2>3 DEF SeqsOf, Frames
  <2> QED BY <2>4 DEF c
<1> QED BY <1>1, <1>2 DEF IInv

(* A completion: the frames it is for leave the hardware queue. *)
LEMMA CompleteInv ==
    ASSUME IInv, sc.axq # << >>, NEW ack, NEW lim \in Limits
    PROVE  Good(Complete(sc, ack, lim))
<1> DEFINE k == CompCount(sc)
           L == Len(Head(sc.axq))
<1>1. sc \in States /\ Good(sc) BY DEF IInv, Good
<1>2. L \in Nat /\ k \in 1..L /\ Keeps(sc, Complete(sc, ack, lim), k - L)
  BY <1>1, CompleteKeeps, RestKeeps
<1> HIDE DEF k, L
<1>3. k - L \in Int /\ k - L <= 0 BY <1>2
<1> QED BY <1>1, <1>2, <1>3, GoodKeeps

(* owl_tgt_tx_tasklet *)
LEMMA TxCompleteInv ==
    ASSUME IInv, TxComplete
    PROVE  IInv'
<1>1. /\ txdone /\ txdone' = FALSE /\ acked' = {} /\ valid' = valid /\ draining' = draining
  BY DEF TxComplete
<1>2. PICK lim1 \in Limits, lim2 \in Limits : sc' = Schedule(Complete(sc, acked, lim1), lim2)
  BY DEF TxComplete
<1> DEFINE u == Complete(sc, acked, lim1)
<1>3. Good(u) BY <1>1, CompleteInv DEF IInv
<1> HIDE DEF u
<1>4. Keeps(u, Schedule(u, lim2), 0) BY <1>3, ScheduleKeeps DEF Good
<1>5. Good(Schedule(u, lim2))
  <2>1. 0 \in Int /\ 0 <= 0 OBVIOUS
  <2> QED BY <1>3, <1>4, <2>1, GoodKeeps
<1>6. sc' = Schedule(u, lim2) BY <1>2 DEF u
<1> QED BY <1>1, <1>5, <1>6 DEF IInv

(* A chain completed by ath_draintxq *)
LEMMA DrainNextInv ==
    ASSUME IInv, DrainNext
    PROVE  IInv'
<1>1. PICK lim \in Limits : sc' = Complete(sc, DrainStatus, lim)
  BY DEF DrainNext
<1>2. /\ txdone' = FALSE /\ acked' = {} /\ valid' = valid /\ draining' = draining /\ sc.axq # << >>
  BY DEF DrainNext
<1>3. Good(Complete(sc, DrainStatus, lim)) BY <1>2, CompleteInv
<1> HIDE DEF Complete
<1> QED BY <1>1, <1>2, <1>3 DEF IInv

(* ath_draintxq begins. *)
LEMMA DrainStartInv ==
    ASSUME IInv, DrainStart
    PROVE  IInv'
BY DEF DrainStart, IInv

(* ath_node_cleanup_tgt *)
LEMMA NodeCleanupInv ==
    ASSUME IInv, NodeCleanup
    PROVE  IInv'
BY DEF NodeCleanup, IInv

(* ath_enable_aggr_tgt *)
LEMMA EnableAggrInv ==
    ASSUME IInv, NEW t \in Tids, EnableAggr(t)
    PROVE  IInv'
<1> DEFINE v == [sc EXCEPT !.tid[t].aggr = TRUE]
<1>1. sc' = v /\ valid' = valid /\ draining' = draining /\ txdone' = txdone /\ acked' = acked
  BY DEF EnableAggr
<1>2. sc \in States /\ Good(sc) BY DEF IInv, Good
<1>3. v \in States /\ Keeps(sc, v, 0) BY <1>2, FlagsKeep
<1>4. v.axq = sc.axq BY <1>2 DEF States
<1> HIDE DEF v
<1>5. Good(v)
  <2>1. 0 \in Int /\ 0 <= 0 OBVIOUS
  <2> QED BY <1>2, <1>3, <2>1, GoodKeeps
<1> QED BY <1>1, <1>4, <1>5 DEF IInv

(* The end of aggregation on the host's word *)
LEMMA DisableAggrInv ==
    ASSUME IInv, NEW t \in Tids, DisableAggr(t)
    PROVE  IInv'
<1> DEFINE a == [sc EXCEPT !.tid[t].aggr = FALSE]
<1>1. PICK lim \in Limits : sc' = TxCleanup(a, t, lim) BY DEF DisableAggr
<1>2. valid' = valid /\ draining' = draining /\ txdone' = txdone /\ acked' = acked
  BY DEF DisableAggr
<1>3. sc \in States /\ Good(sc) BY DEF IInv, Good
<1>4. a \in States /\ Keeps(sc, a, 0) /\ a.axq = sc.axq
  BY <1>3, FlagsKeep DEF States
<1> HIDE DEF a
<1> DEFINE v == TxCleanup(a, t, lim)
<1>5. v \in States /\ Keeps(a, v, 0) BY <1>4, CleanupKeeps
<1>6. sc.axq # << >> => v.axq # << >> BY <1>4, CleanupFills
<1> HIDE DEF v
<1>7. Good(v)
  <2>1. 0 \in Int /\ 0 <= 0 OBVIOUS
  <2>2. Good(a) BY <1>3, <1>4, <2>1, GoodKeeps
  <2> QED BY <1>5, <2>1, <2>2, GoodKeeps
<1> QED BY <1>1, <1>2, <1>6, <1>7 DEF IInv, v

(* tgt_HTCRecvMessageHandler *)
LEMMA RecvDataInv ==
    ASSUME IInv, NEW t \in Tids, RecvData(t)
    PROVE  IInv'
<1> DEFINE u == Prepared(t)
           f == FrameOf(t, "aggr")
           g == FrameOf(t, "normal")
           a == HandleAggr(u, t, f)
           b == HandleNormal(u, t, g)
<1>1. /\ sc' = IF sc.tid[t].aggr THEN a ELSE b
      /\ valid' = valid /\ draining' = draining /\ txdone' = txdone /\ acked' = acked
      /\ sc.free > 0
  BY DEF RecvData
<1>2. sc \in States /\ Good(sc) BY DEF IInv, Good
<1>3. f \in OwnFrames(t) /\ g \in Frames /\ g.kind = "normal" /\ g.tid = t
  <2>1. sc.tid[t].seq_next \in SeqNos BY <1>2, Types DEF TidStates
  <2> QED BY <2>1 DEF FrameOf, OwnFrames, Frames
<1> HIDE DEF f, g
<1>4. Took(sc, u) BY <1>2, PreparedTakes
<1> HIDE DEF u
<1>5. u \in States /\ u.axq = sc.axq BY <1>4 DEF Took
<1>6. Keeps(u, a, 1) /\ (sc.axq # << >> => a.axq # << >>)
  BY <1>3, <1>5, AggrKeeps
<1>7. Keeps(u, b, 1) /\ b.axq # << >> BY <1>3, <1>5, NormalKeeps
<1> HIDE DEF a, b
<1>8. Good(a) /\ Good(b) BY <1>1, <1>2, <1>4, <1>6, <1>7, GoodTakes
<1>9. CASE sc.tid[t].aggr BY <1>1, <1>6, <1>8, <1>9 DEF IInv
<1>10. CASE ~sc.tid[t].aggr BY <1>1, <1>7, <1>8, <1>10 DEF IInv
<1> QED BY <1>9, <1>10

(* ath_tgt_send_mgt *)
LEMMA RecvMgtInv ==
    ASSUME IInv, RecvMgt
    PROVE  IInv'
<1> DEFINE taken == [sc EXCEPT !.free = @ - 1]
           f == [kind |-> "mgt", tid |-> NoTid, seq |-> 0, retries |-> 0]
           c == <<f>>
           u == [taken EXCEPT !.held = @ + 1]
           v == TxqAdd(u, c)
<1>1. /\ sc' = IF valid THEN v ELSE taken
      /\ valid' = valid /\ draining' = draining /\ txdone' = txdone /\ acked' = acked
      /\ sc.free > 0
  BY DEF RecvMgt
<1>2. sc \in States /\ Good(sc) BY DEF IInv, Good
<1>3. sc.free \in Int /\ sc.held \in Int /\ sc.free - 1 \in Int /\ sc.held + 1 \in Int
  BY <1>2, Nums
<1>4. /\ taken \in States /\ taken.free = sc.free - 1 /\ taken.held = sc.held
      /\ taken.tid = sc.tid /\ taken.axq = sc.axq /\ taken.tidq = sc.tidq
  BY <1>2, <1>3 DEF States
<1> HIDE DEF taken
<1>5. /\ u \in States /\ u.free = sc.free - 1 /\ u.held = sc.held + 1
      /\ u.tid = sc.tid /\ u.axq = sc.axq /\ u.tidq = sc.tidq
  BY <1>3, <1>4 DEF States
<1>6. c \in Chains /\ Len(c) = 1
  <2>1. f \in Frames /\ f.kind = "mgt" BY RingTypes DEF Frames
  <2> HIDE DEF f
  <2> QED BY <2>1 DEF Chains, Singles
<1> HIDE DEF u, c
<1>7. /\ Account(taken) = Account(sc) - 1 /\ Account(u) = Account(sc) - 1
      /\ NumFrames(taken) = NumFrames(sc)
  <2>1. /\ NumFrames(sc) = Sent(sc.axq) + Queued(sc.tid) /\ Account(sc) = sc.free + NumFrames(sc)
        /\ NumFrames(sc) \in Nat
    BY <1>2, Nums
  <2>2. NumFrames(taken) = Sent(taken.axq) + Queued(taken.tid) /\ Account(taken) = taken.free + NumFrames(taken)
    BY <1>4, Nums
  <2>3. NumFrames(u) = Sent(u.axq) + Queued(u.tid) /\ Account(u) = u.free + NumFrames(u)
    BY <1>5, Nums
  <2> QED BY <1>3, <1>4, <1>5, <2>1, <2>2, <2>3
<1>8. Took(sc, u) BY <1>5, <1>7 DEF Took, NoReinit, Linked
<1>9. Keeps(u, v, 1) BY <1>5, <1>6, TxqAddKeeps
<1>10. v.axq # << >>
  <2>1. v.axq = Append(u.axq, c) /\ u.axq \in Seq(Chains)
    BY <1>5 DEF TxqAdd, States
  <2>2. \A q \in Seq(Chains) : Append(q, c) # << >> BY <1>6
  <2> QED BY <2>1, <2>2
<1> HIDE DEF v
<1>11. Good(v) BY <1>1, <1>2, <1>8, <1>9, GoodTakes
<1>12. Good(taken)
  <2>1. BufferOnce(sc) /\ NumFrames(sc) \in Nat BY <1>2, Nums DEF Good
  <2>2. BufferOnce(taken)
    <3>1. NumBufs \in Int BY TxAssumption
    <3> QED BY <1>1, <1>3, <1>4, <1>7, <2>1, <3>1 DEF BufferOnce
  <2> QED BY <1>2, <1>4, <2>2 DEF Good, NoReinit, Linked
<1>13. CASE valid BY <1>1, <1>10, <1>11, <1>13 DEF IInv
<1>14. CASE ~valid BY <1>1, <1>4, <1>12, <1>14 DEF IInv
<1> QED BY <1>13, <1>14

(* ath_node_create_tgt and owl_tgt_node_init *)
LEMMA NodeCreateInv ==
    ASSUME IInv, NodeCreate
    PROVE  IInv'
<1> DEFINE map == [t \in Tids |-> NewTid(sc.tid[t])]
           v == [sc EXCEPT !.tid = map]
<1>1. /\ sc' = v /\ valid' = TRUE /\ draining' = draining /\ txdone' = txdone /\ acked' = acked
      /\ "node" \in HostOps
  BY DEF NodeCreate, NewTid
<1>2. sc \in States /\ Good(sc) BY DEF IInv, Good
<1>3. ASSUME NEW t \in Tids
      PROVE  OwnQueue(map[t], t) /\ QueueLen(map, t) <= QueueLen(sc.tid, t)
  <2> DEFINE r == sc.tid[t]
  <2>1. r \in TidStates /\ r.buf_q \in Seq(OwnFrames(t)) /\ Len(r.buf_q) \in Nat
    BY <1>2, Types DEF OwnQueue
  <2>2. CASE r.cleanup
    <3> DEFINE x == [r EXCEPT !.reinit = TRUE]
    <3>1. map[t] = x BY <2>2 DEF NewTid
    <3>2. x \in TidStates /\ x.buf_q = r.buf_q BY <2>1 DEF TidStates
    <3> HIDE DEF x, map
    <3> QED BY <2>1, <3>1, <3>2 DEF OwnQueue, QueueLen
  <2>3. CASE ~r.cleanup
    <3> DEFINE x == TidInit(r)
    <3>1. map[t] = x BY <2>3 DEF NewTid
    <3>2. x \in TidStates /\ x.buf_q = << >>
      <4>1. << >> \in Seq(Frames) OBVIOUS
      <4> QED BY <2>1, <4>1, RingTypes DEF TidStates, TidInit
    <3> HIDE DEF x, map
    <3>3. << >> \in Seq(OwnFrames(t)) OBVIOUS
    <3> QED BY <2>1, <3>1, <3>2, <3>3 DEF OwnQueue, QueueLen
  <2> QED BY <2>2, <2>3
<1>4. map \in TidMap
  <2>1. DOMAIN map = Tids /\ map = [t \in Tids |-> map[t]] OBVIOUS
  <2> HIDE DEF map
  <2>2. map \in [Tids -> TidStates] BY <1>3, <2>1 DEF OwnQueue
  <2> QED BY <1>3, <2>2 DEF TidMap
<1> HIDE DEF map
<1>5. /\ v \in States /\ v.tid = map /\ v.axq = sc.axq /\ v.free = sc.free /\ v.held = sc.held
  BY <1>2, <1>4 DEF States
<1> HIDE DEF v
<1>6. NumFrames(v) <= NumFrames(sc)
  <2>1. NumFrames(v) = Sent(v.axq) + Queued(v.tid) /\ Queued(v.tid) \in Nat
    BY <1>5, Nums
  <2>2. NumFrames(sc) = Sent(sc.axq) + Queued(sc.tid) /\ Sent(sc.axq) \in Nat /\ Queued(sc.tid) \in Nat
    BY <1>2, Nums
  <2>3. Queued(map) <= Queued(sc.tid) BY <1>2, <1>3, <1>4, Types, QueuedShrinks
  <2> QED BY <1>5, <2>1, <2>2, <2>3
<1>7. BufferOnce(v)
  <2>1. BufferOnce(sc) /\ NumFrames(sc) \in Nat /\ sc.held \in Int
    BY <1>2, Nums DEF Good
  <2>2. NumFrames(v) \in Nat BY <1>5, Nums
  <2> QED BY <1>5, <1>6, <2>1, <2>2 DEF BufferOnce
<1>8. Good(v) BY <1>1, <1>5, <1>7 DEF Good
<1> QED BY <1>1, <1>5, <1>8 DEF IInv

(* The end of ath_draintxq: the identifiers are drained. *)
LEMMA DrainEndInv ==
    ASSUME IInv, DrainEnd
    PROVE  IInv'
<1> DEFINE q == sc.tidq
           b == Unlink(sc, Len(q))
           D == {u \in States : Keeps(sc, u, 0)}
           v == FoldLeft(TidDrain, b, q)
<1>1. /\ sc' = v /\ valid' = valid /\ draining' = FALSE /\ txdone' = txdone /\ acked' = acked
      /\ sc.axq = << >>
  BY DEF DrainEnd
<1>2. sc \in States /\ Good(sc) BY DEF IInv, Good
<1>3. q \in Seq(Tids) /\ Len(q) \in Nat BY <1>2, Types
<1>4. b \in D
  <2>1. Len(q) \in 0..Len(q) BY <1>3
  <2> QED BY <1>2, <2>1, UnlinkKeeps
<1>5. ASSUME NEW n \in 1..Len(q), NEW u \in D
      PROVE  TidDrain(u, q[n]) \in D
  <2>1. q[n] \in Tids /\ u \in States /\ Keeps(sc, u, 0) BY <1>3
  <2> DEFINE w == TidDrain(u, q[n])
  <2>2. w \in States /\ Keeps(u, w, 0) BY <2>1, DrainKeeps
  <2>3. 0 \in Int /\ 0 + 0 = 0 OBVIOUS
  <2> HIDE DEF w
  <2>4. Keeps(sc, w, 0) BY <1>2, <2>1, <2>2, <2>3, KeepsTwo
  <2> QED BY <2>2, <2>4 DEF w
<1> HIDE DEF b, D, q, v
<1>6. DrainRuns(q, D, b) BY <1>3, <1>4, <1>5, DrainRun
<1>7. v \in D
  <2>1. PICK p \in [0..Len(q) -> D] : p[Len(q)] = FoldLeft(TidDrain, b, q)
    BY <1>6 DEF DrainRuns
  <2>2. Len(q) \in 0..Len(q) BY <1>3
  <2> QED BY <2>1, <2>2 DEF v
<1>8. Good(v)
  <2>1. 0 \in Int /\ 0 <= 0 OBVIOUS
  <2> QED BY <1>2, <1>7, <2>1, GoodKeeps DEF D
<1> QED BY <1>1, <1>8 DEF IInv

-----------------------------------------------------------------------------

(* Every step keeps the invariant. *)
LEMMA NextInv ==
    ASSUME IInv, [Next]_vars
    PROVE  IInv'
<1>1. CASE HwDone BY <1>1, HwDoneInv
<1>2. CASE TxComplete BY <1>2, TxCompleteInv
<1>3. ASSUME NEW t \in Tids, RecvData(t) \/ EnableAggr(t) \/ DisableAggr(t)
      PROVE  IInv'
  BY <1>3, RecvDataInv, EnableAggrInv, DisableAggrInv
<1>4. CASE RecvMgt BY <1>4, RecvMgtInv
<1>5. CASE NodeCreate BY <1>5, NodeCreateInv
<1>6. CASE NodeCleanup BY <1>6, NodeCleanupInv
<1>7. CASE DrainStart BY <1>7, DrainStartInv
<1>8. CASE DrainNext BY <1>8, DrainNextInv
<1>9. CASE DrainEnd BY <1>9, DrainEndInv
<1>10. CASE UNCHANGED vars BY <1>10 DEF vars, IInv
<1> QED BY <1>1, <1>2, <1>3, <1>4, <1>5, <1>6, <1>7, <1>8, <1>9, <1>10 DEF Next

(* The invariant holds always. *)
LEMMA Inductive == Spec => []IInv
<1>1. Init => IInv BY InitInv
<1>2. IInv /\ [Next]_vars => IInv' BY NextInv
<1> QED BY <1>1, <1>2, PTL DEF Spec

(* The invariant implies the types. *)
LEMMA IInvType == IInv => TypeOK
<1> SUFFICES ASSUME IInv
             PROVE  TypeOK
  OBVIOUS
<1>1. sc \in States /\ BufferOnce(sc) BY DEF IInv, Good
<1>2. sc.tid \in TidMap /\ sc.axq \in Seq(Chains) /\ sc.tidq \in Seq(Tids)
      /\ sc.free \in Int /\ sc.held \in Int /\ NumFrames(sc) \in Nat
  BY <1>1, Types
<1>3. sc.tid \in [Tids -> TidStates] BY <1>2 DEF TidMap
<1>4. sc.axq \in Seq(Seq(Frames))
  <2>1. Chains \subseteq Seq(Frames) BY DEF Chains
  <2> QED BY <1>2, <2>1
<1>5. sc.free \in Nat /\ sc.held \in Nat BY <1>1, <1>2 DEF BufferOnce
<1>6. sc \in Softcs BY <1>1, <1>2, <1>3, <1>4, <1>5 DEF States, Softcs
<1> QED BY <1>6 DEF IInv, TypeOK

(* A place in axq_tidq for sched, and none without it. *)
LEMMA LinkedOnce ==
    ASSUME NEW s \in States, Linked(s), NEW t \in Tids
    PROVE  Cardinality({i \in DOMAIN s.tidq : s.tidq[i] = t}) = (IF s.tid[t].sched THEN 1 ELSE 0)
<1> DEFINE P == {i \in DOMAIN s.tidq : s.tidq[i] = t}
<1>1. DOMAIN s.tidq = 1..Len(s.tidq) BY Types
<1>2. CASE s.tid[t].sched
  <2>1. PICK j \in 1..Len(s.tidq) : s.tidq[j] = t BY <1>2 DEF Linked
  <2>2. P = {j} BY <1>1, <2>1 DEF Linked
  <2>3. Cardinality({j}) = 1 BY FS_Singleton
  <2> HIDE DEF P
  <2> QED BY <1>2, <2>2, <2>3 DEF P
<1>3. CASE ~s.tid[t].sched
  <2>1. P = {} BY <1>1, <1>3 DEF Linked
  <2>2. Cardinality({}) = 0 BY FS_EmptySet
  <2> HIDE DEF P
  <2> QED BY <1>3, <2>1, <2>2 DEF P
<1> QED BY <1>2, <1>3

(* The state has its type; in particular no more frames are given back than
   the host is owed, and no buffer is taken from an empty list
   (ath_tx_buf_alloc, ath_buf_comp). *)
THEOREM TypeCorrect == Spec => []TypeOK
<1>1. Spec => []IInv BY Inductive
<1> QED BY <1>1, IInvType, PTL

(* Whatever the host does and when: a buffer is free or carries one frame of
   one queue, never both and never two, and the host is owed every frame that
   some queue holds (ath_tx_freebuf, ath_bar_tx, bf_q of
   ath_tgt_tx_comp_aggr). *)
THEOREM BuffersOnce == Spec => []BufferOnce(sc)
<1>1. IInv => BufferOnce(sc) BY DEF IInv, Good
<1>2. Spec => []IInv BY Inductive
<1> QED BY <1>1, <1>2, PTL

(* A station once created, sched says whether an identifier is in axq_tidq,
   and it is there once (ath_tgt_tx_enqueue, ath_tgt_txq_schedule). *)
THEOREM TidqIsASet ==
    ASSUME "node" \notin HostOps
    PROVE  Spec => []TidqOnce
<1>1. IInv => TidqOnce BY LinkedOnce DEF IInv, Good, TidqOnce
<1>2. Spec => []IInv BY Inductive
<1> QED BY <1>1, <1>2, PTL

-----------------------------------------------------------------------------
(* Arithmetic in a ring of M places. *)

(* The remainder of what is at most one turn away. *)
LEMMA ModCases ==
    ASSUME NEW M \in Nat, M >= 1, NEW a \in Int
    PROVE  /\ 0 <= a /\ a < M => a % M = a
           /\ M <= a /\ a < M + M => a % M = a - M
           /\ 0 - M <= a /\ a < 0 => a % M = a + M
           /\ a % M \in 0..(M - 1)
BY SMTT(30)

(* What is i steps further is at distance i. *)
LEMMA RingBack ==
    ASSUME NEW M \in Nat, M >= 1, NEW a \in 0..(M - 1), NEW i \in 0..(M - 1)
    PROVE  /\ RingPlus(M, a, i) \in 0..(M - 1)
           /\ RingDist(M, a, RingPlus(M, a, i)) = i
<1> DEFINE b == (a + i) % M
<1>1. b = a + i \/ b = (a + i) - M
  <2> DEFINE z == a + i
  <2>1. z \in Int /\ 0 <= z /\ z < M + M OBVIOUS
  <2> HIDE DEF z
  <2>2. (z < M => z % M = z) /\ (M <= z => z % M = z - M) BY <2>1, ModCases
  <2>3. z % M = z \/ z % M = z - M BY <2>1, <2>2
  <2> QED BY <2>3 DEF z
<1>2. b \in 0..(M - 1) BY ModCases
<1> HIDE DEF b
<1>3. (b - a) % M = i
  <2>1. CASE b = a + i BY <1>2, <2>1, ModCases
  <2>2. CASE b = (a + i) - M
    <3>1. b - a \in Int /\ b - a = i - M BY <1>2, <2>2
    <3>2. 0 - M <= b - a /\ b - a < 0 BY <3>1
    <3>3. (b - a) % M = (b - a) + M BY <3>1, <3>2, ModCases
    <3> QED BY <3>1, <3>3
  <2> QED BY <1>1, <2>1, <2>2
<1> QED BY <1>2, <1>3 DEF b, RingDist, RingPlus

(* The element at the distance of b is b. *)
LEMMA RingFwd ==
    ASSUME NEW M \in Nat, M >= 1, NEW a \in 0..(M - 1), NEW b \in 0..(M - 1)
    PROVE  /\ RingDist(M, a, b) \in 0..(M - 1)
           /\ RingPlus(M, a, RingDist(M, a, b)) = b
<1> DEFINE i == (b - a) % M
<1>1. i = b - a \/ i = (b - a) + M
  <2> DEFINE z == b - a
  <2>1. z \in Int /\ 0 - M <= z /\ z < M OBVIOUS
  <2> HIDE DEF z
  <2>2. (0 <= z => z % M = z) /\ (z < 0 => z % M = z + M) BY <2>1, ModCases
  <2>3. z % M = z \/ z % M = z + M BY <2>1, <2>2
  <2> QED BY <2>3 DEF z
<1>2. i \in 0..(M - 1) BY ModCases
<1> HIDE DEF i
<1>3. (a + i) % M = b
  <2>1. CASE i = b - a
    <3>1. a + i = b BY <1>2, <2>1
    <3> QED BY <3>1, ModCases
  <2>2. CASE i = (b - a) + M
    <3>1. a + i \in Int /\ a + i = b + M BY <1>2, <2>2
    <3>2. M <= a + i /\ a + i < M + M BY <3>1
    <3>3. (a + i) % M = (a + i) - M BY <3>1, <3>2, ModCases
    <3> QED BY <3>1, <3>3
  <2> QED BY <1>1, <2>1, <2>2
<1> QED BY <1>2, <1>3 DEF i, RingDist, RingPlus

(* Steps add up while they stay within one turn. *)
LEMMA RingSum ==
    ASSUME NEW M \in Nat, M >= 1, NEW a \in 0..(M - 1), NEW i \in Nat, NEW k \in Nat, i + k < M
    PROVE  RingPlus(M, RingPlus(M, a, i), k) = RingPlus(M, a, i + k)
<1> DEFINE b == (a + i) % M
           c == (a + (i + k)) % M
<1>1. (b = a + i /\ a + i < M) \/ (b = (a + i) - M /\ a + i >= M)
  <2> DEFINE z == a + i
  <2>1. z \in Int /\ 0 <= z /\ z < M + M OBVIOUS
  <2> HIDE DEF z
  <2>2. (z < M => z % M = z) /\ (M <= z => z % M = z - M) BY <2>1, ModCases
  <2>3. (z % M = z /\ z < M) \/ (z % M = z - M /\ z >= M) BY <2>1, <2>2
  <2> QED BY <2>3 DEF z
<1>2. (c = a + (i + k) /\ a + (i + k) < M) \/ (c = (a + (i + k)) - M /\ a + (i + k) >= M)
  <2> DEFINE z == a + (i + k)
  <2>1. z \in Int /\ 0 <= z /\ z < M + M OBVIOUS
  <2> HIDE DEF z
  <2>2. (z < M => z % M = z) /\ (M <= z => z % M = z - M) BY <2>1, ModCases
  <2>3. (z % M = z /\ z < M) \/ (z % M = z - M /\ z >= M) BY <2>1, <2>2
  <2> QED BY <2>3 DEF z
<1>3. b \in 0..(M - 1) /\ c \in 0..(M - 1) BY ModCases
<1> HIDE DEF b, c
<1>4. (b + k) % M = c
  <2>1. CASE b + k < M
    <3>1. b + k \in Int /\ 0 <= b + k /\ b + k = c BY <1>1, <1>2, <1>3, <2>1
    <3> QED BY <2>1, <3>1, ModCases
  <2>2. CASE b + k >= M
    <3>1. b + k \in Int /\ b + k < M + M /\ (b + k) - M = c
      BY <1>1, <1>2, <1>3, <2>2
    <3> QED BY <2>2, <3>1, ModCases
  <2> QED BY <1>3, <2>1, <2>2
<1> QED BY <1>4 DEF b, c, RingPlus

(* Moved k places forward, one is k places nearer. *)
LEMMA RingNearer ==
    ASSUME NEW M \in Nat, M >= 1, NEW a \in 0..(M - 1), NEW b \in 0..(M - 1), NEW k \in Nat,
           k <= RingDist(M, a, b)
    PROVE  RingDist(M, RingPlus(M, a, k), b) = RingDist(M, a, b) - k
<1> DEFINE d == RingDist(M, a, b)
           e == d - k
           c == RingPlus(M, a, k)
<1>1. d \in 0..(M - 1) /\ RingPlus(M, a, d) = b BY RingFwd
<1>2. k <= d OBVIOUS
<1> HIDE DEF d
<1>3. e \in 0..(M - 1) /\ k \in 0..(M - 1) /\ e \in Nat /\ k + e = d /\ k + e < M
  BY <1>1, <1>2
<1> HIDE DEF e
<1>4. RingPlus(M, c, e) = b BY <1>1, <1>3, RingSum
<1>5. c \in 0..(M - 1) BY <1>3, RingBack
<1> HIDE DEF c
<1>6. RingDist(M, c, b) = e BY <1>3, <1>4, <1>5, RingBack
<1> QED BY <1>6 DEF c, e, d

(* The window of an identifier. *)
LEMMA Rings ==
    /\ \A s, x \in Int : BaIndex(s, x) = RingDist(SeqMax, s, x)
    /\ \A s, n \in Int : SeqPlus(s, n) = RingPlus(SeqMax, s, n)
    /\ \A s, n \in Int : SlotPlus(s, n) = RingPlus(TidMaxBufs, s, n)
    /\ SeqNos = 0..(SeqMax - 1) /\ Slots = 0..(TidMaxBufs - 1)
    /\ SeqMax \in Nat /\ SeqMax >= 1 /\ TidMaxBufs \in Nat /\ TidMaxBufs >= 1
    /\ TidMaxBufs <= SeqMax
BY BawBounds DEF BaIndex, RingDist, SeqPlus, RingPlus, SlotPlus, SeqNos, Slots

(* The places of sequence numbers. *)
LEMMA Places ==
    ASSUME NEW s \in SeqNos
    PROVE  /\ \A x \in SeqNos : BaIndex(s, x) \in 0..(SeqMax - 1) /\ SeqPlus(s, BaIndex(s, x)) = x
           /\ \A i \in 0..(SeqMax - 1) : SeqPlus(s, i) \in SeqNos /\ BaIndex(s, SeqPlus(s, i)) = i
           /\ \A x, y \in SeqNos : BaIndex(s, x) = BaIndex(s, y) => x = y
           /\ BaIndex(s, s) = 0
<1>1. s \in 0..(SeqMax - 1) /\ s \in Int BY Rings
<1>2. ASSUME NEW x \in SeqNos
      PROVE  BaIndex(s, x) \in 0..(SeqMax - 1) /\ SeqPlus(s, BaIndex(s, x)) = x
  <2>1. x \in 0..(SeqMax - 1) /\ x \in Int BY Rings
  <2>2. RingDist(SeqMax, s, x) \in 0..(SeqMax - 1)
        /\ RingPlus(SeqMax, s, RingDist(SeqMax, s, x)) = x
    BY <1>1, <2>1, Rings, RingFwd
  <2>3. BaIndex(s, x) = RingDist(SeqMax, s, x) BY <1>1, <2>1, Rings
  <2>4. BaIndex(s, x) \in Int BY <2>2, <2>3, Rings
  <2> QED BY <1>1, <2>2, <2>3, <2>4, Rings
<1>3. ASSUME NEW i \in 0..(SeqMax - 1)
      PROVE  SeqPlus(s, i) \in SeqNos /\ BaIndex(s, SeqPlus(s, i)) = i
  <2>1. i \in Int BY Rings
  <2>2. RingPlus(SeqMax, s, i) \in 0..(SeqMax - 1)
        /\ RingDist(SeqMax, s, RingPlus(SeqMax, s, i)) = i
    BY <1>1, Rings, RingBack
  <2>3. SeqPlus(s, i) = RingPlus(SeqMax, s, i) BY <1>1, <2>1, Rings
  <2>4. SeqPlus(s, i) \in Int BY <2>2, <2>3, Rings
  <2> QED BY <1>1, <2>2, <2>3, <2>4, Rings
<1>4. BaIndex(s, s) = 0
  <2>1. 0 \in 0..(SeqMax - 1) /\ s + 0 = s BY <1>1, Rings
  <2>2. SeqPlus(s, 0) = s
    <3>1. s % SeqMax = s
      <4>1. s \in Int /\ 0 <= s /\ s < SeqMax BY <1>1, Rings
      <4> HIDE DEF SeqNos
      <4> QED BY <4>1, BawBounds, ModCases
    <3> QED BY <2>1, <3>1 DEF SeqPlus
  <2> QED BY <1>3, <2>1, <2>2
<1>5. \A x, y \in SeqNos : BaIndex(s, x) = BaIndex(s, y) => x = y BY <1>2
<1> QED BY <1>2, <1>3, <1>4, <1>5

(* Different places of the window have different slots. *)
LEMMA SlotsApart ==
    ASSUME NEW h \in Slots
    PROVE  /\ \A i \in 0..(TidMaxBufs - 1) : SlotPlus(h, i) \in Slots
           /\ \A i, j \in 0..(TidMaxBufs - 1) : SlotPlus(h, i) = SlotPlus(h, j) => i = j
           /\ \A i, k \in Nat : i + k < TidMaxBufs => SlotPlus(SlotPlus(h, i), k) = SlotPlus(h, i + k)
           /\ \A i \in 0..(TidMaxBufs - 1) : (SlotPlus(h, i) - h) % TidMaxBufs = i
<1>1. h \in 0..(TidMaxBufs - 1) /\ h \in Int BY Rings
<1>2. ASSUME NEW i \in 0..(TidMaxBufs - 1)
      PROVE  /\ SlotPlus(h, i) \in Slots
             /\ (SlotPlus(h, i) - h) % TidMaxBufs = i
  <2>1. i \in Int BY Rings
  <2>2. RingPlus(TidMaxBufs, h, i) \in 0..(TidMaxBufs - 1)
        /\ RingDist(TidMaxBufs, h, RingPlus(TidMaxBufs, h, i)) = i
    BY <1>1, Rings, RingBack
  <2>3. SlotPlus(h, i) = RingPlus(TidMaxBufs, h, i) BY <1>1, <2>1, Rings
  <2> QED BY <2>2, <2>3, Rings DEF RingDist
<1>3. ASSUME NEW i \in Nat, NEW k \in Nat, i + k < TidMaxBufs
      PROVE  SlotPlus(SlotPlus(h, i), k) = SlotPlus(h, i + k)
  <2>1. i \in 0..(TidMaxBufs - 1) /\ i \in Int /\ k \in Int /\ i + k \in Int
    BY <1>3, Rings
  <2>2. SlotPlus(h, i) \in Int BY <1>2, <2>1, Rings
  <2>3. SlotPlus(h, i) = RingPlus(TidMaxBufs, h, i)
        /\ SlotPlus(SlotPlus(h, i), k) = RingPlus(TidMaxBufs, SlotPlus(h, i), k)
        /\ SlotPlus(h, i + k) = RingPlus(TidMaxBufs, h, i + k)
    BY <1>1, <2>1, <2>2, Rings
  <2>4. RingPlus(TidMaxBufs, RingPlus(TidMaxBufs, h, i), k) = RingPlus(TidMaxBufs, h, i + k)
    BY <1>1, <1>3, Rings, RingSum
  <2> QED BY <2>3, <2>4
<1>4. \A i, j \in 0..(TidMaxBufs - 1) : SlotPlus(h, i) = SlotPlus(h, j) => i = j
  BY <1>2
<1> QED BY <1>2, <1>3, <1>4

(* The loop at the end of ath_tx_update_baw moves the window. *)
LEMMA AdvanceMoves ==
    ASSUME NEW r \in TidStates, NEW k \in 0..Span(r)
    PROVE  /\ Advance(r, k) \in TidStates /\ Moves(r, Advance(r, k), k)
           /\ Advance(r, k).bitmap = r.bitmap /\ SameQueue(Advance(r, k), r)
<1> DEFINE u == Advance(r, k)
           s == r.seq_start
           h == r.baw_head
           N == Span(r)
<1>1. /\ s \in SeqNos /\ h \in Slots /\ r.baw_tail \in Slots
      /\ N \in 0..(TidMaxBufs - 1) /\ r \in Windows(r)
  BY SpanType DEF TidStates, Windows, SameQueue
<1>2. k \in Nat /\ k <= N /\ N < TidMaxBufs /\ N \in Nat BY <1>1, Rings
<1>3. u \in Windows(r) BY <1>1, <1>2, AdvanceType
<1>4. u.seq_start = SeqPlus(s, k) /\ u.baw_head = SlotPlus(h, k)
      /\ u.baw_tail = r.baw_tail /\ u.bitmap = r.bitmap
  BY DEF Advance, TidStates
<1>5. s \in 0..(SeqMax - 1) /\ h \in 0..(TidMaxBufs - 1) /\ r.baw_tail \in 0..(TidMaxBufs - 1)
      /\ s \in Int /\ h \in Int /\ r.baw_tail \in Int
  BY <1>1, Rings
<1>6. Span(u) = N - k
  <2>1. N = RingDist(TidMaxBufs, h, r.baw_tail) BY DEF Span, RingDist
  <2>2. u.baw_head = RingPlus(TidMaxBufs, h, k) BY <1>2, <1>4, <1>5, Rings
  <2>3. Span(u) = RingDist(TidMaxBufs, u.baw_head, r.baw_tail)
    BY <1>4 DEF Span, RingDist
  <2> HIDE DEF N, u, h
  <2>4. RingDist(TidMaxBufs, RingPlus(TidMaxBufs, h, k), r.baw_tail) = N - k
    BY <1>2, <1>5, <2>1, Rings, RingNearer
  <2> QED BY <2>2, <2>3, <2>4
<1>7. ASSUME NEW y \in SeqNos, k <= BaIndex(s, y)
      PROVE  BaIndex(u.seq_start, y) = BaIndex(s, y) - k
  <2>1. y \in 0..(SeqMax - 1) /\ y \in Int /\ BaIndex(s, y) = RingDist(SeqMax, s, y)
    BY <1>5, Rings
  <2>2. u.seq_start = RingPlus(SeqMax, s, k) /\ u.seq_start \in Int
    BY <1>2, <1>3, <1>4, <1>5, Rings DEF Windows, TidStates
  <2>3. BaIndex(u.seq_start, y) = RingDist(SeqMax, u.seq_start, y)
    BY <2>1, <2>2, Rings
  <2> HIDE DEF u, s
  <2>4. RingDist(SeqMax, RingPlus(SeqMax, s, k), y) = RingDist(SeqMax, s, y) - k
    BY <1>2, <1>5, <1>7, <2>1, Rings, RingNearer
  <2> QED BY <2>1, <2>2, <2>3, <2>4
<1>8. \A i \in Nat : k + i < TidMaxBufs => SlotPlus(u.baw_head, i) = SlotPlus(h, k + i)
  <2> HIDE DEF u, h
  <2> QED BY <1>1, <1>2, <1>4, SlotsApart
<1> QED BY <1>3, <1>4, <1>6, <1>7, <1>8 DEF Moves, Windows

(* A frame that is held has a place before the tail, and a slot. *)
LEMMA HeldPlace ==
    ASSUME NEW r \in TidStates, NEW x \in SeqNos
    PROVE  /\ SlotOf(r, x) = SlotPlus(r.baw_head, BaIndex(r.seq_start, x))
           /\ \A i \in Busy(r) : i \in Nat /\ i < Span(r) /\ i \in 0..(TidMaxBufs - 1)
           /\ \A i \in 0..(Span(r) - 1) : i \in Busy(r) <=> SlotPlus(r.baw_head, i) \in r.bitmap
           /\ Span(r) \in Nat /\ Span(r) < TidMaxBufs
<1>1. Span(r) \in 0..(TidMaxBufs - 1) /\ Busy(r) \subseteq 0..(Span(r) - 1)
  BY SpanType
<1>2. Span(r) \in Nat /\ Span(r) < TidMaxBufs BY <1>1, Rings
<1>3. \A i \in Busy(r) : i \in Nat /\ i < Span(r) /\ i \in 0..(TidMaxBufs - 1)
  BY <1>1, <1>2, Rings
<1> QED BY <1>2, <1>3 DEF SlotOf, Busy

(* A window moved over free places holds what it held. *)
LEMMA AdvanceHolds ==
    ASSUME NEW r \in TidStates, NEW U, Holds(r, U), NEW k \in 0..Span(r),
           \A i \in Busy(r) : k <= i
    PROVE  Holds(Advance(r, k), U)
<1> DEFINE u == Advance(r, k)
           N == Span(r)
<1>1. u \in TidStates /\ Moves(r, u, k) /\ u.bitmap = r.bitmap BY AdvanceMoves
<1>2. N \in Nat /\ N < TidMaxBufs /\ k \in Nat /\ k <= N /\ TidMaxBufs \in Nat
  BY HeldPlace, SpanType, Rings
<1> HIDE DEF u, N
<1>3. Span(u) = N - k BY <1>1 DEF Moves, N
<1>4. ASSUME NEW x \in U
      PROVE  BaIndex(u.seq_start, x) \in Busy(u) /\ SlotOf(u, x) = SlotOf(r, x)
  <2> DEFINE i == BaIndex(r.seq_start, x)
             j == BaIndex(u.seq_start, x)
  <2>1. x \in SeqNos /\ i \in Busy(r) BY DEF Holds
  <2>2. i \in Nat /\ i < N /\ k <= i /\ SlotPlus(r.baw_head, i) \in r.bitmap
    BY <2>1, HeldPlace DEF N, Busy
  <2>3. j = i - k BY <1>1, <2>1, <2>2 DEF Moves
  <2>4. SlotOf(r, x) = SlotPlus(r.baw_head, i) /\ SlotOf(u, x) = SlotPlus(u.baw_head, j)
    BY DEF SlotOf
  <2> HIDE DEF i, j
  <2>5. j \in Nat /\ k + j = i /\ j \in 0..((N - k) - 1) /\ k + j < TidMaxBufs
    BY <1>2, <2>2, <2>3
  <2>6. SlotPlus(u.baw_head, j) = SlotPlus(r.baw_head, i)
    BY <1>1, <2>5 DEF Moves
  <2>7. j \in Busy(u) BY <1>1, <1>3, <2>2, <2>5, <2>6 DEF Busy
  <2> QED BY <2>4, <2>6, <2>7 DEF j
<1>5. Exactly => u.bitmap = {SlotOf(u, x) : x \in U} BY <1>1, <1>4 DEF Holds
<1> QED BY <1>4, <1>5 DEF Holds, u

(* ath_tx_update_baw for a frame that is held *)
LEMMA UpdateHolds ==
    ASSUME NEW r \in TidStates, NEW U, Holds(r, U), NEW x \in U
    PROVE  /\ UpdateBaw(r, x) \in Windows(r)
           /\ Holds(UpdateBaw(r, x), U \ {x})
           /\ \E k \in Nat : Moves(r, UpdateBaw(r, x), k)
<1> DEFINE c == [r EXCEPT !.bitmap = @ \ {SlotOf(r, x)}]
           k == Clear(c)
           u == Advance(c, k)
<1>1. UpdateBaw(r, x) = u BY DEF UpdateBaw
<1>2. x \in SeqNos /\ UpdateBaw(r, x) \in Windows(r) BY BawTypes DEF Holds
<1>3. /\ c \in TidStates /\ c.bitmap = r.bitmap \ {SlotOf(r, x)} /\ c.seq_start = r.seq_start
      /\ c.baw_head = r.baw_head /\ c.baw_tail = r.baw_tail
  BY DEF TidStates
<1> HIDE DEF c
<1>4. Span(c) = Span(r) /\ \A y : SlotOf(c, y) = SlotOf(r, y)
  BY <1>3 DEF Span, SlotOf
<1>5. k \in Nat /\ k <= Span(c) /\ \A i \in Busy(c) : k <= i BY <1>3, ClearType
<1>6. k \in 0..Span(c) BY <1>3, <1>5, SpanType
<1> HIDE DEF k
<1>7. ASSUME NEW y \in U, y # x
      PROVE  BaIndex(c.seq_start, y) \in Busy(c) /\ SlotOf(r, y) # SlotOf(r, x)
  <2> DEFINE i == BaIndex(r.seq_start, y)
             j == BaIndex(r.seq_start, x)
  <2>1. y \in SeqNos /\ i \in Busy(r) /\ j \in Busy(r) BY DEF Holds
  <2>2. i # j BY <1>2, <1>7, <2>1, Places DEF TidStates
  <2>3. i \in 0..(TidMaxBufs - 1) /\ j \in 0..(TidMaxBufs - 1)
    BY <2>1, HeldPlace
  <2>4. SlotOf(r, y) = SlotPlus(r.baw_head, i) /\ SlotOf(r, x) = SlotPlus(r.baw_head, j)
    BY DEF SlotOf
  <2> HIDE DEF i, j
  <2>5. SlotOf(r, y) # SlotOf(r, x)
    BY <2>2, <2>3, <2>4, SlotsApart DEF TidStates
  <2>6. i \in Busy(c) BY <1>3, <1>4, <2>1, <2>4, <2>5 DEF Busy
  <2> QED BY <1>3, <2>5, <2>6 DEF i
<1>8. Holds(c, U \ {x})
  <2>1. U \ {x} \subseteq SeqNos BY DEF Holds
  <2>2. Exactly => c.bitmap = {SlotOf(c, y) : y \in U \ {x}}
    <3>1. Exactly => r.bitmap = {SlotOf(r, y) : y \in U} BY DEF Holds
    <3>2. \A y \in U \ {x} : SlotOf(r, y) # SlotOf(r, x) BY <1>7
    <3> QED BY <1>3, <1>4, <3>1, <3>2
  <2> QED BY <1>7, <2>1, <2>2 DEF Holds
<1>9. Holds(u, U \ {x}) BY <1>3, <1>5, <1>6, <1>8, AdvanceHolds
<1>10. Moves(r, u, k)
  <2>1. Moves(c, u, k) BY <1>3, <1>6, AdvanceMoves
  <2> QED BY <1>3, <1>4, <2>1 DEF Moves
<1> QED BY <1>1, <1>2, <1>5, <1>9, <1>10

(* The window closed by ath_tgt_tx_cleanup *)
LEMMA CloseHolds ==
    ASSUME NEW r \in TidStates, NEW U, Holds(r, U)
    PROVE  /\ CloseBaw(r) \in Windows(r) /\ Span(CloseBaw(r)) = 0
           /\ Exactly => CloseBaw(r).bitmap = {}
<1> DEFINE c == [r EXCEPT !.bitmap = @ \ {SlotPlus(r.baw_head, i) : i \in Busy(r)}]
           u == Advance(c, Span(r))
<1>1. CloseBaw(r) = u /\ CloseBaw(r) \in Windows(r)
  <2>1. 0 \in SeqNos BY RingTypes
  <2> QED BY <2>1, BawTypes DEF CloseBaw
<1>2. /\ c \in TidStates /\ c.bitmap = r.bitmap \ {SlotPlus(r.baw_head, i) : i \in Busy(r)}
      /\ c.baw_head = r.baw_head /\ c.baw_tail = r.baw_tail
  BY DEF TidStates
<1> HIDE DEF c
<1>3. Span(c) = Span(r) /\ Span(r) \in 0..Span(c)
  <2>1. Span(c) = Span(r) /\ Span(r) \in 0..(TidMaxBufs - 1)
    BY <1>2, SpanType DEF Span
  <2>2. Span(r) \in Int /\ 0 <= Span(r) BY <2>1, Rings
  <2> QED BY <2>1, <2>2
<1>4. Moves(c, u, Span(r)) /\ u.bitmap = c.bitmap BY <1>2, <1>3, AdvanceMoves
<1>5. Span(u) = 0
  <2>1. Span(r) \in Int BY <1>3, SpanType, Rings
  <2> QED BY <1>3, <1>4, <2>1 DEF Moves
<1>6. Exactly => c.bitmap = {}
  <2> SUFFICES ASSUME Exactly
               PROVE  c.bitmap = {}
    OBVIOUS
  <2>1. \A x \in U : BaIndex(r.seq_start, x) \in Busy(r) BY DEF Holds
  <2>2. \A x \in U : SlotOf(r, x) = SlotPlus(r.baw_head, BaIndex(r.seq_start, x))
    BY DEF SlotOf
  <2>3. r.bitmap = {SlotOf(r, x) : x \in U} BY DEF Holds
  <2> QED BY <1>2, <2>1, <2>2, <2>3
<1> QED BY <1>1, <1>4, <1>5, <1>6

(* Without a drain, the busy places are those of the frames held. *)
LEMMA BusyExact ==
    ASSUME NEW r \in TidStates, NEW U, Holds(r, U), Exactly
    PROVE  Busy(r) = {BaIndex(r.seq_start, x) : x \in U} /\ Outstanding(r) = U
<1>1. ASSUME NEW i \in Busy(r)
      PROVE  \E x \in U : BaIndex(r.seq_start, x) = i
  <2>1. SlotPlus(r.baw_head, i) \in r.bitmap BY DEF Busy
  <2>2. PICK x \in U : SlotPlus(r.baw_head, i) = SlotOf(r, x) BY <2>1 DEF Holds
  <2>3. BaIndex(r.seq_start, x) \in Busy(r) /\ x \in SeqNos BY DEF Holds
  <2>4. i \in 0..(TidMaxBufs - 1) /\ BaIndex(r.seq_start, x) \in 0..(TidMaxBufs - 1)
    BY <2>3, HeldPlace
  <2>5. SlotPlus(r.baw_head, i) = SlotPlus(r.baw_head, BaIndex(r.seq_start, x))
    BY <2>2 DEF SlotOf
  <2>6. r.baw_head \in Slots BY DEF TidStates
  <2> QED BY <2>4, <2>5, <2>6, SlotsApart
<1>2. Busy(r) = {BaIndex(r.seq_start, x) : x \in U} BY <1>1 DEF Holds
<1>3. \A x \in U : SeqPlus(r.seq_start, BaIndex(r.seq_start, x)) = x
  BY Places DEF Holds, TidStates
<1>4. Outstanding(r) = {SeqPlus(r.seq_start, BaIndex(r.seq_start, x)) : x \in U}
  BY <1>2 DEF Outstanding
<1> QED BY <1>2, <1>3, <1>4

(* No window holds more frames than it has busy places, nor fewer if the bits
   are theirs. *)
LEMMA HeldCount ==
    ASSUME NEW r \in TidStates, NEW U, Holds(r, U)
    PROVE  /\ IsFiniteSet(U) /\ Cardinality(U) \in Nat /\ Cardinality(Busy(r)) \in Nat
           /\ Cardinality(U) <= Cardinality(Busy(r))
           /\ Exactly => Cardinality(U) = Cardinality(Busy(r))
<1> DEFINE f == [x \in U |-> BaIndex(r.seq_start, x)]
           I == {BaIndex(r.seq_start, x) : x \in U}
<1>1. I \subseteq Busy(r) /\ IsFiniteSet(Busy(r)) /\ Cardinality(Busy(r)) \in Nat
  BY SpanType DEF Holds
<1>2. r.seq_start \in SeqNos /\ U \subseteq SeqNos BY DEF Holds, TidStates
<1>3. IsFiniteSet(SeqNos) BY FS_Interval, Rings
<1>4. IsFiniteSet(U) /\ Cardinality(U) \in Nat
  BY <1>2, <1>3, FS_Subset, FS_CardinalityType
<1>5. f \in Bijection(U, I)
  <2>1. f \in [U -> I] /\ \A y \in I : \E x \in U : f[x] = y OBVIOUS
  <2>2. \A x, y \in U : f[x] = f[y] => x = y BY <1>2, Places
  <2> QED BY <2>1, <2>2 DEF Bijection, Injection, Surjection, IsInjective
<1>6. Cardinality(I) = Cardinality(U)
  BY <1>4, <1>5, FS_Bijection DEF ExistsBijection
<1>7. Cardinality(I) <= Cardinality(Busy(r)) BY <1>1, FS_Subset
<1>8. Exactly => I = Busy(r) BY BusyExact
<1> QED BY <1>1, <1>4, <1>6, <1>7, <1>8

-----------------------------------------------------------------------------

(* The numbers of a session and their ranges *)
LEMMA SessionNums ==
    ASSUME NEW t \in Tids, NEW r, OwnQueue(r, t)
    PROVE  /\ r \in TidStates /\ r.buf_q \in Seq(OwnFrames(t)) /\ Len(r.buf_q) \in Nat
           /\ Total(r) \in Nat /\ Total(r) < SeqMax /\ Span(r) \in Nat
           /\ Span(r) < TidMaxBufs /\ BawSize \in Nat /\ SeqMax \in Nat /\ TidMaxBufs \in Nat
           /\ r.seq_start \in SeqNos /\ r.seq_next \in SeqNos
           /\ \A i \in 1..Len(r.buf_q) : /\ r.buf_q[i] \in OwnFrames(t)
                                         /\ r.buf_q[i].seq \in SeqNos
                                         /\ r.buf_q[i].retries \in Nat
                                         /\ BaIndex(r.seq_start, r.buf_q[i].seq) \in Nat
<1>1. r \in TidStates /\ r.buf_q \in Seq(OwnFrames(t)) /\ Len(r.buf_q) \in Nat
  BY DEF OwnQueue
<1>2. r.seq_start \in SeqNos /\ r.seq_next \in SeqNos BY <1>1 DEF TidStates
<1>3. \A x \in SeqNos : BaIndex(r.seq_start, x) \in 0..(SeqMax - 1)
  BY <1>2, Places
<1>4. \A x \in SeqNos : BaIndex(r.seq_start, x) \in Nat /\ BaIndex(r.seq_start, x) < SeqMax
  BY <1>3, BawBounds
<1>5. Total(r) \in Nat /\ Total(r) < SeqMax BY <1>2, <1>4 DEF Total
<1>6. Span(r) \in Nat /\ Span(r) < TidMaxBufs BY <1>1, <1>2, HeldPlace
<1>7. \A i \in 1..Len(r.buf_q) : r.buf_q[i] \in OwnFrames(t) BY <1>1
<1>8. \A i \in 1..Len(r.buf_q) : r.buf_q[i].seq \in SeqNos /\ r.buf_q[i].retries \in Nat
  BY <1>7 DEF OwnFrames
<1> QED BY <1>1, <1>2, <1>4, <1>5, <1>6, <1>7, <1>8, BawBounds

(* The frames that wait are the first of the queue. *)
LEMMA AgainIs ==
    ASSUME NEW t \in Tids, NEW r, OwnQueue(r, t), NEW m, Fresh(r, m)
    PROVE  /\ m \in Nat
           /\ \A i \in 1..Len(r.buf_q) : i + m <= Len(r.buf_q) => r.buf_q[i].seq \in Again(r)
           /\ \A x \in Again(r) : \E i \in 1..Len(r.buf_q) : i + m <= Len(r.buf_q) /\ r.buf_q[i].seq = x
           /\ Again(r) \subseteq SeqNos
           /\ m = Len(r.buf_q) => Again(r) = {}
<1> DEFINE q == r.buf_q
           L == Len(q)
<1>1. q \in Seq(OwnFrames(t)) /\ L \in Nat /\ \A i \in 1..L : q[i].retries \in Nat /\ q[i].seq \in SeqNos
  BY SessionNums
<1>2. m \in Nat /\ m <= L BY <1>1 DEF Fresh
<1>3. Waiting(r) = {f \in ToSet(q) : f.retries > 0} BY DEF Waiting
<1>4. ToSet(q) = {q[i] : i \in 1..L} BY <1>1 DEF ToSet
<1>5. \A i \in 1..L : (i + m <= L => q[i].retries > 0) /\ (i + m > L => q[i].retries = 0)
  BY DEF Fresh
<1> HIDE DEF q, L
<1>6. ASSUME NEW i \in 1..L, i + m <= L
      PROVE  q[i].seq \in Again(r)
  <2>1. q[i] \in Waiting(r) BY <1>3, <1>4, <1>5, <1>6
  <2> QED BY <2>1 DEF Again
<1>7. ASSUME NEW x \in Again(r)
      PROVE  \E i \in 1..L : i + m <= L /\ q[i].seq = x
  <2>1. PICK f \in Waiting(r) : f.seq = x BY <1>7 DEF Again
  <2>2. PICK i \in 1..L : q[i] = f BY <1>3, <1>4, <2>1
  <2>3. q[i].retries > 0 BY <1>3, <2>2
  <2>4. ~(i + m > L) BY <1>5, <2>3
  <2>5. i + m <= L BY <1>1, <1>2, <2>4
  <2> QED BY <2>1, <2>2, <2>5
<1>8. Again(r) \subseteq SeqNos BY <1>1, <1>7
<1>9. m = L => Again(r) = {}
  <2>1. \A i \in 1..L : m = L => ~(i + m <= L) BY <1>1, <1>2
  <2> QED BY <1>7, <2>1
<1> QED BY <1>2, <1>6, <1>7, <1>8, <1>9 DEF q, L

(* A moved window is still before the frames not sent. *)
LEMMA MovesFresh ==
    ASSUME NEW t \in Tids, NEW r, OwnQueue(r, t), NEW m, Fresh(r, m), Ahead(r, m), Once(r, m),
           NEW u \in Windows(r), NEW k \in Nat, Moves(r, u, k)
    PROVE  /\ Fresh(u, m) /\ Ahead(u, m) /\ Once(u, m) /\ Again(u) = Again(r)
           /\ OwnQueue(u, t)
<1> DEFINE q == r.buf_q
           L == Len(q)
           T == Total(r)
<1>1. u \in TidStates /\ u.buf_q = q /\ u.seq_next = r.seq_next
  BY DEF Windows, SameQueue
<1>2. OwnQueue(u, t) BY <1>1 DEF OwnQueue
<1>3. L \in Nat /\ T \in Nat /\ Span(r) \in Nat /\ r.seq_next \in SeqNos /\ BawSize \in Nat
      /\ \A i \in 1..L : q[i].seq \in SeqNos
  BY SessionNums
<1>4. m \in Nat /\ m <= L /\ k <= Span(r) /\ Span(u) = Span(r) - k
  BY <1>3, AgainIs DEF Fresh, Moves
<1>5. Span(r) + m <= T /\ T <= BawSize + m BY DEF Ahead
<1>6. Total(u) = T - k
  <2>1. k <= BaIndex(r.seq_start, r.seq_next) BY <1>3, <1>4, <1>5 DEF Total
  <2> QED BY <1>1, <1>3, <2>1 DEF Moves, Total
<1> HIDE DEF T
<1>7. ASSUME NEW i \in 1..L, i + m > L
      PROVE  q[i].retries = 0 /\ BaIndex(u.seq_start, q[i].seq) = ((T - k) - L) + (i - 1)
  <2> DEFINE o == BaIndex(r.seq_start, q[i].seq)
  <2>1. q[i].retries = 0 /\ o = (T - L) + (i - 1) BY <1>7 DEF Fresh, T
  <2>2. i \in Nat /\ o >= k
    <3> DEFINE S == Span(r)
    <3>1. L \in Nat /\ T \in Nat /\ S \in Nat /\ m \in Nat /\ i \in Nat /\ o = (T - L) + (i - 1)
      BY <1>3, <1>4, <2>1
    <3>2. i + m > L /\ S + m <= T /\ k <= S BY <1>4, <1>5, <1>7
    <3> HIDE DEF S, L, o
    <3>3. o >= T - m /\ T - m >= S BY <3>1, <3>2
    <3> QED BY <3>1, <3>2, <3>3
  <2>3. BaIndex(u.seq_start, q[i].seq) = o - k BY <1>3, <2>2 DEF Moves
  <2> HIDE DEF o
  <2> QED BY <1>3, <1>4, <2>1, <2>2, <2>3
<1>8. \A i \in 1..L : i + m <= L => q[i].retries > 0 BY DEF Fresh
<1>9. m \in 0..L BY <1>3, <1>4
<1>10. Fresh(u, m) BY <1>1, <1>6, <1>7, <1>8, <1>9 DEF Fresh
<1>11. Ahead(u, m) BY <1>3, <1>4, <1>5, <1>6 DEF Ahead
<1>12. Once(u, m) BY <1>1 DEF Once
<1>13. Again(u) = Again(r) BY <1>1 DEF Again, Waiting
<1> QED BY <1>2, <1>10, <1>11, <1>12, <1>13

(* ath_tx_addto_baw for a frame behind the tail *)
LEMMA AddHolds ==
    ASSUME NEW r \in TidStates, NEW U, Holds(r, U), NEW x \in SeqNos,
           Span(r) <= BaIndex(r.seq_start, x), BaIndex(r.seq_start, x) < BawSize
    PROVE  /\ AddToBaw(r, x) \in Windows(r) /\ AddToBaw(r, x).seq_start = r.seq_start
           /\ Span(AddToBaw(r, x)) = BaIndex(r.seq_start, x) + 1
           /\ Holds(AddToBaw(r, x), U \cup {x})
<1> DEFINE o == BaIndex(r.seq_start, x)
           c == SlotOf(r, x)
           u == AddToBaw(r, x)
           h == r.baw_head
<1>1. /\ u \in Windows(r) /\ u.seq_start = r.seq_start /\ u.baw_head = h
      /\ u.bitmap = r.bitmap \cup {c}
      /\ u.baw_tail = IF o >= Span(r) THEN SlotPlus(c, 1) ELSE r.baw_tail
  <2>1. u \in Windows(r) BY BawTypes
  <2> QED BY <2>1 DEF AddToBaw, TidStates
<1>2. r.seq_start \in SeqNos /\ h \in Slots BY DEF TidStates
<1>3. o \in 0..(SeqMax - 1) BY <1>2, Places
<1>4. o \in Nat /\ o < BawSize /\ Span(r) \in Nat /\ Span(r) <= o /\ o + 1 < TidMaxBufs
      /\ TidMaxBufs \in Nat
  BY <1>3, HeldPlace, BawBounds
<1>5. c = SlotPlus(h, o) BY DEF SlotOf
<1> HIDE DEF o, u, c
<1>6. u.baw_tail = SlotPlus(h, o + 1)
  <2>1. u.baw_tail = SlotPlus(c, 1) BY <1>1, <1>4
  <2> QED BY <1>2, <1>4, <1>5, <2>1, SlotsApart
<1>7. o + 1 \in 0..(TidMaxBufs - 1) BY <1>4
<1>8. Span(u) = o + 1 BY <1>1, <1>2, <1>6, <1>7, SlotsApart DEF Span
<1>9. u \in TidStates /\ \A y : SlotOf(u, y) = SlotOf(r, y)
  BY <1>1 DEF Windows, SlotOf
<1>10. ASSUME NEW y \in U \cup {x}
       PROVE  y \in SeqNos /\ BaIndex(u.seq_start, y) \in Busy(u)
  <2>1. CASE y \in U
    <3>1. y \in SeqNos /\ BaIndex(r.seq_start, y) \in Busy(r) BY <2>1 DEF Holds
    <3> DEFINE i == BaIndex(r.seq_start, y)
    <3>2. i \in Nat /\ i < Span(r) /\ SlotPlus(h, i) \in r.bitmap
      BY <3>1, HeldPlace DEF Busy
    <3> HIDE DEF i
    <3>3. i \in 0..((o + 1) - 1) BY <1>4, <3>2
    <3>4. i \in Busy(u) BY <1>1, <1>8, <3>2, <3>3 DEF Busy
    <3> QED BY <1>1, <3>1, <3>4 DEF i
  <2>2. CASE y = x
    <3>1. o \in 0..((o + 1) - 1) BY <1>4
    <3>2. o \in Busy(u) BY <1>1, <1>5, <1>8, <3>1 DEF Busy
    <3> QED BY <1>1, <2>2, <3>2 DEF o
  <2> QED BY <2>1, <2>2
<1>11. Exactly => u.bitmap = {SlotOf(u, y) : y \in U \cup {x}}
  <2>1. Exactly => r.bitmap = {SlotOf(r, y) : y \in U} BY DEF Holds
  <2> QED BY <1>1, <1>9, <2>1 DEF c
<1>12. Holds(u, U \cup {x}) BY <1>10, <1>11 DEF Holds
<1> QED BY <1>1, <1>8, <1>12 DEF u, o

(* The first frame is sent: it enters the window unless it is there. *)
LEMMA PopWindow ==
    ASSUME NEW t \in Tids, NEW r, OwnQueue(r, t), NEW X, NEW m, InWindow(r, X, m),
           r.buf_q # << >>, BawWithin(r.seq_start, r.buf_q[1].seq)
    PROVE  /\ r.buf_q[1].seq \notin X
           /\ \E e \in Nat : InWindow(Popped(r), X \cup {r.buf_q[1].seq}, e)
           /\ OwnQueue(Popped(r), t) /\ Popped(r).seq_start = r.seq_start
<1> DEFINE q == r.buf_q
           L == Len(q)
           T == Total(r)
           f == q[1]
           x == f.seq
           u == Popped(r)
           w == AddStep(r, f)
<1>1. /\ r \in TidStates /\ q \in Seq(OwnFrames(t)) /\ L \in Nat /\ T \in Nat
      /\ Span(r) \in Nat /\ r.seq_start \in SeqNos /\ BawSize \in Nat
      /\ \A i \in 1..L : /\ q[i] \in OwnFrames(t) /\ q[i].seq \in SeqNos /\ q[i].retries \in Nat
                         /\ BaIndex(r.seq_start, q[i].seq) \in Nat
  BY SessionNums
<1>2. L >= 1 /\ 1 \in 1..L /\ Tail(q) \in Seq(OwnFrames(t)) /\ Len(Tail(q)) = L - 1
      /\ \A i \in 1..(L - 1) : Tail(q)[i] = q[i + 1]
  BY <1>1
<1>3. Fresh(r, m) /\ Ahead(r, m) /\ Once(r, m) /\ Holds(r, X \cup Again(r)) /\ Again(r) \cap X = {}
  BY DEF InWindow
<1>4. m \in Nat /\ m <= L BY <1>1, <1>3, AgainIs DEF Fresh
<1>12. /\ \A i \in 1..L : i + m <= L => q[i].seq \in Again(r)
       /\ \A y \in Again(r) : \E i \in 1..L : i + m <= L /\ q[i].seq = y
       /\ m = L => Again(r) = {}
  BY <1>3, AgainIs
<1>5. w \in Windows(r) /\ w.seq_start = r.seq_start
  <2>1. r \in Windows(r) BY <1>1 DEF Windows, SameQueue
  <2>2. x \in SeqNos BY <1>1, <1>2
  <2>3. AddToBaw(r, x) \in Windows(r) BY <1>1, <2>2, BawTypes
  <2>4. AddToBaw(r, x).seq_start = r.seq_start BY <1>1 DEF AddToBaw, TidStates
  <2> QED BY <2>1, <2>3, <2>4 DEF AddStep
<1>6. /\ u = [w EXCEPT !.buf_q = Tail(q)] /\ u.buf_q = Tail(q) /\ u \in TidStates
      /\ u.seq_start = r.seq_start /\ u.seq_next = r.seq_next /\ u.baw_head = w.baw_head
      /\ u.baw_tail = w.baw_tail /\ u.bitmap = w.bitmap
  <2>1. OwnFrames(t) \subseteq Frames BY OwnFramesType
  <2>2. Tail(q) \in Seq(Frames) BY <1>2, <2>1
  <2>3. w \in TidStates /\ w.buf_q = q /\ w.seq_next = r.seq_next
    BY <1>5 DEF Windows, SameQueue
  <2> QED BY <1>5, <2>2, <2>3 DEF Popped, TidStates
<1>7. OwnQueue(u, t) BY <1>2, <1>6 DEF OwnQueue
<1>8. Total(u) = T /\ Span(u) = Span(w) /\ \A U : Holds(w, U) => Holds(u, U)
  <2>1. Busy(u) = Busy(w) /\ Span(u) = Span(w) /\ \A y : SlotOf(u, y) = SlotOf(w, y)
    BY <1>5, <1>6 DEF Busy, Span, SlotOf
  <2>2. Total(u) = T BY <1>6 DEF Total
  <2>3. u.seq_start = w.seq_start /\ u.bitmap = w.bitmap BY <1>5, <1>6
  <2> HIDE DEF u, w
  <2>4. \A U : Holds(w, U) => Holds(u, U) BY <2>1, <2>3 DEF Holds
  <2> QED BY <2>1, <2>2, <2>4
<1> HIDE DEF u, w, T
<1>9. Fresh(r, m) /\ \A i \in 1..L : i + m > L => q[i].retries = 0
      /\ BaIndex(r.seq_start, q[i].seq) = (T - L) + (i - 1)
  BY <1>3 DEF Fresh, T
<1>10. CASE m < L
  <2>1. 1 + m <= L BY <1>1, <1>4, <1>10
  <2>2. f.retries > 0 /\ x \in Again(r) BY <1>2, <1>3, <2>1, AgainIs DEF Fresh
  <2>3. w = r BY <2>2 DEF AddStep, w
  <2>4. Fresh(u, m)
    <3>1. m \in 0..(L - 1) BY <1>1, <1>4, <1>10
    <3>2. ASSUME NEW i \in 1..(L - 1)
          PROVE  /\ i + m <= L - 1 => Tail(q)[i].retries > 0
                 /\ i + m > L - 1 => /\ Tail(q)[i].retries = 0
                                     /\ BaIndex(r.seq_start, Tail(q)[i].seq) = (T - (L - 1)) + (i - 1)
      <4>1. Tail(q)[i] = q[i + 1] /\ i + 1 \in 1..L /\ i \in Nat BY <1>1, <1>2
      <4>2. i + m <= L - 1 => q[i + 1].retries > 0
        <5>1. i + m <= L - 1 => (i + 1) + m <= L BY <1>1, <1>4, <4>1
        <5> QED BY <1>3, <4>1, <5>1 DEF Fresh
      <4>3. i + m > L - 1 => q[i + 1].retries = 0
               /\ BaIndex(r.seq_start, q[i + 1].seq) = (T - L) + ((i + 1) - 1)
        <5>1. i + m > L - 1 => (i + 1) + m > L BY <1>1, <1>4, <4>1
        <5> QED BY <1>9, <4>1, <5>1
      <4>4. (T - L) + ((i + 1) - 1) = (T - (L - 1)) + (i - 1) BY <1>1, <4>1
      <4> QED BY <4>1, <4>2, <4>3, <4>4
    <3> QED BY <1>2, <1>6, <1>8, <3>1, <3>2 DEF Fresh
  <2>5. Ahead(u, m) BY <1>3, <1>8, <2>3 DEF Ahead, T
  <2>6. Once(u, m)
    <3>1. ASSUME NEW i \in 1..(L - 1), NEW j \in 1..(L - 1), i + m <= L - 1, j + m <= L - 1,
                 Tail(q)[i].seq = Tail(q)[j].seq
          PROVE  i = j
      <4>1. i + 1 \in 1..L /\ j + 1 \in 1..L /\ (i + 1) + m <= L /\ (j + 1) + m <= L
            /\ i \in Nat /\ j \in Nat
        BY <1>1, <1>4, <3>1
      <4>2. q[i + 1].seq = q[j + 1].seq BY <1>2, <3>1
      <4>3. i + 1 = j + 1 BY <1>3, <4>1, <4>2 DEF Once
      <4> QED BY <4>1, <4>3
    <3>2. u.buf_q = Tail(q) /\ Len(u.buf_q) = L - 1 BY <1>2, <1>6
    <3> QED BY <3>1, <3>2, Zenon DEF Once
  <2>12. /\ \A i \in 1..(L - 1) : i + m <= L - 1 => Tail(q)[i].seq \in Again(u)
         /\ \A y \in Again(u) : \E i \in 1..(L - 1) : i + m <= L - 1 /\ Tail(q)[i].seq = y
    <3>1. /\ \A i \in 1..Len(u.buf_q) : i + m <= Len(u.buf_q) => u.buf_q[i].seq \in Again(u)
          /\ \A y \in Again(u) : \E i \in 1..Len(u.buf_q) : i + m <= Len(u.buf_q) /\ u.buf_q[i].seq = y
      BY <1>7, <2>4, AgainIs
    <3>2. u.buf_q = Tail(q) /\ Len(u.buf_q) = L - 1 BY <1>2, <1>6
    <3> QED BY <3>1, <3>2
  <2>7. Again(u) = Again(r) \ {x}
    <3>1. ASSUME NEW y \in Again(u)
          PROVE  y \in Again(r) /\ y # x
      <4>1. PICK i \in 1..(L - 1) : i + m <= L - 1 /\ Tail(q)[i].seq = y
        BY <2>12, <3>1
      <4>2. i + 1 \in 1..L /\ (i + 1) + m <= L /\ q[i + 1].seq = y /\ i + 1 # 1
        BY <1>1, <1>2, <1>4, <4>1
      <4>3. y \in Again(r) BY <1>12, <4>2
      <4>4. ASSUME y = x
            PROVE  FALSE
        <5>1. q[i + 1].seq = q[1].seq BY <4>2, <4>4
        <5>2. i + 1 = 1 BY <1>2, <1>3, <2>1, <4>2, <5>1 DEF Once
        <5> QED BY <4>2, <5>2
      <4> QED BY <4>3, <4>4
    <3>2. ASSUME NEW y \in Again(r), y # x
          PROVE  y \in Again(u)
      <4>1. PICK i \in 1..L : i + m <= L /\ q[i].seq = y BY <1>12, <3>2
      <4>2. i # 1 BY <3>2, <4>1
      <4> DEFINE j == i - 1
      <4>3. j \in 1..(L - 1) /\ j + m <= L - 1 /\ j + 1 = i
        <5>1. i \in Nat /\ i >= 1 /\ i <= L /\ i # 1 BY <1>1, <4>1, <4>2
        <5> HIDE DEF L
        <5> QED BY <1>1, <1>4, <4>1, <5>1
      <4> HIDE DEF j
      <4>4. Tail(q)[j].seq = y BY <1>2, <4>1, <4>3
      <4> QED BY <2>12, <4>3, <4>4
    <3> QED BY <3>1, <3>2
  <2>8. (X \cup {x}) \cup Again(u) = X \cup Again(r) BY <2>2, <2>7
  <2>9. Holds(u, (X \cup {x}) \cup Again(u)) /\ Again(u) \cap (X \cup {x}) = {}
    BY <1>3, <1>8, <2>3, <2>7, <2>8
  <2>10. x \notin X BY <1>3, <2>2
  <2>11. InWindow(u, X \cup {x}, m) BY <2>4, <2>5, <2>6, <2>9 DEF InWindow
  <2> QED BY <1>4, <1>6, <1>7, <2>10, <2>11 DEF u
<1>11. CASE m = L
  <2>1. 1 + m > L BY <1>1, <1>11
  <2> DEFINE o == BaIndex(r.seq_start, x)
             e == L - 1
  <2>2. f.retries = 0 /\ o = T - L
    <3>1. f.retries = 0 /\ o = (T - L) + (1 - 1) BY <1>2, <1>9, <2>1
    <3> QED BY <1>1, <3>1
  <2>3. Again(r) = {} BY <1>3, <1>11, AgainIs
  <2>4. o < BawSize BY DEF BawWithin
  <2>5. Span(r) <= o BY <1>1, <1>3, <1>11, <2>2 DEF Ahead, T
  <2>6. w = AddToBaw(r, x) /\ x \in SeqNos BY <1>1, <1>2, <2>2 DEF AddStep, w
  <2>7. Holds(r, X) BY <1>3, <2>3
  <2>8. Span(w) = o + 1 /\ Holds(w, X \cup {x})
    BY <1>1, <2>4, <2>5, <2>6, <2>7, AddHolds
  <2>9. Fresh(u, e)
    <3>1. e \in 0..(L - 1) BY <1>1, <1>2
    <3>2. ASSUME NEW i \in 1..(L - 1)
          PROVE  /\ ~(i + e <= L - 1)
                 /\ Tail(q)[i].retries = 0
                 /\ BaIndex(r.seq_start, Tail(q)[i].seq) = (T - (L - 1)) + (i - 1)
      <4>1. Tail(q)[i] = q[i + 1] /\ i + 1 \in 1..L /\ i \in Nat /\ i >= 1
        BY <1>1, <1>2
      <4>2. (i + 1) + m > L
        <5> HIDE DEF L
        <5> QED BY <1>1, <1>11, <4>1
      <4>3. q[i + 1].retries = 0 /\ BaIndex(r.seq_start, q[i + 1].seq) = (T - L) + ((i + 1) - 1)
        BY <1>9, <4>1, <4>2
      <4>4. (T - L) + ((i + 1) - 1) = (T - (L - 1)) + (i - 1) /\ ~(i + e <= L - 1)
        BY <1>1, <4>1
      <4> QED BY <4>1, <4>3, <4>4
    <3> QED BY <1>2, <1>6, <1>8, <3>1, <3>2 DEF Fresh
  <2>10. Ahead(u, e)
    <3> HIDE DEF o
    <3>1. Span(u) = o + 1 /\ Total(u) = T BY <1>8, <2>8
    <3> QED BY <1>1, <2>2, <2>4, <3>1 DEF Ahead
  <2>11. Again(u) = {}
    <3>1. e = Len(u.buf_q) BY <1>2, <1>6
    <3> QED BY <1>7, <2>9, <3>1, AgainIs
  <2>12. Once(u, e)
    <3>1. \A i \in 1..(L - 1) : ~(i + e <= L - 1) BY <1>1
    <3> QED BY <1>2, <1>6, <3>1 DEF Once
  <2>13. Holds(u, (X \cup {x}) \cup Again(u))
    <3>1. (X \cup {x}) \cup Again(u) = X \cup {x} BY <2>11
    <3> QED BY <1>8, <2>8, <3>1
  <2>14. x \notin X
    <3>1. x \in X => o \in Busy(r) BY <2>7 DEF Holds
    <3>2. \A i \in Busy(r) : i < Span(r) /\ i \in Nat BY <1>1, <2>6, HeldPlace
    <3> QED BY <1>1, <2>5, <3>1, <3>2
  <2>15. InWindow(u, X \cup {x}, e)
    BY <2>9, <2>10, <2>11, <2>12, <2>13 DEF InWindow
  <2>16. e \in Nat BY <1>1, <1>2
  <2> HIDE DEF e
  <2> QED BY <1>6, <1>7, <2>14, <2>15, <2>16 DEF u
<1>13. m < L \/ m = L
  <2> HIDE DEF L
  <2> QED BY <1>1, <1>4
<1> QED BY <1>10, <1>11, <1>13

(* Sequences with the same elements are equal. *)
LEMMA SameSeq ==
    ASSUME NEW S, NEW a \in Seq(S), NEW b \in Seq(S), Len(a) = Len(b),
           \A j \in 1..Len(b) : a[j] = b[j]
    PROVE  a = b
OBVIOUS

(* The window does not depend on the queue. *)
LEMMA CutAdd ==
    ASSUME NEW w \in TidStates, NEW Q \in Seq(Frames), NEW f \in Frames
    PROVE  AddStep([w EXCEPT !.buf_q = Q], f) = [AddStep(w, f) EXCEPT !.buf_q = Q]
<1> DEFINE v == [w EXCEPT !.buf_q = Q]
<1>1. v.seq_start = w.seq_start /\ v.baw_head = w.baw_head /\ v.baw_tail = w.baw_tail
      /\ v.bitmap = w.bitmap
  BY DEF TidStates
<1>2. SlotOf(v, f.seq) = SlotOf(w, f.seq) /\ Span(v) = Span(w)
  BY <1>1 DEF SlotOf, Span
<1>3. AddToBaw(v, f.seq) = [AddToBaw(w, f.seq) EXCEPT !.buf_q = Q]
  <2> DEFINE B == w.bitmap \cup {SlotOf(w, f.seq)}
             T == IF BaIndex(w.seq_start, f.seq) >= Span(w) THEN SlotPlus(SlotOf(w, f.seq), 1) ELSE w.baw_tail
  <2>1. AddToBaw(w, f.seq) = [w EXCEPT !.bitmap = B, !.baw_tail = T]
    BY DEF AddToBaw
  <2>2. AddToBaw(v, f.seq) = [v EXCEPT !.bitmap = B, !.baw_tail = T]
    BY <1>1, <1>2 DEF AddToBaw
  <2> HIDE DEF B, T
  <2>3. [v EXCEPT !.bitmap = B, !.baw_tail = T] = [[w EXCEPT !.bitmap = B, !.baw_tail = T] EXCEPT !.buf_q = Q]
    BY DEF TidStates
  <2> QED BY <2>1, <2>2, <2>3
<1> QED BY <1>3 DEF AddStep

(* One more frame is sent. *)
LEMMA SendStep ==
    ASSUME NEW t \in Tids, NEW r, OwnQueue(r, t), NEW X, NEW w \in Windows(r), NEW i \in Nat,
           i + 1 <= Len(r.buf_q), SentWell(t, r, X, w, i), BawWithin(r.seq_start, r.buf_q[i + 1].seq)
    PROVE  SentWell(t, r, X, AddStep(w, r.buf_q[i + 1]), i + 1)
<1> DEFINE q == r.buf_q
           L == Len(q)
           Q == SubSeq(q, i + 1, L)
           P == SubSeq(q, i + 2, L)
           f == q[i + 1]
           z == CutAt(w, q, i)
           y == CutAt(AddStep(w, f), q, i + 1)
           Y == X \cup SentOf(q, i)
<1>1. /\ q \in Seq(OwnFrames(t)) /\ L \in Nat /\ i + 1 \in 1..L /\ i \in 0..L /\ i + 1 \in 0..L
      /\ OwnFrames(t) \subseteq Frames
  BY OwnFramesType DEF OwnQueue
<1>2. /\ Q \in Seq(OwnFrames(t)) /\ Len(Q) = L - i /\ \A j \in 1..(L - i) : Q[j] = q[i + j]
  BY <1>1, Part
<1>3. /\ P \in Seq(OwnFrames(t)) /\ Len(P) = L - (i + 1)
      /\ \A j \in 1..(L - (i + 1)) : P[j] = q[(i + 1) + j]
  <2>1. i + 2 = (i + 1) + 1 OBVIOUS
  <2>2. /\ SubSeq(q, (i + 1) + 1, L) \in Seq(OwnFrames(t))
        /\ Len(SubSeq(q, (i + 1) + 1, L)) = L - (i + 1)
        /\ \A j \in 1..(L - (i + 1)) : SubSeq(q, (i + 1) + 1, L)[j] = q[(i + 1) + j]
    BY <1>1, Part
  <2> QED BY <2>1, <2>2
<1>4. f \in Frames /\ w \in TidStates /\ w.buf_q = q /\ AddStep(w, f) \in TidStates
  <2>1. f \in Frames /\ f.seq \in SeqNos /\ w \in TidStates /\ w.buf_q = q
    BY <1>1 DEF Windows, SameQueue, Frames
  <2>2. AddToBaw(w, f.seq) \in TidStates BY <2>1, BawTypes DEF Windows
  <2> QED BY <2>1, <2>2 DEF AddStep
<1>5. L - i >= 1 /\ Q # << >> /\ Q[1] = f
  <2>1. L - i >= 1 /\ 1 \in 1..(L - i) BY <1>1
  <2>2. Q # << >>
    <3>1. Len(Q) >= 1 BY <1>2, <2>1
    <3> HIDE DEF Q
    <3>2. Q = << >> => Len(Q) = 0 OBVIOUS
    <3> QED BY <3>1, <3>2
  <2> QED BY <1>2, <2>1, <2>2
<1>6. Tail(Q) = P
  <2>1. Tail(Q) \in Seq(OwnFrames(t)) /\ Len(Tail(Q)) = (L - i) - 1
        /\ \A j \in 1..((L - i) - 1) : Tail(Q)[j] = Q[j + 1]
    BY <1>2, <1>5
  <2>2. Len(Tail(Q)) = Len(P)
    <3>1. (L - i) - 1 = L - (i + 1)
      <4>1. L \in Nat BY <1>1
      <4> HIDE DEF L
      <4> QED BY <4>1
    <3> QED BY <1>3, <2>1, <3>1
  <2>3. ASSUME NEW j \in 1..(L - (i + 1))
        PROVE  Tail(Q)[j] = P[j]
    <3>1. j \in 1..((L - i) - 1) /\ j + 1 \in 1..(L - i) /\ i + (j + 1) = (i + 1) + j
      <4>1. L \in Nat /\ i \in Nat BY <1>1
      <4> HIDE DEF L
      <4> QED BY <4>1
    <3> QED BY <1>2, <1>3, <2>1, <3>1
  <2>4. \A j \in 1..Len(P) : Tail(Q)[j] = P[j] BY <1>3, <2>3
  <2> HIDE DEF Q, P, L
  <2> QED BY <1>3, <2>1, <2>2, <2>4, SameSeq
<1>7. z = [w EXCEPT !.buf_q = Q] /\ z.buf_q = Q /\ z.seq_start = r.seq_start
  <2>1. z = [w EXCEPT !.buf_q = Q] BY DEF CutAt
  <2> QED BY <1>4, <2>1 DEF TidStates, SentWell
<1>8. OwnQueue(z, t) BY DEF SentWell
<1>9. Popped(z) = y
  <2>1. Q \in Seq(Frames) BY <1>1, <1>2
  <2>2. AddStep(z, f) = [AddStep(w, f) EXCEPT !.buf_q = Q]
    <3> HIDE DEF Q, f, z
    <3>1. AddStep([w EXCEPT !.buf_q = Q], f) = [AddStep(w, f) EXCEPT !.buf_q = Q]
      BY <1>4, <2>1, CutAdd
    <3> QED BY <1>7, <3>1
  <2>3. i + 2 = (i + 1) + 1 OBVIOUS
  <2>4. y = [AddStep(w, f) EXCEPT !.buf_q = P] BY <2>3 DEF CutAt
  <2>5. Popped(z) = [AddStep(z, f) EXCEPT !.buf_q = Tail(@)]
    BY <1>5, <1>7 DEF Popped
  <2> HIDE DEF Q, P, f, z, y
  <2>6. [[AddStep(w, f) EXCEPT !.buf_q = Q] EXCEPT !.buf_q = Tail(@)] = [AddStep(w, f) EXCEPT !.buf_q = P]
    BY <1>4, <1>6 DEF TidStates
  <2> QED BY <2>2, <2>4, <2>5, <2>6
<1>10. PICK e \in Nat : InWindow(z, Y, e) BY DEF SentWell
<1> HIDE DEF z, Q, P, f, y, Y
<1>11. BawWithin(z.seq_start, z.buf_q[1].seq) BY <1>5, <1>7 DEF f
<1>12. /\ f.seq \notin Y
       /\ \E d \in Nat : InWindow(Popped(z), Y \cup {f.seq}, d)
       /\ OwnQueue(Popped(z), t) /\ Popped(z).seq_start = z.seq_start
  <2>1. z.buf_q[1] = f /\ z.buf_q # << >> BY <1>5, <1>7
  <2>2. /\ z.buf_q[1].seq \notin Y
        /\ \E d \in Nat : InWindow(Popped(z), Y \cup {z.buf_q[1].seq}, d)
        /\ OwnQueue(Popped(z), t) /\ Popped(z).seq_start = z.seq_start
    BY <1>8, <1>10, <1>11, <2>1, PopWindow
  <2> QED BY <2>1, <2>2
<1>13. Y \cup {f.seq} = X \cup SentOf(q, i + 1)
  <2>1. 1..(i + 1) = (1..i) \cup {i + 1} OBVIOUS
  <2> QED BY <2>1 DEF Y, SentOf, f
<1>14. ASSUME NEW j \in 1..(i + 1)
       PROVE  /\ q[j].seq \notin X
              /\ \A k \in 1..(i + 1) : q[j].seq = q[k].seq => j = k
  <2>1. \A k \in 1..i : q[k].seq \notin X /\ q[k].seq # f.seq
    BY <1>12 DEF SentWell, Y, SentOf
  <2>2. \A k \in 1..(i + 1) : k \in 1..i \/ k = i + 1 OBVIOUS
  <2>3. f.seq \notin X BY <1>12 DEF Y
  <2>4. \A k, l \in 1..i : q[k].seq = q[l].seq => k = l BY DEF SentWell
  <2> QED BY <2>1, <2>2, <2>3, <2>4 DEF f
<1>15. OwnQueue(y, t) /\ y.seq_start = r.seq_start /\ \E d \in Nat : InWindow(y, X \cup SentOf(q, i + 1), d)
  BY <1>7, <1>9, <1>12, <1>13
<1> QED BY <1>14, <1>15 DEF SentWell, y, f

(* An aggregate is formed: its frames are distinct, none of them was in
   flight, and the window holds them (ath_tgt_tx_form_aggr). *)
LEMMA SendWindow ==
    ASSUME NEW t \in Tids, NEW r, OwnQueue(r, t), NEW X, NEW m, InWindow(r, X, m),
           NEW n \in 0..Len(r.buf_q), \A i \in 1..n : BawWithin(r.seq_start, r.buf_q[i].seq)
    PROVE  LET c == SubSeq(r.buf_q, 1, n)
           IN  /\ Distinct(c) /\ SeqsOf(c) \cap X = {}
               /\ \E e \in Nat : InWindow(SendFrom(r, n), X \cup SeqsOf(c), e)
               /\ OwnQueue(SendFrom(r, n), t)
<1> DEFINE q == r.buf_q
           L == Len(q)
           c == SubSeq(q, 1, n)
           D == Windows(r)
<1>1. /\ r \in TidStates /\ q \in Seq(OwnFrames(t)) /\ L \in Nat /\ n \in Nat /\ n <= L
      /\ OwnFrames(t) \subseteq Frames
  BY OwnFramesType DEF OwnQueue
<1>2. /\ c \in Seq(OwnFrames(t)) /\ Len(c) = n /\ \A i \in 1..n : c[i] = q[i]
  BY <1>1, Part
<1>3. c \in Seq(Frames) /\ r \in D BY <1>1, <1>2 DEF Windows, SameQueue
<1>4. ASSUME NEW i \in 1..Len(c), NEW w \in D
      PROVE  AddStep(w, c[i]) \in D
  <2>1. c[i] \in Frames /\ w \in TidStates BY <1>3 DEF Windows
  <2>2. AddToBaw(w, c[i].seq) \in Windows(w) BY <2>1, BawTypes DEF Frames
  <2>3. AddToBaw(w, c[i].seq) \in D BY <2>2 DEF Windows, SameQueue
  <2> QED BY <2>3 DEF AddStep
<1> HIDE DEF c, D
<1>5. PICK p \in [0..Len(c) -> D] :
         /\ p[0] = r /\ p[Len(c)] = AddAllToBaw(r, c)
         /\ \A i \in 1..Len(c) : p[i] = AddStep(p[i - 1], c[i])
  BY <1>3, <1>4, AddAllRun DEF AddAllRuns
<1> DEFINE M == {i \in Nat : i <= n => SentWell(t, r, X, p[i], i)}
<1>6. 0 \in M
  <2>1. CutAt(r, q, 0) = r
    <3>1. SubSeq(q, 1, L) = q BY <1>1
    <3>2. CutAt(r, q, 0) = [r EXCEPT !.buf_q = q] BY <3>1 DEF CutAt
    <3> QED BY <1>1, <3>2 DEF TidStates
  <2>2. X \cup SentOf(q, 0) = X BY DEF SentOf
  <2>3. m \in Nat BY <1>1 DEF InWindow, Fresh
  <2>4. \E e \in Nat : InWindow(CutAt(r, q, 0), X \cup SentOf(q, 0), e)
    BY <2>1, <2>2, <2>3
  <2>5. SentWell(t, r, X, r, 0) BY <2>1, <2>4 DEF SentWell
  <2> QED BY <1>5, <2>5
<1>7. ASSUME NEW i \in Nat, i \in M
      PROVE  i + 1 \in M
  <2>1. SUFFICES ASSUME i + 1 <= n
                 PROVE  SentWell(t, r, X, p[i + 1], i + 1)
    OBVIOUS
  <2>2. i + 1 \in 1..n /\ i \in 0..n /\ (i + 1) - 1 = i /\ i + 1 <= L /\ i <= n
    BY <1>1, <2>1
  <2>3. p[i + 1] = AddStep(p[i], q[i + 1]) /\ p[i] \in Windows(r)
    BY <1>2, <1>5, <2>2 DEF D
  <2>4. SentWell(t, r, X, p[i], i) BY <1>7, <2>2
  <2>5. BawWithin(r.seq_start, q[i + 1].seq) BY <2>2
  <2>6. SentWell(t, r, X, AddStep(p[i], q[i + 1]), i + 1)
    BY <2>2, <2>3, <2>4, <2>5, SendStep
  <2> QED BY <2>3, <2>6
<1>8. SentWell(t, r, X, p[n], n)
  <2> HIDE DEF M
  <2>1. n \in M BY <1>1, <1>6, <1>7, SetInduction
  <2> QED BY <2>1 DEF M
<1>9. SendFrom(r, n) = CutAt(p[n], q, n)
  <2>1. p[n] = AddAllToBaw(r, c) /\ p[n] \in D BY <1>2, <1>5
  <2>2. p[n] \in TidStates /\ p[n].buf_q = q BY <2>1 DEF D, Windows, SameQueue
  <2> QED BY <2>1, <2>2 DEF SendFrom, CutAt, c, TidStates
<1>10. SeqsOf(c) = SentOf(q, n) BY <1>2 DEF SeqsOf, SentOf
<1>11. Distinct(c) BY <1>2, <1>8 DEF Distinct, SentWell
<1>12. SeqsOf(c) \cap X = {} BY <1>8, <1>10 DEF SentOf, SentWell
<1> QED BY <1>8, <1>9, <1>10, <1>11, <1>12 DEF SentWell, c

(* A new frame goes behind the others (ath_tgt_handle_aggr). *)
LEMMA PushWindow ==
    ASSUME NEW t \in Tids, NEW r, OwnQueue(r, t), NEW X, NEW m, InWindow(r, X, m),
           Total(r) + 1 < SeqMax, NEW f \in OwnFrames(t), f.seq = r.seq_next, f.retries = 0
    PROVE  InWindow(Pushed(r, f), X, m + 1) /\ OwnQueue(Pushed(r, f), t)
<1> DEFINE q == r.buf_q
           L == Len(q)
           T == Total(r)
           u == Pushed(r, f)
           Q == Append(q, f)
<1>1. /\ r \in TidStates /\ q \in Seq(OwnFrames(t)) /\ L \in Nat /\ T \in Nat
      /\ Span(r) \in Nat /\ r.seq_start \in SeqNos /\ r.seq_next \in SeqNos /\ BawSize \in Nat
      /\ SeqMax \in Nat /\ \A i \in 1..L : q[i].retries \in Nat
  BY SessionNums
<1>2. /\ Q \in Seq(OwnFrames(t)) /\ Len(Q) = L + 1 /\ Q[L + 1] = f /\ \A i \in 1..L : Q[i] = q[i]
  BY <1>1
<1>3. T + 1 \in 0..(SeqMax - 1) /\ T \in 0..(SeqMax - 1) /\ T + 1 < SeqMax /\ 1 \in Nat
  BY <1>1
<1>4. SeqPlus(r.seq_next, 1) = SeqPlus(r.seq_start, T + 1)
  <2>1. SeqPlus(r.seq_start, T) = r.seq_next BY <1>1, Places DEF Total
  <2>2. r.seq_start \in 0..(SeqMax - 1) /\ r.seq_start \in Int /\ r.seq_next \in Int
    BY <1>1, Rings
  <2> HIDE DEF T
  <2>3. RingPlus(SeqMax, RingPlus(SeqMax, r.seq_start, T), 1) = RingPlus(SeqMax, r.seq_start, T + 1)
    BY <1>1, <1>3, <2>2, Rings, RingSum
  <2>4. /\ SeqPlus(r.seq_start, T) = RingPlus(SeqMax, r.seq_start, T)
        /\ SeqPlus(r.seq_start, T + 1) = RingPlus(SeqMax, r.seq_start, T + 1)
        /\ SeqPlus(r.seq_next, 1) = RingPlus(SeqMax, r.seq_next, 1)
    <3>1. T \in Int /\ T + 1 \in Int /\ 1 \in Int BY <1>1
    <3> QED BY <2>2, <3>1, Rings
  <2> QED BY <2>1, <2>3, <2>4
<1>5. SeqPlus(r.seq_next, 1) \in SeqNos BY <1>1, <1>3, <1>4, Places
<1>6. /\ u \in TidStates /\ u.buf_q = Q /\ u.seq_next = SeqPlus(r.seq_next, 1)
      /\ u.seq_start = r.seq_start /\ u.baw_head = r.baw_head /\ u.baw_tail = r.baw_tail
      /\ u.bitmap = r.bitmap
  <2>1. Q \in Seq(Frames) BY <1>2, OwnFramesType
  <2> HIDE DEF Q
  <2>2. u = [r EXCEPT !.seq_next = SeqPlus(r.seq_next, 1), !.buf_q = Q]
    BY DEF Pushed, Q
  <2> QED BY <1>1, <1>5, <2>1, <2>2 DEF TidStates
<1>7. OwnQueue(u, t) BY <1>2, <1>6 DEF OwnQueue
<1>8. Total(u) = T + 1
  <2>1. BaIndex(r.seq_start, SeqPlus(r.seq_start, T + 1)) = T + 1
    <3> HIDE DEF T
    <3> QED BY <1>1, <1>3, Places
  <2>2. Total(u) = BaIndex(r.seq_start, SeqPlus(r.seq_next, 1))
    BY <1>6 DEF Total
  <2> QED BY <1>4, <2>1, <2>2
<1>9. Span(u) = Span(r) /\ \A U : Holds(r, U) => Holds(u, U)
  <2>1. Busy(u) = Busy(r) /\ Span(u) = Span(r) /\ \A y : SlotOf(u, y) = SlotOf(r, y)
    BY <1>6 DEF Busy, Span, SlotOf
  <2> QED BY <1>6, <2>1 DEF Holds
<1>10. Fresh(r, m) /\ Ahead(r, m) /\ Once(r, m) /\ Holds(r, X \cup Again(r)) /\ Again(r) \cap X = {}
  BY DEF InWindow
<1>11. m \in Nat /\ m <= L BY <1>1, <1>10, AgainIs DEF Fresh
<1>12. \A i \in 1..L : /\ i + m <= L => q[i].retries > 0
                       /\ i + m > L => /\ q[i].retries = 0
                                       /\ BaIndex(r.seq_start, q[i].seq) = (T - L) + (i - 1)
  BY <1>10 DEF Fresh, T
<1>13. BaIndex(r.seq_start, f.seq) = T BY DEF Total, T
<1>17. \A i \in 1..L : q[i].retries \in Nat BY <1>1
<1> HIDE DEF u, q, L, T, Q
<1>14. ASSUME NEW i \in 1..(L + 1)
       PROVE  /\ i + (m + 1) <= L + 1 => Q[i].retries > 0
              /\ i + (m + 1) > L + 1 => /\ Q[i].retries = 0
                                        /\ BaIndex(r.seq_start, Q[i].seq) = ((T + 1) - (L + 1)) + (i - 1)
              /\ i + (m + 1) <= L + 1 => i \in 1..L /\ i + m <= L
  <2>1. CASE i = L + 1
    <3>1. ~(i + (m + 1) <= L + 1) /\ ((T + 1) - (L + 1)) + (i - 1) = T
      BY <1>1, <1>11, <2>1
    <3> QED BY <1>2, <1>13, <2>1, <3>1
  <2>2. CASE i # L + 1
    <3>1. i \in 1..L /\ (T - L) + (i - 1) = ((T + 1) - (L + 1)) + (i - 1)
          /\ (i + (m + 1) <= L + 1 => i + m <= L) /\ (i + (m + 1) > L + 1 => i + m > L)
      <4>1. i \in Int /\ L \in Int /\ T \in Int /\ m \in Int /\ 1 <= i /\ i <= L + 1
        BY <1>1, <1>11
      <4>2. i \in 1..L BY <2>2, <4>1
      <4>3. (T - L) + (i - 1) = ((T + 1) - (L + 1)) + (i - 1) BY <4>1
      <4>4. (i + (m + 1) <= L + 1 => i + m <= L) /\ (i + (m + 1) > L + 1 => i + m > L)
        BY <4>1
      <4> QED BY <4>2, <4>3, <4>4
    <3>2. Q[i] = q[i] BY <1>2, <3>1
    <3> QED BY <1>12, <3>1, <3>2
  <2> QED BY <2>1, <2>2
<1>15. Fresh(u, m + 1)
  <2>1. m + 1 \in 0..(L + 1) BY <1>1, <1>11
  <2> QED BY <1>2, <1>6, <1>8, <1>14, <2>1 DEF Fresh
<1>16. Ahead(u, m + 1)
  <2>1. Span(r) + m <= T /\ T <= BawSize + m BY <1>10 DEF Ahead, T
  <2> QED BY <1>1, <1>8, <1>9, <1>11, <2>1 DEF Ahead
<1>18. Once(u, m + 1)
  <2>1. \A i, j \in 1..L : i + m <= L /\ j + m <= L /\ q[i].seq = q[j].seq => i = j
    BY <1>10 DEF Once, q, L
  <2>2. \A i \in 1..L : Q[i] = q[i] BY <1>2
  <2>3. u.buf_q = Q /\ Len(u.buf_q) = L + 1 BY <1>2, <1>6
  <2>4. \A i \in 1..(L + 1) : i + (m + 1) <= L + 1 => i \in 1..L /\ i + m <= L
    BY <1>14
  <2>5. \A i, j \in 1..(L + 1) :
           i + (m + 1) <= L + 1 /\ j + (m + 1) <= L + 1 /\ Q[i].seq = Q[j].seq => i = j
    <3>1. TAKE i, j \in 1..(L + 1)
    <3>2. HAVE i + (m + 1) <= L + 1 /\ j + (m + 1) <= L + 1 /\ Q[i].seq = Q[j].seq
    <3>3. i \in 1..L /\ i + m <= L /\ j \in 1..L /\ j + m <= L BY <2>4, <3>2
    <3> QED BY <2>1, <2>2, <3>2, <3>3
  <2> QED BY <2>3, <2>5 DEF Once
<1>19. Again(u) = Again(r)
  <2>1. ToSet(Q) = ToSet(q) \cup {f}
    <3>1. ToSet(Q) = {Q[i] : i \in 1..(L + 1)} /\ ToSet(q) = {q[i] : i \in 1..L}
      BY <1>1, <1>2 DEF ToSet, L, q
    <3>2. 1..(L + 1) = (1..L) \cup {L + 1} BY <1>1
    <3> QED BY <1>2, <3>1, <3>2
  <2>2. ~(f.retries > 0) OBVIOUS
  <2>3. Waiting(u) = Waiting(r)
    <3>1. Waiting(u) = {g \in ToSet(Q) : g.retries > 0} /\ Waiting(r) = {g \in ToSet(q) : g.retries > 0}
      BY <1>6 DEF Waiting, q
    <3> QED BY <2>1, <2>2, <3>1
  <2> QED BY <2>3 DEF Again
<1>20. InWindow(u, X, m + 1)
  BY <1>9, <1>10, <1>15, <1>16, <1>18, <1>19 DEF InWindow
<1> QED BY <1>7, <1>20 DEF u

(* A new frame is sent at once (ath_tgt_handle_aggr). *)
LEMMA DirectWindow ==
    ASSUME NEW t \in Tids, NEW r, OwnQueue(r, t), NEW X, NEW m, InWindow(r, X, m),
           Total(r) + 1 < SeqMax, NEW f \in OwnFrames(t), f.seq = r.seq_next, f.retries = 0,
           r.buf_q = << >>, BawWithin(r.seq_start, f.seq)
    PROVE  /\ f.seq \notin X
           /\ \E e \in Nat : InWindow(AddToBaw(Numbered(r), f.seq), X \cup {f.seq}, e)
           /\ OwnQueue(AddToBaw(Numbered(r), f.seq), t)
<1> DEFINE z == Pushed(r, f)
           v == Numbered(r)
           u == AddToBaw(v, f.seq)
<1>1. InWindow(z, X, m + 1) /\ OwnQueue(z, t) BY PushWindow
<1>2. r \in TidStates /\ r.buf_q = << >> /\ r.seq_next \in SeqNos BY SessionNums
<1>3. SeqPlus(r.seq_next, 1) \in SeqNos
  <2>1. r.seq_next \in Int /\ r.seq_next + 1 \in Int BY <1>2, RingTypes
  <2> QED BY <2>1, RingTypes DEF SeqPlus
<1>4. v \in TidStates /\ v.buf_q = << >> /\ v.seq_start = r.seq_start
  BY <1>2, <1>3 DEF Numbered, TidStates
<1>5. z = [v EXCEPT !.buf_q = <<f>>] /\ z.buf_q = <<f>> /\ z.seq_start = r.seq_start
  <2>1. Append(<< >>, f) = <<f>> OBVIOUS
  <2>2. z = [r EXCEPT !.seq_next = SeqPlus(@, 1), !.buf_q = <<f>>]
    BY <1>2, <2>1 DEF Pushed
  <2> QED BY <1>2, <2>2 DEF Numbered, TidStates
<1>6. u \in TidStates /\ u.buf_q = << >>
  <2>1. f.seq \in SeqNos BY DEF OwnFrames
  <2>2. u \in Windows(v) BY <1>4, <2>1, BawTypes
  <2> QED BY <1>4, <2>2 DEF Windows, SameQueue
<1>7. f \in Frames /\ <<f>> \in Seq(Frames) BY OwnFramesType
<1>8. Popped(z) = u
  <2> HIDE DEF z, v
  <2>1. AddStep([v EXCEPT !.buf_q = <<f>>], f) = [AddStep(v, f) EXCEPT !.buf_q = <<f>>]
    BY <1>4, <1>7, CutAdd
  <2>2. AddStep(v, f) = u BY DEF AddStep
  <2>3. z.buf_q[1] = f BY <1>5
  <2>4. AddStep(z, f) = [u EXCEPT !.buf_q = <<f>>] BY <1>5, <2>1, <2>2
  <2>5. Tail(<<f>>) = << >> OBVIOUS
  <2> HIDE DEF u
  <2>6. [[u EXCEPT !.buf_q = <<f>>] EXCEPT !.buf_q = Tail(@)] = u
    BY <1>6, <2>5 DEF TidStates
  <2> QED BY <2>3, <2>4, <2>6 DEF Popped
<1> HIDE DEF z, u, v
<1>9. z.buf_q[1].seq = f.seq /\ z.buf_q # << >> /\ BawWithin(z.seq_start, z.buf_q[1].seq)
  BY <1>5
<1>10. /\ z.buf_q[1].seq \notin X
       /\ \E e \in Nat : InWindow(Popped(z), X \cup {z.buf_q[1].seq}, e)
       /\ OwnQueue(Popped(z), t)
  BY <1>1, <1>9, PopWindow
<1> QED BY <1>8, <1>9, <1>10 DEF u, v

(* Tracking composes. *)
LEMMA TracksTrans ==
    ASSUME NEW r \in TidStates, NEW w, NEW u, Tracks(r, w), Tracks(w, u)
    PROVE  Tracks(r, r) /\ Tracks(r, u)
<1>1. r \in Windows(r) /\ u \in Windows(r) BY DEF Tracks, Windows, SameQueue
<1> QED BY <1>1 DEF Tracks

(* ath_tx_update_baw moves the window on to the next frame, or to its end. *)
LEMMA UpdateLead ==
    ASSUME NEW t \in Tids, NEW r, OwnQueue(r, t), NEW U, Holds(r, U), NEW x \in U,
           NEW m \in Nat, m <= Len(r.buf_q), Ahead(r, m)
    PROVE  Lead(UpdateBaw(r, x))
<1> DEFINE c == [r EXCEPT !.bitmap = @ \ {SlotOf(r, x)}]
           k == Clear(c)
           u == Advance(c, k)
           L == Len(r.buf_q)
           T == Total(r)
           N == Span(r)
<1>1. UpdateBaw(r, x) = u BY DEF UpdateBaw
<1>2. /\ r \in TidStates /\ L \in Nat /\ T \in Nat /\ N \in Nat /\ N < TidMaxBufs
      /\ BawSize \in Nat /\ r.seq_next \in SeqNos /\ TidMaxBufs \in Nat
  BY SessionNums
<1>3. /\ c \in TidStates /\ c.seq_start = r.seq_start /\ c.seq_next = r.seq_next
      /\ c.buf_q = r.buf_q /\ c.baw_head = r.baw_head /\ c.baw_tail = r.baw_tail
  BY <1>2 DEF TidStates
<1> HIDE DEF c
<1>4. Span(c) = N BY <1>3 DEF Span
<1>5. k \in Nat /\ k <= N /\ k \in Busy(c) \cup {N} BY <1>3, <1>4, ClearType
<1>6. k \in 0..Span(c) BY <1>2, <1>4, <1>5
<1> HIDE DEF k
<1>7. u \in TidStates /\ Moves(c, u, k) /\ u.bitmap = c.bitmap /\ SameQueue(u, c)
  BY <1>3, <1>6, AdvanceMoves
<1> HIDE DEF u
<1>8. Span(u) = N - k /\ u.seq_next = r.seq_next /\ u.buf_q = r.buf_q
  BY <1>3, <1>4, <1>7 DEF Moves, SameQueue
<1>9. N >= 1
  <2> DEFINE i == BaIndex(r.seq_start, x)
  <2>1. i \in Busy(r) /\ x \in SeqNos BY DEF Holds
  <2>2. i \in Nat /\ i < N BY <1>2, <2>1, HeldPlace
  <2> HIDE DEF i, N
  <2> QED BY <1>2, <2>2
<1>10. N + m <= T /\ T <= BawSize + m BY DEF Ahead
<1>11. k \in Busy(c) => 0 \in Busy(u)
  <2> SUFFICES ASSUME k \in Busy(c) PROVE 0 \in Busy(u) OBVIOUS
  <2>1. k \in 0..(Span(c) - 1) /\ SlotPlus(c.baw_head, k) \in c.bitmap
    BY DEF Busy
  <2> HIDE DEF N
  <2>2. 0 \in Nat /\ k + 0 < TidMaxBufs /\ k + 0 = k /\ 0 \in 0..((N - k) - 1)
    BY <1>2, <1>4, <2>1
  <2>3. SlotPlus(u.baw_head, 0) = SlotPlus(c.baw_head, k + 0)
    BY <1>7, <2>2 DEF Moves
  <2> QED BY <1>7, <1>8, <2>1, <2>2, <2>3 DEF Busy
<1>12. CASE k \in Busy(c) BY <1>1, <1>11, <1>12 DEF Lead
<1>13. CASE k = N
  <2>1. BaIndex(c.seq_start, c.seq_next) = T /\ c.seq_next \in SeqNos
    BY <1>2, <1>3 DEF Total
  <2> HIDE DEF T, N, L
  <2>2. k <= T BY <1>2, <1>10, <1>13
  <2>3. BaIndex(u.seq_start, c.seq_next) = T - k BY <1>7, <2>1, <2>2 DEF Moves
  <2>4. Total(u) = T - k BY <1>3, <1>8, <2>3 DEF Total
  <2>5. T - k < BawSize + L /\ N - k = 0
    <3>1. m <= L BY DEF L
    <3> QED BY <1>2, <1>9, <1>10, <1>13, <3>1
  <2> QED BY <1>1, <1>8, <2>4, <2>5 DEF Lead, L
<1> QED BY <1>5, <1>12, <1>13

(* ath_tx_update_baw forgets one frame of the window and keeps the rest. *)
LEMMA UpdateTracks ==
    ASSUME NEW r \in TidStates, NEW U, Holds(r, U), NEW x \in U
    PROVE  /\ Tracks(r, UpdateBaw(r, x)) /\ Holds(UpdateBaw(r, x), U \ {x})
           /\ UpdateBaw(r, x) \in TidStates /\ Leads(r, UpdateBaw(r, x))
<1> DEFINE u == UpdateBaw(r, x)
<1>1. u \in Windows(r) /\ Holds(u, U \ {x}) /\ \E k \in Nat : Moves(r, u, k)
  BY UpdateHolds
<1> HIDE DEF u
<1>2. PICK k \in Nat : Moves(r, u, k) BY <1>1
<1>3. u \in TidStates /\ u.buf_q = r.buf_q BY <1>1 DEF Windows, SameQueue
<1>4. Again(u) = Again(r) BY <1>3 DEF Again, Waiting
<1>5. ASSUME NEW t \in Tids, NEW m \in Nat,
             OwnQueue(r, t), Fresh(r, m), Ahead(r, m), Once(r, m)
      PROVE  OwnQueue(u, t) /\ Fresh(u, m) /\ Ahead(u, m) /\ Once(u, m)
  BY <1>1, <1>2, <1>5, MovesFresh
<1>6. ASSUME NEW t \in Tids, NEW m \in Nat, OwnQueue(r, t), Fresh(r, m), Ahead(r, m)
      PROVE  Lead(u)
  <2>1. m \in 0..Len(r.buf_q) /\ Len(r.buf_q) \in Nat BY <1>6, SessionNums DEF Fresh
  <2>2. m <= Len(r.buf_q) BY <2>1
  <2> QED BY <1>6, <2>2, UpdateLead DEF u
<1>7. Leads(r, u) BY <1>6 DEF Leads
<1> QED BY <1>1, <1>3, <1>4, <1>5, <1>7 DEF Tracks, u

(* ath_tx_update_baw on the frames of a chain that are in K *)
LEMMA UpdateAllHolds ==
    ASSUME NEW r \in TidStates, NEW U, Holds(r, U), NEW c \in Seq(Frames), NEW K,
           DoneOf(c, K, Len(c)) \subseteq U,
           \A i, j \in 1..Len(c) : c[i] \in K /\ c[j] \in K /\ c[i].seq = c[j].seq => i = j
    PROVE  /\ Tracks(r, UpdateBawFor(r, c, K)) /\ UpdateBawFor(r, c, K) \in TidStates
           /\ Holds(UpdateBawFor(r, c, K), U \ DoneOf(c, K, Len(c)))
           /\ DoneOf(c, K, Len(c)) # {} => Leads(r, UpdateBawFor(r, c, K))
<1> DEFINE L == Len(c)
           D == Windows(r)
           Ok(w, i) == Tracks(r, w) /\ w \in TidStates /\ Holds(w, U \ DoneOf(c, K, i))
                       /\ (DoneOf(c, K, i) # {} => Leads(r, w))
<1>1. L \in Nat /\ r \in D BY DEF Windows, SameQueue
<1>2. ASSUME NEW i \in 1..L, NEW w \in D
      PROVE  UpdStep(w, c[i], K) \in D
  <2>1. c[i].seq \in SeqNos /\ w \in TidStates
    <3>1. c[i] \in Frames OBVIOUS
    <3> QED BY <3>1 DEF Windows, Frames
  <2>2. UpdateBaw(w, c[i].seq) \in Windows(w) BY <2>1, BawTypes
  <2>3. UpdateBaw(w, c[i].seq) \in D BY <2>2 DEF Windows, SameQueue
  <2> QED BY <2>3 DEF UpdStep
<1> HIDE DEF D
<1>3. PICK p \in [0..L -> D] :
         /\ p[0] = r /\ p[L] = UpdateBawFor(r, c, K)
         /\ \A i \in 1..L : p[i] = UpdStep(p[i - 1], c[i], K)
  <2>1. UpdateRuns(c, D, r, K) BY <1>1, <1>2, UpdateRun
  <2> QED BY <2>1 DEF UpdateRuns
<1> DEFINE M == {i \in Nat : i <= L => Ok(p[i], i)}
<1>4. 0 \in M
  <2>1. U \ DoneOf(c, K, 0) = U /\ DoneOf(c, K, 0) = {} BY DEF DoneOf
  <2>2. Tracks(r, r)
    <3>1. r \in Windows(r) BY DEF Windows, SameQueue
    <3> QED BY <3>1 DEF Tracks
  <2> QED BY <1>3, <2>1, <2>2
<1>5. ASSUME NEW i \in Nat, i \in M
      PROVE  i + 1 \in M
  <2>1. SUFFICES ASSUME i + 1 <= L
                 PROVE  Ok(p[i + 1], i + 1)
    OBVIOUS
  <2> DEFINE w == p[i]
             x == c[i + 1].seq
             V == U \ DoneOf(c, K, i)
  <2>2. i + 1 \in 1..L /\ (i + 1) - 1 = i /\ i <= L BY <1>1, <2>1
  <2>3. p[i + 1] = UpdStep(w, c[i + 1], K) /\ Ok(w, i) BY <1>3, <1>5, <2>2
  <2>4. \A k \in 1..(i + 1) : k \in 1..i \/ k = i + 1 OBVIOUS
  <2>5. \A k \in 1..i : k \in 1..(i + 1) /\ k \in 1..L /\ k # i + 1
    BY <1>1, <2>2
  <2>6. CASE c[i + 1] \in K
    <3>1. x \in U BY <2>2, <2>6 DEF DoneOf
    <3>2. x \notin DoneOf(c, K, i)
      <4>1. \A k \in 1..i : c[k] \in K => c[k].seq # x BY <2>2, <2>5, <2>6
      <4> QED BY <4>1 DEF DoneOf
    <3>3. x \in V BY <3>1, <3>2
    <3>4. V \ {x} = U \ DoneOf(c, K, i + 1)
      <4>1. DoneOf(c, K, i + 1) = DoneOf(c, K, i) \cup {x}
        BY <2>2, <2>4, <2>5, <2>6 DEF DoneOf
      <4> QED BY <4>1
    <3>5. p[i + 1] = UpdateBaw(w, x) BY <2>3, <2>6 DEF UpdStep
    <3> HIDE DEF V, x, w
    <3>6. w \in TidStates /\ Holds(w, V) /\ Tracks(r, w) BY <2>3 DEF V
    <3>7. Tracks(w, UpdateBaw(w, x)) /\ Holds(UpdateBaw(w, x), V \ {x})
          /\ UpdateBaw(w, x) \in TidStates /\ Leads(w, UpdateBaw(w, x))
      BY <3>3, <3>6, UpdateTracks
    <3>8. Tracks(r, UpdateBaw(w, x)) BY <3>6, <3>7, TracksTrans
    <3>9. Leads(r, UpdateBaw(w, x)) BY <3>6, <3>7 DEF Tracks, Leads
    <3> QED BY <3>4, <3>5, <3>7, <3>8, <3>9
  <2>7. CASE c[i + 1] \notin K
    <3>1. DoneOf(c, K, i + 1) = DoneOf(c, K, i) BY <2>4, <2>5, <2>7 DEF DoneOf
    <3>2. p[i + 1] = w BY <2>3, <2>7 DEF UpdStep
    <3> QED BY <2>3, <3>1, <3>2
  <2> QED BY <2>6, <2>7
<1>6. Ok(p[L], L)
  <2> HIDE DEF M, Ok
  <2>1. L \in M BY <1>1, <1>4, <1>5, SetInduction
  <2>2. L <= L BY <1>1
  <2> QED BY <1>1, <2>1, <2>2 DEF M
<1> QED BY <1>3, <1>6

(* One more frame of the chain is put on the list, or is done. *)
LEMMA AgainOne ==
    ASSUME NEW t \in Tids, NEW c \in Seq(OwnFrames(t)), NEW K, Distinct(c), NEW i \in Nat,
           i + 1 <= Len(c), NEW w, AgainWell(t, c, K, w, i)
    PROVE  AgainWell(t, c, K, AgainStep(w, c[i + 1], K), i + 1)
<1> DEFINE f == c[i + 1]
           L == Len(w)
           W == Append(w, Retried(f))
<1>1. i + 1 \in 1..Len(c) /\ f \in OwnFrames(t)
      /\ (\A k \in 1..(i + 1) : k \in 1..i \/ k = i + 1)
      /\ (\A k \in 1..i : k \in 1..(i + 1) /\ k \in 1..Len(c) /\ k # i + 1)
      /\ i + 1 \in 1..(i + 1)
  OBVIOUS
<1>2. CASE f \in K
  <2>1. LeftOf(c, K, i + 1) = LeftOf(c, K, i) BY <1>1, <1>2 DEF LeftOf
  <2> QED BY <1>2, <2>1 DEF AgainWell, AgainStep
<1>3. CASE f \notin K
  <2>1. LeftOf(c, K, i + 1) = LeftOf(c, K, i) \cup {f.seq}
    BY <1>1, <1>3 DEF LeftOf
  <2>2. f.seq \notin LeftOf(c, K, i)
    <3>1. \A k \in 1..i : c[k].seq # f.seq BY <1>1 DEF Distinct
    <3> QED BY <3>1 DEF LeftOf
  <2>3. Retried(f) \in OwnFrames(t) /\ Retried(f).seq = f.seq /\ Retried(f).retries > 0
    <3>1. Retried(f).seq = f.seq /\ Retried(f).retries = f.retries + 1 /\ f.retries \in Nat
      BY <1>1 DEF Retried, OwnFrames
    <3> QED BY <1>1, <3>1, RetriedType
  <2> HIDE DEF f
  <2>4. w \in Seq(OwnFrames(t)) /\ L \in Nat BY DEF AgainWell
  <2>5. /\ W \in Seq(OwnFrames(t)) /\ Len(W) = L + 1 /\ W[L + 1] = Retried(f)
        /\ \A k \in 1..L : W[k] = w[k]
    BY <2>3, <2>4
  <2> HIDE DEF W
  <2>6. (\A k \in 1..(L + 1) : k \in 1..L \/ k = L + 1) /\ L + 1 \in 1..(L + 1)
        /\ (\A k \in 1..L : k \in 1..(L + 1))
    BY <2>4
  <2>7. SeqsOf(w) = {w[k].seq : k \in 1..L} /\ SeqsOf(W) = {W[k].seq : k \in 1..(L + 1)}
    BY <2>4, <2>5 DEF SeqsOf
  <2>8. SeqsOf(W) = SeqsOf(w) \cup {f.seq}
    <3>1. ASSUME NEW k \in 1..(L + 1)
          PROVE  W[k].seq \in SeqsOf(w) \cup {f.seq}
      BY <2>3, <2>5, <2>6, <2>7
    <3>2. ASSUME NEW k \in 1..L
          PROVE  w[k].seq \in SeqsOf(W)
      BY <2>5, <2>6, <2>7
    <3>3. f.seq \in SeqsOf(W) BY <2>3, <2>5, <2>6, <2>7
    <3> QED BY <2>7, <3>1, <3>2, <3>3
  <2>9. SeqsOf(W) = LeftOf(c, K, i + 1) BY <2>1, <2>8 DEF AgainWell
  <2>10. Tried(W)
    <3>1. \A k \in 1..L : w[k].retries > 0 BY DEF AgainWell, Tried
    <3>2. \A k \in 1..(L + 1) : W[k].retries > 0 BY <2>3, <2>5, <2>6, <3>1
    <3> QED BY <2>5, <3>2 DEF Tried
  <2>11. Distinct(W)
    <3>1. \A k, l \in 1..L : w[k].seq = w[l].seq => k = l
      BY DEF AgainWell, Distinct
    <3>2. \A k \in 1..L : w[k].seq # f.seq BY <2>2, <2>7 DEF AgainWell
    <3>3. \A k, l \in 1..(L + 1) : W[k].seq = W[l].seq => k = l
      BY <2>3, <2>5, <2>6, <3>1, <3>2
    <3> QED BY <2>5, <3>3 DEF Distinct
  <2>12. AgainStep(w, c[i + 1], K) = W BY <1>3 DEF AgainStep, W, f
  <2> QED BY <2>5, <2>9, <2>10, <2>11, <2>12 DEF AgainWell
<1> QED BY <1>2, <1>3

(* The retries of a chain are its frames that are not done. *)
LEMMA RetrySeqs ==
    ASSUME NEW t \in Tids, NEW c \in Seq(OwnFrames(t)), NEW K, Distinct(c)
    PROVE  AgainWell(t, c, K, RetryAll(c, K), Len(c))
<1> DEFINE L == Len(c)
           D == Seq(OwnFrames(t))
           E == << >>
<1>1. L \in Nat /\ E \in D /\ c \in Seq(Frames) /\ E = << >> BY OwnFramesType
<1>2. ASSUME NEW i \in 1..L, NEW w \in D
      PROVE  AgainStep(w, c[i], K) \in D
  <2>1. Retried(c[i]) \in OwnFrames(t) BY RetriedType
  <2> QED BY <2>1 DEF AgainStep
<1> HIDE DEF D, E
<1>3. PICK p \in [0..L -> D] :
         /\ p[0] = E /\ p[L] = RetryAll(c, K)
         /\ \A i \in 1..L : p[i] = AgainStep(p[i - 1], c[i], K)
  <2>1. AgainRuns(c, D, E, K) BY <1>1, <1>2, AgainRun
  <2> QED BY <2>1 DEF AgainRuns
<1> DEFINE M == {i \in Nat : i <= L => AgainWell(t, c, K, p[i], i)}
<1>4. 0 \in M
  <2>1. SeqsOf(E) = LeftOf(c, K, 0) BY <1>1 DEF SeqsOf, LeftOf
  <2>2. Tried(E) /\ Distinct(E) BY <1>1 DEF Tried, Distinct
  <2> QED BY <1>1, <1>3, <2>1, <2>2 DEF AgainWell, D
<1>5. ASSUME NEW i \in Nat, i \in M
      PROVE  i + 1 \in M
  <2>1. SUFFICES ASSUME i + 1 <= L
                 PROVE  AgainWell(t, c, K, p[i + 1], i + 1)
    OBVIOUS
  <2>2. i + 1 \in 1..L /\ (i + 1) - 1 = i /\ i <= L BY <1>1, <2>1
  <2>3. p[i + 1] = AgainStep(p[i], c[i + 1], K) /\ AgainWell(t, c, K, p[i], i)
    BY <1>3, <1>5, <2>2
  <2>4. AgainWell(t, c, K, AgainStep(p[i], c[i + 1], K), i + 1)
    BY <2>1, <2>3, AgainOne
  <2> QED BY <2>3, <2>4
<1>6. L \in M
  <2> HIDE DEF M
  <2> QED BY <1>1, <1>4, <1>5, SetInduction
<1> QED BY <1>1, <1>3, <1>6

(* Frames go back to the front of the queue. *)
LEMMA PrependWindow ==
    ASSUME NEW t \in Tids, NEW r, OwnQueue(r, t), NEW X, NEW m, InWindow(r, X, m),
           NEW a \in Seq(OwnFrames(t)), Tried(a), Distinct(a), SeqsOf(a) \subseteq X
    PROVE  InWindow(Prepend(r, a), X \ SeqsOf(a), m) /\ OwnQueue(Prepend(r, a), t)
<1> DEFINE q == r.buf_q
           L == Len(q)
           A == Len(a)
           T == Total(r)
           u == Prepend(r, a)
           Q == a \o q
<1>1. /\ r \in TidStates /\ q \in Seq(OwnFrames(t)) /\ L \in Nat /\ T \in Nat /\ A \in Nat
      /\ \A i \in 1..L : q[i].seq \in SeqNos
  BY SessionNums
<1>2. /\ Q \in Seq(OwnFrames(t)) /\ Len(Q) = A + L
      /\ \A i \in 1..A : Q[i] = a[i]
      /\ \A i \in 1..L : Q[A + i] = q[i]
  BY <1>1
<1>3. /\ u \in TidStates /\ u.buf_q = Q /\ u.seq_next = r.seq_next
      /\ u.seq_start = r.seq_start /\ u.baw_head = r.baw_head /\ u.baw_tail = r.baw_tail
      /\ u.bitmap = r.bitmap
  <2>1. Q \in Seq(Frames) BY <1>2, OwnFramesType
  <2> HIDE DEF Q
  <2>2. u = [r EXCEPT !.buf_q = Q] BY DEF Prepend, Q
  <2> QED BY <1>1, <2>1, <2>2 DEF TidStates
<1>4. OwnQueue(u, t) BY <1>2, <1>3 DEF OwnQueue
<1>5. Total(u) = T BY <1>3 DEF Total
<1>6. Span(u) = Span(r) /\ \A U : Holds(r, U) => Holds(u, U)
  <2>1. Busy(u) = Busy(r) /\ Span(u) = Span(r) /\ \A y : SlotOf(u, y) = SlotOf(r, y)
    BY <1>3 DEF Busy, Span, SlotOf
  <2> QED BY <1>3, <2>1 DEF Holds
<1>7. Fresh(r, m) /\ Ahead(r, m) /\ Once(r, m) /\ Holds(r, X \cup Again(r)) /\ Again(r) \cap X = {}
  BY DEF InWindow
<1>8. m \in Nat /\ m <= L BY <1>1, <1>7, AgainIs DEF Fresh
<1>9. \A i \in 1..L : /\ i + m <= L => q[i].retries > 0
                      /\ i + m > L => /\ q[i].retries = 0
                                      /\ BaIndex(r.seq_start, q[i].seq) = (T - L) + (i - 1)
  BY <1>7 DEF Fresh, T
<1>10. /\ \A i \in 1..L : i + m <= L => q[i].seq \in Again(r)
       /\ \A y \in Again(r) : \E i \in 1..L : i + m <= L /\ q[i].seq = y
  BY <1>7, AgainIs
<1>11. \A i, j \in 1..L : i + m <= L /\ j + m <= L /\ q[i].seq = q[j].seq => i = j
  BY <1>7 DEF Once
<1>12. /\ \A i \in 1..A : a[i].retries > 0 /\ a[i].seq \in SeqsOf(a)
       /\ \A i, j \in 1..A : a[i].seq = a[j].seq => i = j
       /\ \A y \in SeqsOf(a) : \E i \in 1..A : a[i].seq = y
  BY <1>1 DEF Tried, Distinct, SeqsOf
<1> HIDE DEF u, q, L, T, Q, A
<1>13. ASSUME NEW i \in 1..(A + L)
       PROVE  \/ i \in 1..A /\ i + m <= A + L
              \/ \E j \in 1..L : i = A + j
  <2>1. CASE i <= A BY <1>1, <1>8, <2>1
  <2>2. CASE i > A
    <3>1. i - A \in 1..L /\ i = A + (i - A) BY <1>1, <2>2
    <3> QED BY <3>1
  <2> QED BY <1>1, <2>1, <2>2
<1>14. ASSUME NEW j \in 1..L
       PROVE  /\ A + j \in 1..(A + L) /\ (A + j) + m <= A + L <=> j + m <= L
              /\ (A + j) + m > A + L <=> j + m > L
              /\ (T - (A + L)) + ((A + j) - 1) = (T - L) + (j - 1)
  BY <1>1, <1>8
<1>15. ASSUME NEW i \in 1..A
       PROVE  i \in 1..(A + L) /\ i + m <= A + L /\ ~(i + m > A + L)
  BY <1>1, <1>8
<1>16. Fresh(u, m)
  <2>1. m \in 0..(A + L) BY <1>1, <1>8
  <2>2. ASSUME NEW i \in 1..(A + L)
        PROVE  /\ i + m <= A + L => Q[i].retries > 0
               /\ i + m > A + L => /\ Q[i].retries = 0
                                   /\ BaIndex(r.seq_start, Q[i].seq) = (T - (A + L)) + (i - 1)
    <3>1. CASE i \in 1..A BY <1>2, <1>12, <1>15, <3>1
    <3>2. CASE \E j \in 1..L : i = A + j
      <4>1. PICK j \in 1..L : i = A + j BY <3>2
      <4>2. Q[i] = q[j] BY <1>2, <4>1
      <4> QED BY <1>9, <1>14, <4>1, <4>2
    <3> QED BY <1>13, <3>1, <3>2
  <2> QED BY <1>2, <1>3, <1>5, <2>1, <2>2 DEF Fresh
<1>17. Ahead(u, m) BY <1>5, <1>6, <1>7 DEF Ahead, T
<1>18. Once(u, m)
  <2>1. ASSUME NEW i \in 1..(A + L), NEW j \in 1..(A + L), i + m <= A + L, j + m <= A + L,
               Q[i].seq = Q[j].seq
        PROVE  i = j
    <3>1. \A k \in 1..A, l \in 1..L : l + m <= L => a[k].seq # q[l].seq
      BY <1>7, <1>10, <1>12
    <3>2. CASE i \in 1..A /\ j \in 1..A BY <1>2, <1>12, <2>1, <3>2
    <3>3. CASE i \in 1..A /\ \E l \in 1..L : j = A + l
      BY <1>2, <1>14, <2>1, <3>1, <3>3
    <3>4. CASE j \in 1..A /\ \E l \in 1..L : i = A + l
      BY <1>2, <1>14, <2>1, <3>1, <3>4
    <3>5. CASE (\E k \in 1..L : i = A + k) /\ \E l \in 1..L : j = A + l
      <4>1. PICK k \in 1..L : i = A + k BY <3>5
      <4>2. PICK l \in 1..L : j = A + l BY <3>5
      <4>3. k + m <= L /\ l + m <= L /\ q[k].seq = q[l].seq
        BY <1>2, <1>14, <2>1, <4>1, <4>2
      <4>4. k = l BY <1>11, <4>3
      <4> QED BY <4>1, <4>2, <4>4
    <3> QED BY <1>13, <3>2, <3>3, <3>4, <3>5
  <2>2. u.buf_q = Q /\ Len(u.buf_q) = A + L BY <1>2, <1>3
  <2> QED BY <2>1, <2>2, Zenon DEF Once
<1>19. /\ \A i \in 1..(A + L) : i + m <= A + L => Q[i].seq \in Again(u)
       /\ \A y \in Again(u) : \E i \in 1..(A + L) : i + m <= A + L /\ Q[i].seq = y
  <2>1. u.buf_q = Q /\ Len(u.buf_q) = A + L BY <1>2, <1>3
  <2>2. /\ \A i \in 1..Len(u.buf_q) : i + m <= Len(u.buf_q) => u.buf_q[i].seq \in Again(u)
        /\ \A y \in Again(u) : \E i \in 1..Len(u.buf_q) : i + m <= Len(u.buf_q) /\ u.buf_q[i].seq = y
    BY <1>4, <1>16, AgainIs
  <2> QED BY <2>1, <2>2
<1>20. Again(u) = Again(r) \cup SeqsOf(a)
  <2>1. ASSUME NEW y \in Again(u)
        PROVE  y \in Again(r) \cup SeqsOf(a)
    <3>1. PICK i \in 1..(A + L) : i + m <= A + L /\ Q[i].seq = y BY <1>19, <2>1
    <3>2. CASE i \in 1..A BY <1>2, <1>12, <3>1, <3>2
    <3>3. CASE \E j \in 1..L : i = A + j BY <1>2, <1>10, <1>14, <3>1, <3>3
    <3> QED BY <1>13, <3>2, <3>3
  <2>2. ASSUME NEW y \in Again(r)
        PROVE  y \in Again(u)
    <3>1. PICK j \in 1..L : j + m <= L /\ q[j].seq = y BY <1>10, <2>2
    <3>2. A + j \in 1..(A + L) /\ (A + j) + m <= A + L /\ Q[A + j].seq = y
      BY <1>2, <1>14, <3>1
    <3> QED BY <1>19, <3>2
  <2>3. ASSUME NEW y \in SeqsOf(a)
        PROVE  y \in Again(u)
    <3>1. PICK i \in 1..A : a[i].seq = y BY <1>12, <2>3
    <3>2. i \in 1..(A + L) /\ i + m <= A + L /\ Q[i].seq = y
      BY <1>2, <1>15, <3>1
    <3> QED BY <1>19, <3>2
  <2> QED BY <2>1, <2>2, <2>3
<1>21. (X \ SeqsOf(a)) \cup Again(u) = X \cup Again(r) /\ Again(u) \cap (X \ SeqsOf(a)) = {}
  BY <1>7, <1>20
<1>22. InWindow(u, X \ SeqsOf(a), m)
  BY <1>6, <1>7, <1>16, <1>17, <1>18, <1>21 DEF InWindow
<1> QED BY <1>4, <1>22 DEF u

(* An identifier with the same window and queue is in the same session. *)
LEMMA AlikeWindow ==
    ASSUME NEW r \in TidStates, NEW u, Alike(u, r)
    PROVE  /\ \A t \in Tids : OwnQueue(r, t) => OwnQueue(u, t)
           /\ \A X, m : InWindow(r, X, m) => InWindow(u, X, m)
           /\ \A U : Holds(r, U) => Holds(u, U)
           /\ Span(u) = Span(r) /\ Busy(u) = Busy(r) /\ Again(u) = Again(r)
           /\ Outstanding(u) = Outstanding(r) /\ Waiting(u) = Waiting(r) /\ Total(u) = Total(r)
<1>1. /\ u.seq_start = r.seq_start /\ u.seq_next = r.seq_next /\ u.baw_head = r.baw_head
      /\ u.baw_tail = r.baw_tail /\ u.bitmap = r.bitmap /\ u.buf_q = r.buf_q /\ u \in TidStates
  BY DEF Alike
<1>2. /\ Span(u) = Span(r) /\ Total(u) = Total(r) /\ Waiting(u) = Waiting(r)
      /\ \A x : SlotOf(u, x) = SlotOf(r, x)
  BY <1>1 DEF Span, Total, Waiting, SlotOf
<1>3. Busy(u) = Busy(r) /\ Again(u) = Again(r) BY <1>1, <1>2 DEF Busy, Again
<1>4. Outstanding(u) = Outstanding(r) BY <1>1, <1>3 DEF Outstanding
<1>5. ASSUME NEW U, Holds(r, U)
      PROVE  Holds(u, U)
  BY <1>1, <1>2, <1>3, <1>5 DEF Holds
<1>6. ASSUME NEW X, NEW m, InWindow(r, X, m)
      PROVE  InWindow(u, X, m)
  <2>1. Fresh(r, m) /\ Ahead(r, m) /\ Once(r, m) /\ Holds(r, X \cup Again(r)) /\ Again(r) \cap X = {}
    BY <1>6 DEF InWindow
  <2>2. Fresh(u, m) BY <1>1, <1>2, <2>1 DEF Fresh
  <2>3. Ahead(u, m) BY <1>2, <2>1 DEF Ahead
  <2>4. Once(u, m) BY <1>1, <2>1 DEF Once
  <2>5. Holds(u, X \cup Again(u)) BY <1>3, <1>5, <2>1
  <2> QED BY <1>3, <2>1, <2>2, <2>3, <2>4, <2>5 DEF InWindow
<1>7. \A t \in Tids : OwnQueue(r, t) => OwnQueue(u, t) BY <1>1 DEF OwnQueue
<1> QED BY <1>2, <1>3, <1>4, <1>5, <1>6, <1>7

(* A frame in flight is done. *)
LEMMA DoneOne ==
    ASSUME NEW t \in Tids, NEW r, OwnQueue(r, t), NEW X, NEW m, InWindow(r, X, m), NEW x \in X
    PROVE  InWindow(UpdateBaw(r, x), X \ {x}, m) /\ OwnQueue(UpdateBaw(r, x), t)
<1> DEFINE u == UpdateBaw(r, x)
           U == X \cup Again(r)
<1>1. r \in TidStates BY DEF OwnQueue
<1>2. Fresh(r, m) /\ Ahead(r, m) /\ Once(r, m) /\ Holds(r, U) /\ Again(r) \cap X = {} /\ x \in U
  BY DEF InWindow
<1>3. m \in Nat BY <1>2, AgainIs
<1> HIDE DEF U, u
<1>4. Tracks(r, u) /\ Holds(u, U \ {x}) BY <1>1, <1>2, UpdateTracks DEF u
<1>5. OwnQueue(u, t) /\ Fresh(u, m) /\ Ahead(u, m) /\ Once(u, m) /\ Again(u) = Again(r)
  BY <1>2, <1>3, <1>4 DEF Tracks
<1>6. U \ {x} = (X \ {x}) \cup Again(u) BY <1>2, <1>5 DEF U
<1>7. Holds(u, (X \ {x}) \cup Again(u)) /\ Again(u) \cap (X \ {x}) = {}
  BY <1>2, <1>4, <1>5, <1>6
<1> QED BY <1>5, <1>7 DEF InWindow, u

(* A chain in flight is done: some frames of it go back to the queue. *)
LEMMA DoneChain ==
    ASSUME NEW t \in Tids, NEW r, OwnQueue(r, t), NEW X, NEW m, InWindow(r, X, m),
           NEW c \in Seq(OwnFrames(t)), Distinct(c), SeqsOf(c) \subseteq X, NEW K
    PROVE  /\ InWindow(Prepend(UpdateBawFor(r, c, K), RetryAll(c, K)), X \ SeqsOf(c), m)
           /\ OwnQueue(Prepend(UpdateBawFor(r, c, K), RetryAll(c, K)), t)
<1> DEFINE w == UpdateBawFor(r, c, K)
           a == RetryAll(c, K)
           U == X \cup Again(r)
           B == DoneOf(c, K, Len(c))
           C == LeftOf(c, K, Len(c))
<1>1. r \in TidStates /\ c \in Seq(Frames) BY OwnFramesType DEF OwnQueue
<1>2. Fresh(r, m) /\ Ahead(r, m) /\ Once(r, m) /\ Holds(r, U) /\ Again(r) \cap X = {}
  BY DEF InWindow
<1>3. m \in Nat BY <1>2, AgainIs
<1>4. SeqsOf(c) = {c[i].seq : i \in 1..Len(c)} BY DEF SeqsOf
<1>5. B \cup C = SeqsOf(c) /\ B \cap C = {}
  <2>1. B \cup C = SeqsOf(c) BY <1>4 DEF DoneOf, LeftOf
  <2>2. B \cap C = {} BY DEF DoneOf, LeftOf, Distinct
  <2> QED BY <2>1, <2>2
<1>6. B \subseteq U BY <1>5
<1>7. \A i, j \in 1..Len(c) : c[i] \in K /\ c[j] \in K /\ c[i].seq = c[j].seq => i = j
  BY DEF Distinct
<1> HIDE DEF U, w
<1>8. Tracks(r, w) /\ Holds(w, U \ B)
  BY <1>1, <1>2, <1>6, <1>7, UpdateAllHolds DEF w
<1> HIDE DEF B, C, a
<1>9. OwnQueue(w, t) /\ Fresh(w, m) /\ Ahead(w, m) /\ Once(w, m) /\ Again(w) = Again(r)
  BY <1>2, <1>3, <1>8 DEF Tracks
<1>10. U \ B = (X \ B) \cup Again(w) BY <1>2, <1>5, <1>9 DEF U
<1>11. Holds(w, (X \ B) \cup Again(w)) /\ Again(w) \cap (X \ B) = {}
  BY <1>2, <1>8, <1>9, <1>10
<1>12. InWindow(w, X \ B, m) BY <1>9, <1>11 DEF InWindow
<1>13. a \in Seq(OwnFrames(t)) /\ Tried(a) /\ Distinct(a) /\ SeqsOf(a) = C
  BY RetrySeqs DEF AgainWell, a, C
<1>14. SeqsOf(a) \subseteq X \ B /\ (X \ B) \ SeqsOf(a) = X \ SeqsOf(c)
  BY <1>5, <1>13
<1>15. InWindow(Prepend(w, a), (X \ B) \ SeqsOf(a), m) /\ OwnQueue(Prepend(w, a), t)
  BY <1>9, <1>12, <1>13, <1>14, PrependWindow
<1> QED BY <1>14, <1>15 DEF w, a

(* What ath_tgt_tx_cleanup makes of the fields of an identifier *)
LEMMA ClosedFields ==
    ASSUME NEW r \in TidStates, NEW w, w = UpdateBawFor(r, r.buf_q, Waiting(r)), w \in Windows(r),
           NEW U, Holds(w, U)
    PROVE  /\ Closed(r) \in TidStates /\ Closed(r).buf_q = << >> /\ Span(Closed(r)) = 0
           /\ Exactly => Closed(r).bitmap = {}
           /\ Closed(r).incomp = r.incomp + Cardinality(Busy(w))
           /\ Closed(r).cleanup = (r.cleanup \/ Busy(w) # {})
           /\ Closed(r).paused = r.paused /\ Closed(r).sched = r.sched
           /\ Closed(r).aggr = r.aggr /\ Closed(r).reinit = r.reinit
<1> DEFINE v == CloseBaw(w)
           u == Closed(r)
<1>1. w \in TidStates /\ SameQueue(w, r) BY DEF Windows
<1>2. v \in Windows(w) /\ Span(v) = 0 /\ (Exactly => v.bitmap = {})
  BY <1>1, CloseHolds
<1>3. v \in TidStates /\ SameQueue(v, r) BY <1>1, <1>2 DEF Windows, SameQueue
<1>4. Cardinality(Busy(w)) \in Nat /\ r.incomp \in Int /\ r.cleanup \in BOOLEAN
  BY <1>1, SpanType DEF TidStates
<1> DEFINE n == r.incomp + Cardinality(Busy(w))
           b == r.cleanup \/ Busy(w) # {}
<1>5. n \in Int /\ b \in BOOLEAN /\ << >> \in Seq(Frames) BY <1>4
<1> HIDE DEF n, b, v
<1>6. u = [v EXCEPT !.buf_q = << >>, !.incomp = n, !.cleanup = b]
  BY <1>3 DEF Closed, SameQueue, n, b, v
<1>7. /\ u \in TidStates /\ u.buf_q = << >> /\ u.incomp = n /\ u.cleanup = b
      /\ u.baw_head = v.baw_head /\ u.baw_tail = v.baw_tail /\ u.bitmap = v.bitmap
      /\ u.paused = v.paused /\ u.sched = v.sched /\ u.aggr = v.aggr /\ u.reinit = v.reinit
  BY <1>3, <1>5, <1>6 DEF TidStates
<1>8. Span(u) = Span(v) BY <1>7 DEF Span
<1> QED BY <1>2, <1>3, <1>7, <1>8 DEF SameQueue, n, b, v

(* ath_tgt_tx_cleanup ends a session. *)
LEMMA CloseWindow ==
    ASSUME NEW t \in Tids, NEW r, OwnQueue(r, t), NEW X, NEW m, InWindow(r, X, m),
           ~r.cleanup, r.incomp = 0
    PROVE  Ended(Closed(r), X)
<1> DEFINE q == r.buf_q
           L == Len(q)
           K == Waiting(r)
           U == X \cup Again(r)
           w == UpdateBawFor(r, q, K)
           B == DoneOf(q, K, L)
<1>1. r \in TidStates /\ q \in Seq(Frames) /\ q \in Seq(OwnFrames(t)) /\ L \in Nat
  BY OwnFramesType DEF OwnQueue
<1>2. Fresh(r, m) /\ Ahead(r, m) /\ Once(r, m) /\ Holds(r, U) /\ Again(r) \cap X = {}
  BY DEF InWindow
<1>3. B = Again(r)
  <2>1. ToSet(q) = {q[i] : i \in 1..L} BY <1>1 DEF ToSet
  <2>2. K = {f \in ToSet(q) : f.retries > 0} BY DEF Waiting
  <2>3. Again(r) = {f.seq : f \in K} BY DEF Again
  <2> HIDE DEF q, L
  <2>4. \A i \in 1..L : q[i] \in K => q[i].seq \in Again(r) BY <2>3
  <2>5. ASSUME NEW y \in Again(r)
        PROVE  \E i \in 1..L : q[i] \in K /\ q[i].seq = y
    <3>1. PICK f \in K : f.seq = y BY <2>3, <2>5
    <3>2. PICK i \in 1..L : q[i] = f BY <2>1, <2>2, <3>1
    <3> QED BY <3>1, <3>2
  <2> HIDE DEF K
  <2> QED BY <2>4, <2>5 DEF DoneOf
<1>4. \A i, j \in 1..L : q[i] \in K /\ q[j] \in K /\ q[i].seq = q[j].seq => i = j
  <2>1. \A i \in 1..L : q[i] \in K => i + m <= L
    <3>1. \A i \in 1..L : i + m > L => q[i].retries = 0 BY <1>2 DEF Fresh
    <3>2. m \in Nat BY <1>2, AgainIs
    <3>3. \A i \in 1..L : q[i] \in K => q[i].retries > 0 BY DEF Waiting
    <3>4. \A i \in 1..L : i + m > L \/ i + m <= L
      <4> HIDE DEF L
      <4> QED BY <1>1, <3>2
    <3> QED BY <3>1, <3>3, <3>4
  <2> QED BY <1>2, <2>1 DEF Once
<1> HIDE DEF U, B
<1>5. B \subseteq U BY <1>3 DEF U
<1>6. Tracks(r, w) /\ Holds(w, U \ B)
  <2> HIDE DEF w, K, q
  <2>1. /\ Tracks(r, UpdateBawFor(r, q, K)) /\ Holds(UpdateBawFor(r, q, K), U \ B)
    BY <1>1, <1>2, <1>4, <1>5, UpdateAllHolds DEF B
  <2> QED BY <2>1 DEF w
<1>7. U \ B = X BY <1>2, <1>3 DEF U
<1> HIDE DEF w
<1>8. w \in Windows(r) /\ Holds(w, X) /\ w \in TidStates
  BY <1>6, <1>7 DEF Tracks, Windows
<1> DEFINE N == Cardinality(Busy(w))
           u == Closed(r)
<1>9. /\ u \in TidStates /\ u.buf_q = << >> /\ Span(u) = 0 /\ (Exactly => u.bitmap = {})
      /\ u.incomp = r.incomp + N /\ u.cleanup = (r.cleanup \/ Busy(w) # {})
  BY <1>1, <1>8, ClosedFields DEF w
<1>10. IsFiniteSet(X) /\ Cardinality(X) \in Nat /\ N \in Nat /\ Cardinality(X) <= N
       /\ (Exactly => Cardinality(X) = N)
  BY <1>8, HeldCount
<1>11. IsFiniteSet(Busy(w)) /\ (N = 0 <=> Busy(w) = {}) /\ (Cardinality(X) = 0 <=> X = {})
  BY <1>8, <1>10, SpanType, FS_EmptySet
<1> HIDE DEF N, u
<1>12. u.incomp = N /\ u.cleanup = (Busy(w) # {}) BY <1>9, <1>10
<1>13. u.cleanup => N >= 1
  <2>1. u.cleanup => N # 0 BY <1>11, <1>12, Zenon
  <2> QED BY <1>10, <2>1
<1>14. ~u.cleanup => N = 0 /\ X = {}
  <2>1. N = 0 => Cardinality(X) = 0 BY <1>10
  <2> QED BY <1>11, <1>12, <2>1
<1> QED BY <1>9, <1>10, <1>12, <1>13, <1>14 DEF Ended, u

(* It changes nothing when the session has ended before. *)
LEMMA CloseEnded ==
    ASSUME NEW t \in Tids, NEW r, OwnQueue(r, t), NEW X, Ended(r, X)
    PROVE  Ended(Closed(r), X) /\ Closed(r).cleanup = r.cleanup
<1> DEFINE E == r.buf_q
           K == Waiting(r)
           w == UpdateBawFor(r, E, K)
<1>1. r \in TidStates /\ E = << >> /\ E \in Seq(Frames) /\ Len(E) = 0
  BY DEF OwnQueue, Ended
<1>2. r \in Windows(r) BY <1>1 DEF Windows, SameQueue
<1>3. w = r
  <2> DEFINE D == {r}
  <2> HIDE DEF E, K
  <2>1. \A i \in 1..Len(E), v \in D : UpdStep(v, E[i], K) \in D BY <1>1
  <2>2. UpdateRuns(E, D, r, K)
    <3>1. r \in D OBVIOUS
    <3> HIDE DEF D
    <3> QED BY <1>1, <2>1, <3>1, UpdateRun
  <2> QED BY <1>1, <2>2 DEF UpdateRuns, w
<1>4. Busy(r) = {} /\ Cardinality(Busy(r)) = 0
  <2>1. Span(r) = 0 BY DEF Ended
  <2>2. Busy(r) = {} BY <1>1, <2>1, SpanType
  <2> QED BY <2>2, FS_EmptySet
<1>5. Holds(r, {}) BY DEF Holds, Ended
<1> HIDE DEF w
<1> DEFINE u == Closed(r)
<1>6. /\ u \in TidStates /\ u.buf_q = << >> /\ Span(u) = 0 /\ (Exactly => u.bitmap = {})
      /\ u.incomp = r.incomp + 0 /\ u.cleanup = (r.cleanup \/ Busy(r) # {})
  <2>1. r = UpdateBawFor(r, r.buf_q, Waiting(r)) BY <1>3 DEF w
  <2>2. /\ u \in TidStates /\ u.buf_q = << >> /\ Span(u) = 0 /\ (Exactly => u.bitmap = {})
        /\ u.incomp = r.incomp + Cardinality(Busy(r)) /\ u.cleanup = (r.cleanup \/ Busy(r) # {})
    BY <1>1, <1>2, <1>5, <2>1, ClosedFields
  <2> QED BY <1>4, <2>2
<1>7. r.incomp \in Int /\ r.cleanup \in BOOLEAN BY <1>1 DEF TidStates
<1> HIDE DEF u
<1>8. u.incomp = r.incomp /\ u.cleanup = r.cleanup BY <1>4, <1>6, <1>7
<1> QED BY <1>6, <1>8 DEF Ended, u

(* A session begins. *)
LEMMA OpenWindow ==
    ASSUME NEW t \in Tids, NEW r, OwnQueue(r, t), Ended(r, {}), BawWithin(r.seq_start, r.seq_next)
    PROVE  InWindow(r, {}, 0)
<1>1. r.buf_q = << >> /\ Span(r) = 0 /\ (Exactly => r.bitmap = {}) /\ Len(r.buf_q) = 0
  BY DEF Ended
<1>2. Total(r) \in Nat /\ Total(r) < BawSize /\ BawSize \in Nat
  BY SessionNums DEF BawWithin, Total
<1>3. Fresh(r, 0) BY <1>1 DEF Fresh
<1>4. Ahead(r, 0) BY <1>1, <1>2 DEF Ahead
<1>5. Once(r, 0) BY <1>1 DEF Once
<1>6. Again(r) = {} BY <1>1, <1>3, AgainIs
<1>7. Holds(r, {} \cup Again(r)) BY <1>1, <1>6 DEF Holds
<1> QED BY <1>3, <1>4, <1>5, <1>6, <1>7 DEF InWindow

-----------------------------------------------------------------------------
(* A session and the hardware queue *)

(* The frames of a chain of a session are the session's. *)
LEMMA ChainType ==
    ASSUME NEW t \in Tids, NEW c \in Chains
    PROVE  /\ c \in Seq(Frames) /\ Len(c) \in Nat /\ Len(c) >= 1 /\ c[1] = Head(c)
           /\ SeqsOf(c) \subseteq SeqNos
           /\ SeqsOf(c) = {c[i].seq : i \in 1..Len(c)}
           /\ Session(c, t) => c \in Seq(OwnFrames(t))
           /\ c[1].kind # "aggr" => Len(c) = 1 /\ c[1] \in Singles
<1>1. c \in Seq(Frames) /\ c # << >> /\ Len(c) \in Nat BY DEF Chains
<1>2. Len(c) >= 1 /\ c[1] = Head(c) /\ 1 \in 1..Len(c)
  <2>1. Len(c) # 0 BY <1>1
  <2> QED BY <1>1, <2>1
<1>3. SeqsOf(c) = {c[i].seq : i \in 1..Len(c)} BY <1>1 DEF SeqsOf
<1>4. SeqsOf(c) \subseteq SeqNos
  <2>1. \A i \in 1..Len(c) : c[i].seq \in SeqNos
    <3>1. \A i \in 1..Len(c) : c[i] \in Frames BY <1>1
    <3> QED BY <3>1 DEF Frames
  <2> QED BY <1>3, <2>1
<1>5. \/ Len(c) = 1 /\ c[1] \in Singles
      \/ \E u \in Tids : c \in Seq(OwnFrames(u))
  BY DEF Chains
<1>6. ASSUME Session(c, t)
      PROVE  c \in Seq(OwnFrames(t))
  <2>1. c[1] \notin Singles BY <1>6 DEF Session, Singles
  <2>2. PICK u \in Tids : c \in Seq(OwnFrames(u)) BY <1>5, <2>1
  <2>3. c[1] \in OwnFrames(u) BY <1>2, <2>2
  <2>4. u = t BY <1>6, <2>3 DEF Session, OwnFrames
  <2> QED BY <2>2, <2>4
<1>7. ASSUME c[1].kind # "aggr"
      PROVE  Len(c) = 1 /\ c[1] \in Singles
  <2>1. ASSUME NEW u \in Tids, c \in Seq(OwnFrames(u))
        PROVE  FALSE
    <3>1. c[1] \in OwnFrames(u) BY <1>2, <2>1
    <3> QED BY <1>7, <3>1 DEF OwnFrames
  <2> QED BY <1>5, <2>1
<1> QED BY <1>1, <1>2, <1>3, <1>4, <1>6, <1>7

(* The tail of a sequence, element by element *)
LEMMA TailParts ==
    ASSUME NEW S, NEW q \in Seq(S), q # << >>
    PROVE  /\ Len(q) \in Nat /\ Len(q) >= 1 /\ 1 \in 1..Len(q) /\ q[1] = Head(q) /\ Head(q) \in S
           /\ Tail(q) \in Seq(S) /\ Len(Tail(q)) = Len(q) - 1
           /\ \A i \in 1..(Len(q) - 1) : Tail(q)[i] = q[i + 1] /\ i + 1 \in 1..Len(q) /\ i + 1 # 1
           /\ \A i \in 1..Len(q) : i = 1 \/ (i - 1 \in 1..(Len(q) - 1) /\ Tail(q)[i - 1] = q[i])
<1>1. Len(q) \in Nat /\ Len(q) # 0 /\ Tail(q) \in Seq(S) /\ Len(Tail(q)) = Len(q) - 1
      /\ q[1] = Head(q) /\ Head(q) \in S
  OBVIOUS
<1>2. ASSUME NEW i \in 1..(Len(q) - 1)
      PROVE  Tail(q)[i] = q[i + 1] /\ i + 1 \in 1..Len(q) /\ i + 1 # 1
  <2>1. i + 1 \in 1..Len(q) /\ i + 1 # 1 BY <1>1
  <2> QED BY <1>1, <2>1
<1>3. ASSUME NEW i \in 1..Len(q)
      PROVE  i = 1 \/ (i - 1 \in 1..(Len(q) - 1) /\ Tail(q)[i - 1] = q[i])
  <2>1. i = 1 \/ (i - 1 \in 1..(Len(q) - 1) /\ (i - 1) + 1 = i) BY <1>1
  <2> QED BY <1>2, <2>1
<1>4. Len(q) >= 1 /\ 1 \in 1..Len(q) BY <1>1
<1> QED BY <1>1, <1>2, <1>3, <1>4

(* The chain at the head is taken off. *)
LEMMA FlightTail ==
    ASSUME NEW t \in Tids, NEW q \in Seq(Chains), q # << >>, InLine(q, t)
    PROVE  /\ InLine(Tail(q), t)
           /\ \A k : Has(Tail(q), t, k) => Has(q, t, k)
           /\ \A k : Has(q, t, k) => Has(Tail(q), t, k) \/ (Head(q)[1].kind = k /\ Head(q)[1].tid = t)
           /\ ~Session(Head(q), t) => Flight(Tail(q), t) = Flight(q, t)
           /\ Session(Head(q), t) => /\ Flight(Tail(q), t) = Flight(q, t) \ SeqsOf(Head(q))
                                     /\ SeqsOf(Head(q)) \subseteq Flight(q, t)
                                     /\ Distinct(Head(q))
           /\ Head(q)[1].kind = "normal" /\ Head(q)[1].tid = t => Flight(q, t) = {}
<1> DEFINE L == Len(q)
           w == Tail(q)
           c == Head(q)
<1>1. /\ L \in Nat /\ 1 \in 1..L /\ q[1] = c /\ c \in Chains
      /\ w \in Seq(Chains) /\ Len(w) = L - 1
      /\ \A i \in 1..(L - 1) : w[i] = q[i + 1] /\ i + 1 \in 1..L /\ i + 1 # 1
      /\ \A i \in 1..L : i = 1 \/ (i - 1 \in 1..(L - 1) /\ w[i - 1] = q[i])
  BY TailParts
<1>2. InOrder(q, t) /\ Separate(q, t) BY DEF InLine
<1> HIDE DEF L, w, c
<1>3. InOrder(w, t)
  <2>1. ASSUME NEW i \in 1..(L - 1), NEW j \in 1..(L - 1), i < j, w[i][1].kind = "normal", w[i][1].tid = t
        PROVE  ~Session(w[j], t)
    <3>1. i + 1 < j + 1 BY <1>1, <2>1
    <3> QED BY <1>1, <1>2, <2>1, <3>1 DEF InOrder, L
  <2> QED BY <1>1, <2>1 DEF InOrder
<1>4. Separate(w, t)
  <2>1. ASSUME NEW i \in 1..(L - 1), Session(w[i], t)
        PROVE  /\ Distinct(w[i])
               /\ \A j \in 1..(L - 1) : Session(w[j], t) /\ i # j => SeqsOf(w[i]) \cap SeqsOf(w[j]) = {}
    <3>1. w[i] = q[i + 1] /\ i + 1 \in 1..L BY <1>1
    <3>2. \A j \in 1..(L - 1) : w[j] = q[j + 1] /\ j + 1 \in 1..L /\ (i # j => i + 1 # j + 1)
      BY <1>1
    <3>3. Distinct(q[i + 1]) /\ \A j \in 1..L : Session(q[j], t) /\ i + 1 # j
                                   => SeqsOf(q[i + 1]) \cap SeqsOf(q[j]) = {}
      BY <1>2, <2>1, <3>1 DEF Separate, L
    <3> QED BY <3>1, <3>2, <3>3
  <2> QED BY <1>1, <2>1 DEF Separate
<1>5. \A k : Has(w, t, k) => Has(q, t, k) BY <1>1 DEF Has, L
<1>6. ASSUME NEW k, Has(q, t, k)
      PROVE  Has(w, t, k) \/ (c[1].kind = k /\ c[1].tid = t)
  <2>1. PICK i \in 1..L : q[i][1].kind = k /\ q[i][1].tid = t BY <1>6 DEF Has, L
  <2> QED BY <1>1, <2>1 DEF Has
<1>7. Flight(w, t) \subseteq Flight(q, t) BY <1>1 DEF Flight, L
<1>8. ASSUME NEW x \in Flight(q, t)
      PROVE  x \in Flight(w, t) \/ (Session(c, t) /\ x \in SeqsOf(c))
  <2>1. PICK i \in 1..L : Session(q[i], t) /\ x \in SeqsOf(q[i])
    BY <1>8 DEF Flight, L
  <2>2. x \in SeqNos BY DEF Flight
  <2> QED BY <1>1, <2>1, <2>2 DEF Flight
<1>9. ~Session(c, t) => Flight(w, t) = Flight(q, t) BY <1>7, <1>8
<1>10. ASSUME Session(c, t)
       PROVE  /\ Flight(w, t) = Flight(q, t) \ SeqsOf(c) /\ SeqsOf(c) \subseteq Flight(q, t)
              /\ Distinct(c)
  <2>1. SeqsOf(c) \subseteq SeqNos BY <1>1, ChainType
  <2>2. SeqsOf(c) \subseteq Flight(q, t) BY <1>1, <1>10, <2>1 DEF Flight, L
  <2>3. Distinct(c) /\ \A j \in 1..L : Session(q[j], t) /\ 1 # j => SeqsOf(c) \cap SeqsOf(q[j]) = {}
    BY <1>1, <1>2, <1>10 DEF Separate, L
  <2>4. ASSUME NEW x \in Flight(w, t)
        PROVE  x \notin SeqsOf(c)
    <3>1. PICK i \in 1..(L - 1) : Session(w[i], t) /\ x \in SeqsOf(w[i])
      BY <1>1 DEF Flight
    <3> QED BY <1>1, <2>3, <3>1
  <2> QED BY <1>7, <1>8, <2>2, <2>3, <2>4
<1>11. ASSUME c[1].kind = "normal", c[1].tid = t
       PROVE  Flight(q, t) = {}
  <2>1. ASSUME NEW i \in 1..L, Session(q[i], t)
        PROVE  FALSE
    <3>1. i # 1 BY <1>1, <1>11, <2>1 DEF Session
    <3>2. 1 < i BY <1>1, <3>1
    <3> QED BY <1>1, <1>2, <1>11, <2>1, <3>2 DEF InOrder, L
  <2> QED BY <2>1 DEF Flight, L
<1> QED BY <1>3, <1>4, <1>5, <1>6, <1>9, <1>10, <1>11 DEF InLine, w, c

(* A chain is added. *)
LEMMA FlightAppend ==
    ASSUME NEW t \in Tids, NEW q \in Seq(Chains), InLine(q, t), NEW c \in Chains
    PROVE  /\ \A k : Has(q, t, k) => Has(Append(q, c), t, k)
           /\ \A k : Has(Append(q, c), t, k) => Has(q, t, k) \/ (c[1].kind = k /\ c[1].tid = t)
           /\ \A k : c[1].kind = k /\ c[1].tid = t => Has(Append(q, c), t, k)
           /\ ~Session(c, t) => InLine(Append(q, c), t) /\ Flight(Append(q, c), t) = Flight(q, t)
           /\ /\ Session(c, t) /\ Distinct(c) /\ SeqsOf(c) \cap Flight(q, t) = {}
              /\ ~Has(q, t, "normal")
              => InLine(Append(q, c), t) /\ Flight(Append(q, c), t) = Flight(q, t) \cup SeqsOf(c)
<1> DEFINE L == Len(q)
           w == Append(q, c)
<1>1. /\ L \in Nat /\ w \in Seq(Chains) /\ Len(w) = L + 1 /\ w[L + 1] = c
      /\ \A i \in 1..L : w[i] = q[i]
  OBVIOUS
<1>2. /\ \A i \in 1..(L + 1) : i \in 1..L \/ i = L + 1
      /\ \A i \in 1..L : i \in 1..(L + 1) /\ i < L + 1 /\ i # L + 1
      /\ L + 1 \in 1..(L + 1)
      /\ \A i \in 1..(L + 1) : ~(L + 1 < i)
  BY <1>1
<1>3. InOrder(q, t) /\ Separate(q, t) BY DEF InLine
<1> HIDE DEF L, w
<1>4. \A k : Has(q, t, k) => Has(w, t, k) BY <1>1, <1>2 DEF Has, L
<1>5. \A k : Has(w, t, k) => Has(q, t, k) \/ (c[1].kind = k /\ c[1].tid = t)
  BY <1>1, <1>2 DEF Has, L
<1>6. \A k : c[1].kind = k /\ c[1].tid = t => Has(w, t, k) BY <1>1, <1>2 DEF Has
<1>7. Flight(q, t) \subseteq Flight(w, t) BY <1>1, <1>2 DEF Flight, L
<1>8. \A x \in Flight(w, t) : x \in Flight(q, t) \/ (Session(c, t) /\ x \in SeqsOf(c))
  BY <1>1, <1>2 DEF Flight, L
<1>9. Session(c, t) => SeqsOf(c) \subseteq Flight(w, t)
  <2>1. SeqsOf(c) \subseteq SeqNos BY ChainType
  <2> QED BY <1>1, <1>2, <2>1 DEF Flight
<1>10. ASSUME ~Session(c, t) \/ ~Has(q, t, "normal")
       PROVE  InOrder(w, t)
  <2>1. ASSUME NEW i \in 1..(L + 1), NEW j \in 1..(L + 1), i < j, w[i][1].kind = "normal",
               w[i][1].tid = t, Session(w[j], t)
        PROVE  FALSE
    <3>1. i \in 1..L BY <1>2, <2>1
    <3>2. CASE j \in 1..L BY <1>1, <1>3, <2>1, <3>1, <3>2 DEF InOrder, L
    <3>3. CASE j = L + 1
      <4>1. Has(q, t, "normal") BY <1>1, <2>1, <3>1 DEF Has, L
      <4> QED BY <1>1, <1>10, <2>1, <3>3, <4>1
    <3> QED BY <1>2, <3>2, <3>3
  <2> QED BY <1>1, <2>1 DEF InOrder
<1>11. ASSUME Session(c, t) => Distinct(c) /\ SeqsOf(c) \cap Flight(q, t) = {}
       PROVE  Separate(w, t)
  <2>1. ASSUME NEW i \in 1..L, Session(q[i], t)
        PROVE  /\ SeqsOf(q[i]) \subseteq Flight(q, t)
               /\ Distinct(q[i])
               /\ \A j \in 1..L : Session(q[j], t) /\ i # j => SeqsOf(q[i]) \cap SeqsOf(q[j]) = {}
    <3>1. q[i] \in Chains BY DEF L
    <3>2. SeqsOf(q[i]) \subseteq SeqNos BY <3>1, ChainType
    <3> QED BY <1>3, <2>1, <3>2 DEF Flight, Separate, L
  <2>2. ASSUME NEW i \in 1..(L + 1), Session(w[i], t)
        PROVE  /\ Distinct(w[i])
               /\ \A j \in 1..(L + 1) : Session(w[j], t) /\ i # j => SeqsOf(w[i]) \cap SeqsOf(w[j]) = {}
    <3>1. CASE i \in 1..L
      <4>1. Session(q[i], t) /\ w[i] = q[i] BY <1>1, <2>2, <3>1
      <4>2. ASSUME NEW j \in 1..(L + 1), Session(w[j], t), i # j
            PROVE  SeqsOf(q[i]) \cap SeqsOf(w[j]) = {}
        <5>1. CASE j \in 1..L BY <1>1, <2>1, <3>1, <4>1, <4>2, <5>1
        <5>2. CASE j = L + 1 BY <1>1, <1>11, <2>1, <3>1, <4>1, <4>2, <5>2
        <5> QED BY <1>2, <5>1, <5>2
      <4> QED BY <2>1, <3>1, <4>1, <4>2
    <3>2. CASE i = L + 1
      <4>1. w[i] = c /\ Session(c, t) BY <1>1, <2>2, <3>2
      <4>2. ASSUME NEW j \in 1..(L + 1), Session(w[j], t), i # j
            PROVE  SeqsOf(c) \cap SeqsOf(w[j]) = {}
        <5>1. j \in 1..L BY <1>2, <3>2, <4>2
        <5> QED BY <1>1, <1>11, <2>1, <4>1, <4>2, <5>1
      <4> QED BY <1>11, <4>1, <4>2
    <3> QED BY <1>2, <3>1, <3>2
  <2> QED BY <1>1, <2>2 DEF Separate
<1>12. ~Session(c, t) => InLine(w, t) /\ Flight(w, t) = Flight(q, t)
  BY <1>7, <1>8, <1>10, <1>11 DEF InLine
<1>13. Session(c, t) /\ Distinct(c) /\ SeqsOf(c) \cap Flight(q, t) = {} /\ ~Has(q, t, "normal")
       => InLine(w, t) /\ Flight(w, t) = Flight(q, t) \cup SeqsOf(c)
  BY <1>7, <1>8, <1>9, <1>10, <1>11 DEF InLine
<1> QED BY <1>4, <1>5, <1>6, <1>12, <1>13 DEF w

(* As many frames as sequence numbers. *)
LEMMA ChainCount ==
    ASSUME NEW c \in Seq(Frames), Distinct(c)
    PROVE  IsFiniteSet(SeqsOf(c)) /\ Cardinality(SeqsOf(c)) = Len(c)
<1> DEFINE L == Len(c)
           I == 1..L
           f == [i \in I |-> c[i].seq]
<1>1. L \in Nat /\ SeqsOf(c) = {c[i].seq : i \in I} BY DEF SeqsOf
<1>2. f \in Bijection(I, SeqsOf(c))
  <2>1. f \in [I -> SeqsOf(c)] /\ \A y \in SeqsOf(c) : \E i \in I : f[i] = y
    BY <1>1
  <2>2. \A i, j \in I : f[i] = f[j] => i = j BY DEF Distinct
  <2> QED BY <2>1, <2>2 DEF Bijection, Injection, Surjection, IsInjective
<1>3. IsFiniteSet(I) /\ Cardinality(I) = L
  <2>1. 1 \in Int /\ L \in Int /\ (IF 1 > L THEN 0 ELSE L - 1 + 1) = L BY <1>1
  <2> QED BY <2>1, FS_Interval
<1> QED BY <1>2, <1>3, FS_Bijection DEF ExistsBijection

(* The session's frames in the hardware queue can be counted. *)
LEMMA FlightFinite ==
    ASSUME NEW t, NEW q
    PROVE  IsFiniteSet(Flight(q, t)) /\ Cardinality(Flight(q, t)) \in Nat
           /\ (Cardinality(Flight(q, t)) = 0 <=> Flight(q, t) = {})
<1>1. IsFiniteSet(SeqNos) BY FS_Interval, Rings
<1>2. Flight(q, t) \subseteq SeqNos BY DEF Flight
<1>3. IsFiniteSet(Flight(q, t)) BY <1>1, <1>2, FS_Subset
<1> QED BY <1>3, FS_CardinalityType, FS_EmptySet

(* The chain at the head counts for its length. *)
LEMMA FlightHead ==
    ASSUME NEW t \in Tids, NEW q \in Seq(Chains), q # << >>, InLine(q, t), Session(Head(q), t)
    PROVE  /\ Cardinality(Flight(q, t)) = Len(Head(q)) + Cardinality(Flight(Tail(q), t))
           /\ Len(Head(q)) \in Nat /\ Len(Head(q)) >= 1
           /\ Cardinality(Flight(q, t)) \in Nat /\ Cardinality(Flight(Tail(q), t)) \in Nat
<1> DEFINE c == Head(q)
           A == SeqsOf(c)
           B == Flight(Tail(q), t)
           F == Flight(q, t)
<1>1. B = F \ A /\ A \subseteq F /\ Distinct(c) BY FlightTail
<1>2. c \in Chains BY TailParts
<1>3. Len(c) \in Nat /\ Len(c) >= 1 /\ c \in Seq(Frames) BY <1>2, ChainType
<1>4. IsFiniteSet(A) /\ Cardinality(A) = Len(c) BY <1>1, <1>3, ChainCount
<1>5. IsFiniteSet(B) /\ Cardinality(B) \in Nat /\ Cardinality(F) \in Nat
  BY FlightFinite
<1> HIDE DEF A, B, F, c
<1>6. A \cup B = F /\ A \cap B = {} BY <1>1
<1>7. Cardinality(F) = Cardinality(A) + Cardinality(B) - Cardinality({})
  BY <1>4, <1>5, <1>6, FS_Union
<1>8. Cardinality({}) = 0 BY FS_EmptySet
<1> QED BY <1>3, <1>4, <1>5, <1>7, <1>8 DEF A, B, F, c

(* The frames in flight of a session and their sequence numbers. *)
LEMMA ChainedCount ==
    ASSUME NEW s \in States, NEW t \in Tids, InLine(s.axq, t)
    PROVE  /\ {f.seq : f \in Chained(s, t)} = Flight(s.axq, t)
           /\ Cardinality(Chained(s, t)) = Cardinality(Flight(s.axq, t))
<1> DEFINE q == s.axq
           L == Len(q)
           C == Chained(s, t)
           F == Flight(q, t)
           g == [f \in C |-> f.seq]
<1>1. q \in Seq(Chains) /\ L \in Nat /\ \A i \in 1..L : q[i] \in Chains BY Types
<1>2. \A i \in 1..L : /\ q[i] \in Seq(Frames) /\ Len(q[i]) \in Nat /\ Len(q[i]) >= 1
                      /\ SeqsOf(q[i]) \subseteq SeqNos
                      /\ SeqsOf(q[i]) = {q[i][k].seq : k \in 1..Len(q[i])}
                      /\ Session(q[i], t) => q[i] \in Seq(OwnFrames(t))
                      /\ q[i][1].kind # "aggr" => Len(q[i]) = 1
  BY <1>1, ChainType
<1>3. \A i \in 1..L : ToSet(q[i]) = {q[i][k] : k \in 1..Len(q[i])}
  BY <1>2 DEF ToSet
<1>4. InFlight(s) = UNION {ToSet(q[i]) : i \in 1..L} BY <1>1 DEF InFlight
<1>5. ASSUME NEW f \in C
      PROVE  \E i \in 1..L : Session(q[i], t) /\ \E k \in 1..Len(q[i]) : q[i][k] = f
  <2>1. PICK i \in 1..L : f \in ToSet(q[i]) BY <1>4 DEF Chained
  <2>2. PICK k \in 1..Len(q[i]) : q[i][k] = f BY <1>3, <2>1
  <2>3. f.kind = "aggr" /\ f.tid = t BY DEF Chained
  <2>4. Session(q[i], t)
    <3>1. 1 \in 1..Len(q[i]) BY <1>2
    <3>2. CASE q[i][1].kind # "aggr"
      <4>1. k = 1 BY <1>2, <2>2, <3>2
      <4> QED BY <2>2, <2>3, <3>2, <4>1
    <3>3. CASE q[i][1].kind = "aggr"
      <4>1. q[i] \in Chains BY <1>1
      <4>2. PICK u \in Tids : q[i] \in Seq(OwnFrames(u))
        <5>1. q[i][1] \notin Singles BY <3>3 DEF Singles
        <5> QED BY <4>1, <5>1 DEF Chains
      <4>3. q[i][1] \in OwnFrames(u) /\ q[i][k] \in OwnFrames(u)
        BY <2>2, <3>1, <4>2
      <4> QED BY <2>2, <2>3, <3>3, <4>3 DEF OwnFrames, Session
    <3> QED BY <3>2, <3>3
  <2> QED BY <2>2, <2>4
<1>6. ASSUME NEW i \in 1..L, Session(q[i], t), NEW k \in 1..Len(q[i])
      PROVE  q[i][k] \in C
  <2>1. q[i][k] \in OwnFrames(t) BY <1>2, <1>6
  <2>2. q[i][k] \in InFlight(s) BY <1>3, <1>4
  <2> QED BY <2>1, <2>2 DEF Chained, OwnFrames
<1> HIDE DEF C, q, L
<1>7. \A f \in C : f.seq \in F
  <2>1. TAKE f \in C
  <2>2. PICK i \in 1..L : Session(q[i], t) /\ \E k \in 1..Len(q[i]) : q[i][k] = f
    BY <1>5
  <2>3. f.seq \in SeqsOf(q[i]) /\ f.seq \in SeqNos BY <1>2, <2>2
  <2> QED BY <2>2, <2>3 DEF Flight, L
<1>8. \A x \in F : \E f \in C : f.seq = x
  <2>1. TAKE x \in F
  <2>2. PICK i \in 1..L : Session(q[i], t) /\ x \in SeqsOf(q[i])
    BY DEF Flight, L
  <2>3. PICK k \in 1..Len(q[i]) : q[i][k].seq = x BY <1>2, <2>2
  <2> QED BY <1>6, <2>2, <2>3
<1>9. ASSUME NEW f \in C, NEW h \in C, f.seq = h.seq
      PROVE  f = h
  <2>1. PICK i \in 1..L : Session(q[i], t) /\ \E k \in 1..Len(q[i]) : q[i][k] = f
    BY <1>5
  <2>2. PICK j \in 1..L : Session(q[j], t) /\ \E k \in 1..Len(q[j]) : q[j][k] = h
    BY <1>5
  <2>3. f.seq \in SeqsOf(q[i]) /\ h.seq \in SeqsOf(q[j]) BY <1>2, <2>1, <2>2
  <2>4. Separate(q, t) BY DEF InLine, q
  <2>5. i = j BY <1>9, <2>1, <2>2, <2>3, <2>4 DEF Separate, L
  <2>6. Distinct(q[i]) BY <2>1, <2>4 DEF Separate, L
  <2>7. PICK k \in 1..Len(q[i]) : q[i][k] = f BY <2>1
  <2>8. PICK l \in 1..Len(q[i]) : q[i][l] = h BY <2>2, <2>5
  <2>9. k = l BY <1>9, <2>6, <2>7, <2>8 DEF Distinct
  <2> QED BY <2>7, <2>8, <2>9
<1> HIDE DEF F
<1>10. {f.seq : f \in C} = F BY <1>7, <1>8
<1>11. g \in Bijection(C, F)
  <2>1. g \in [C -> F] /\ \A y \in F : \E f \in C : g[f] = y BY <1>7, <1>8
  <2>2. \A f, h \in C : g[f] = g[h] => f = h BY <1>9
  <2> QED BY <2>1, <2>2 DEF Bijection, Injection, Surjection, IsInjective
<1>12. IsFiniteSet(F) BY FlightFinite DEF F
<1>13. g \in Injection(C, F) BY <1>11 DEF Bijection
<1>14. IsFiniteSet(C) BY <1>12, <1>13, FS_Injection
<1>15. Cardinality(F) = Cardinality(C)
  BY <1>11, <1>14, FS_Bijection DEF ExistsBijection
<1> QED BY <1>10, <1>15 DEF C, F, q
(* The sessions of a state. *)

(* What is in order stays so when an identifier is queued or taken off. *)
LEMMA TwinOk ==
    ASSUME NEW r \in TidStates, NEW u, Twin(u, r)
    PROVE  /\ \A X : TidOk(r, X) => TidOk(u, X)
           /\ \A q, t : NoNormal(r, q, t) => NoNormal(u, q, t)
           /\ \A q, t : Waits(r, q, t) => Waits(u, q, t)
           /\ \A q, t : TidSess(r, q, t) => TidSess(u, q, t)
<1>1. Alike(u, r) /\ u.aggr = r.aggr /\ u.cleanup = r.cleanup /\ u.incomp = r.incomp
      /\ u.paused = r.paused /\ u.buf_q = r.buf_q /\ u.bitmap = r.bitmap
  BY DEF Twin, Alike
<1>2. (\A X, m : InWindow(r, X, m) => InWindow(u, X, m)) /\ Span(u) = Span(r)
  BY <1>1, AlikeWindow
<1>3. \A X : Ended(r, X) => Ended(u, X) BY <1>1, <1>2 DEF Ended
<1>4. \A X : TidOk(r, X) => TidOk(u, X) BY <1>1, <1>2, <1>3 DEF TidOk
<1>5. \A q, t : NoNormal(r, q, t) => NoNormal(u, q, t) BY <1>1 DEF NoNormal
<1>6. \A q, t : Waits(r, q, t) => Waits(u, q, t) BY <1>1 DEF Waits
<1> QED BY <1>4, <1>5, <1>6 DEF TidSess

(* The same for all identifiers *)
LEMMA AsideOk ==
    ASSUME NEW s, NEW v, Aside(s, v)
    PROVE  /\ SessOk(s) => SessOk(v)
           /\ \A t \in Tids : \A Y : Owes(s, t, Y) => Owes(v, t, Y)
<1>1. v.axq = s.axq /\ \A t \in Tids : s.tid[t] \in TidStates /\ Twin(v.tid[t], s.tid[t])
  BY DEF Aside
<1>2. \A t \in Tids : TidSess(s.tid[t], s.axq, t) => TidSess(v.tid[t], v.axq, t)
  BY <1>1, TwinOk
<1>3. \A t \in Tids : NoNormal(s.tid[t], s.axq, t) => NoNormal(v.tid[t], v.axq, t)
  BY <1>1, TwinOk
<1>4. \A t \in Tids : \A Y : TidOk(s.tid[t], Y) => TidOk(v.tid[t], Y)
  BY <1>1, TwinOk
<1>5. SessOk(s) => SessOk(v) BY <1>2 DEF SessOk
<1>6. \A t \in Tids : \A Y : Owes(s, t, Y) => Owes(v, t, Y)
  BY <1>1, <1>2, <1>3, <1>4 DEF Owes
<1> QED BY <1>5, <1>6

(* Only the identifier whose chain completes changes. *)
LEMMA OwesOnly ==
    ASSUME NEW s, NEW v, NEW t \in Tids, OnlyTid(s, v, t), NEW Y, Owes(s, t, Y),
           NEW Z, TidOk(v.tid[t], Z), v.tid[t].aggr => s.tid[t].aggr
    PROVE  Owes(v, t, Z)
<1>1. NoNormal(v.tid[t], v.axq, t) BY DEF Owes, NoNormal, OnlyTid
<1>2. \A u \in Tids \ {t} : TidSess(v.tid[u], v.axq, u) BY DEF Owes, OnlyTid
<1> QED BY <1>1, <1>2 DEF Owes, OnlyTid

(* Nothing is owed when the frames in flight are those of the session. *)
LEMMA OwesAll ==
    ASSUME NEW s, NEW t \in Tids
    PROVE  /\ SessOk(s) => Owes(s, t, Flight(s.axq, t)) /\ Waits(s.tid[t], s.axq, t)
           /\ Owes(s, t, Flight(s.axq, t)) /\ Waits(s.tid[t], s.axq, t) => SessOk(s)
<1>1. SessOk(s) => Owes(s, t, Flight(s.axq, t)) /\ Waits(s.tid[t], s.axq, t)
  BY DEF SessOk, Owes, TidSess
<1>2. ASSUME Owes(s, t, Flight(s.axq, t)), Waits(s.tid[t], s.axq, t)
      PROVE  SessOk(s)
  <2>1. TidSess(s.tid[t], s.axq, t) BY <1>2 DEF Owes, TidSess
  <2>2. \A u \in Tids \ {t} : TidSess(s.tid[u], s.axq, u) BY <1>2 DEF Owes
  <2> QED BY <2>1, <2>2 DEF SessOk
<1> QED BY <1>1, <1>2

(* A chain of another identifier, or of none, is added or taken off. *)
LEMMA OtherAppend ==
    ASSUME NEW u \in Tids, NEW q \in Seq(Chains), NEW c \in Chains, c[1].tid # u,
           NEW r, TidSess(r, q, u)
    PROVE  TidSess(r, Append(q, c), u)
<1>1. InLine(q, u) /\ ~Session(c, u) BY DEF TidSess, Session
<1>2. /\ InLine(Append(q, c), u) /\ Flight(Append(q, c), u) = Flight(q, u)
      /\ \A k : Has(q, u, k) => Has(Append(q, c), u, k)
      /\ \A k : Has(Append(q, c), u, k) => Has(q, u, k) \/ (c[1].kind = k /\ c[1].tid = u)
  BY <1>1, FlightAppend
<1>3. TidOk(r, Flight(Append(q, c), u)) BY <1>2 DEF TidSess
<1>4. NoNormal(r, Append(q, c), u) BY <1>2 DEF TidSess, NoNormal
<1>5. Waits(r, Append(q, c), u) BY <1>2 DEF TidSess, Waits
<1> QED BY <1>2, <1>3, <1>4, <1>5 DEF TidSess

(* The identifiers that a completion is not for see no difference. *)
LEMMA OtherTail ==
    ASSUME NEW u \in Tids, NEW q \in Seq(Chains), q # << >>, Head(q)[1].tid # u,
           NEW r, TidSess(r, q, u)
    PROVE  TidSess(r, Tail(q), u)
<1>1. InLine(q, u) /\ ~Session(Head(q), u) BY DEF TidSess, Session
<1>2. /\ InLine(Tail(q), u) /\ Flight(Tail(q), u) = Flight(q, u)
      /\ \A k : Has(Tail(q), u, k) => Has(q, u, k)
      /\ \A k : Has(q, u, k) => Has(Tail(q), u, k) \/ (Head(q)[1].kind = k /\ Head(q)[1].tid = u)
  BY <1>1, FlightTail
<1>3. TidOk(r, Flight(Tail(q), u)) BY <1>2 DEF TidSess
<1>4. NoNormal(r, Tail(q), u) BY <1>2 DEF TidSess, NoNormal
<1>5. Waits(r, Tail(q), u) BY <1>2 DEF TidSess, Waits
<1> QED BY <1>2, <1>3, <1>4, <1>5 DEF TidSess

(* A chain of t is added. *)
LEMMA OwesAppend ==
    ASSUME NEW s \in States, NEW t \in Tids, NEW Y, Owes(s, t, Y), NEW c \in Chains, c[1].tid = t
    PROVE  LET v == TxqAdd(s, c)
           IN  /\ v.tid = s.tid /\ v.axq = Append(s.axq, c)
               /\ c[1].kind \notin {"aggr", "normal"}
                    => Owes(v, t, Y) /\ Flight(v.axq, t) = Flight(s.axq, t)
               /\ c[1].kind = "normal" /\ ~s.tid[t].aggr
                    => Owes(v, t, Y) /\ Flight(v.axq, t) = Flight(s.axq, t)
               /\ c[1].kind = "aggr" /\ s.tid[t].aggr /\ Distinct(c)
                  /\ SeqsOf(c) \cap Flight(s.axq, t) = {}
                    => Owes(v, t, Y) /\ Flight(v.axq, t) = Flight(s.axq, t) \cup SeqsOf(c)
               /\ Waits(s.tid[t], s.axq, t) => Waits(v.tid[t], v.axq, t)
               /\ c[1].kind = "bar" => Waits(v.tid[t], v.axq, t)
<1> DEFINE v == TxqAdd(s, c)
           q == s.axq
           w == Append(q, c)
<1>1. q \in Seq(Chains) BY Types
<1>2. v.tid = s.tid /\ v.axq = w BY DEF TxqAdd, States
<1>3. /\ \A u \in Tids \ {t} : TidSess(s.tid[u], q, u)
      /\ InLine(q, t) /\ TidOk(s.tid[t], Y) /\ NoNormal(s.tid[t], q, t)
  BY DEF Owes
<1>4. /\ \A k : Has(q, t, k) => Has(w, t, k)
      /\ \A k : Has(w, t, k) => Has(q, t, k) \/ c[1].kind = k
      /\ \A k : c[1].kind = k => Has(w, t, k)
      /\ ~Session(c, t) => InLine(w, t) /\ Flight(w, t) = Flight(q, t)
      /\ Session(c, t) /\ Distinct(c) /\ SeqsOf(c) \cap Flight(q, t) = {} /\ ~Has(q, t, "normal")
         => InLine(w, t) /\ Flight(w, t) = Flight(q, t) \cup SeqsOf(c)
  BY <1>1, <1>3, FlightAppend
<1>5. \A u \in Tids \ {t} : TidSess(s.tid[u], w, u) BY <1>1, <1>3, OtherAppend
<1> HIDE DEF v, w, q
<1>6. Waits(s.tid[t], q, t) => Waits(s.tid[t], w, t) BY <1>4 DEF Waits
<1>7. c[1].kind = "bar" => Waits(s.tid[t], w, t) BY <1>4 DEF Waits
<1>8. c[1].kind # "normal" => NoNormal(s.tid[t], w, t)
  BY <1>3, <1>4 DEF NoNormal
<1>9. ~s.tid[t].aggr => NoNormal(s.tid[t], w, t) BY DEF NoNormal
<1>10. InLine(w, t) /\ NoNormal(s.tid[t], w, t) => Owes(v, t, Y)
  BY <1>2, <1>3, <1>5 DEF Owes
<1>11. Session(c, t) <=> c[1].kind = "aggr" BY DEF Session
<1>12. c[1].kind \notin {"aggr", "normal"} => Owes(v, t, Y) /\ Flight(w, t) = Flight(q, t)
  BY <1>4, <1>8, <1>10, <1>11
<1>13. c[1].kind = "normal" /\ ~s.tid[t].aggr => Owes(v, t, Y) /\ Flight(w, t) = Flight(q, t)
  BY <1>4, <1>9, <1>10, <1>11
<1>14. s.tid[t].aggr => ~Has(q, t, "normal") BY <1>3 DEF NoNormal
<1>15. c[1].kind = "aggr" /\ s.tid[t].aggr /\ Distinct(c) /\ SeqsOf(c) \cap Flight(q, t) = {}
         => Owes(v, t, Y) /\ Flight(w, t) = Flight(q, t) \cup SeqsOf(c)
  BY <1>4, <1>8, <1>10, <1>11, <1>14
<1> QED BY <1>2, <1>6, <1>7, <1>12, <1>13, <1>15 DEF v, w, q

(* The chain at the head of the hardware queue is taken off. *)
LEMMA RestOwes ==
    ASSUME NEW s \in States, SessOk(s), s.axq # << >>
    PROVE  LET c == Head(s.axq)
               v == Rest(s)
           IN  /\ v.tid = s.tid /\ v.axq = Tail(s.axq)
               /\ c[1].tid \notin Tids => SessOk(v)
               /\ \A t \in Tids : c[1].tid = t => Leaves(c, t, Flight(s.axq, t), v)
<1> DEFINE c == Head(s.axq)
           v == Rest(s)
           q == s.axq
           w == Tail(q)
<1>1. q \in Seq(Chains) /\ q # << >> BY Types
<1>2. v.tid = s.tid /\ v.axq = w BY DEF Rest, States
<1>3. \A u \in Tids : TidSess(s.tid[u], q, u) BY DEF SessOk
<1>4. \A u \in Tids : c[1].tid # u => TidSess(s.tid[u], w, u)
  BY <1>1, <1>3, OtherTail
<1>5. c[1].tid \notin Tids => SessOk(v) BY <1>2, <1>4 DEF SessOk
<1>6. ASSUME NEW t \in Tids, c[1].tid = t
      PROVE  Leaves(c, t, Flight(q, t), v)
  <2>1. InLine(q, t) /\ TidOk(s.tid[t], Flight(q, t)) /\ NoNormal(s.tid[t], q, t)
        /\ Waits(s.tid[t], q, t)
    BY <1>3 DEF TidSess
  <2>2. /\ InLine(w, t)
        /\ \A k : Has(w, t, k) => Has(q, t, k)
        /\ \A k : Has(q, t, k) => Has(w, t, k) \/ c[1].kind = k
        /\ ~Session(c, t) => Flight(w, t) = Flight(q, t)
        /\ Session(c, t) => /\ Flight(w, t) = Flight(q, t) \ SeqsOf(c)
                            /\ SeqsOf(c) \subseteq Flight(q, t)
                            /\ Distinct(c)
        /\ c[1].kind = "normal" /\ c[1].tid = t => Flight(q, t) = {}
    BY <1>1, <2>1, FlightTail
  <2>3. NoNormal(s.tid[t], w, t) BY <2>1, <2>2 DEF NoNormal
  <2>4. c[1].kind # "bar" => Waits(s.tid[t], w, t) BY <2>1, <2>2 DEF Waits
  <2>5. Has(q, t, c[1].kind)
    <3>1. 1 \in 1..Len(q) /\ q[1] = c BY <1>1, TailParts
    <3> QED BY <1>6, <3>1 DEF Has
  <2>6. c[1].kind = "normal" => ~s.tid[t].aggr BY <2>1, <2>5 DEF NoNormal
  <2>7. Owes(v, t, Flight(q, t)) BY <1>2, <1>4, <1>6, <2>1, <2>2, <2>3 DEF Owes
  <2>8. Session(c, t) <=> c[1].kind = "aggr" BY <1>6 DEF Session
  <2> HIDE DEF c, v, q, w
  <2> QED BY <1>2, <1>6, <2>2, <2>4, <2>6, <2>7, <2>8 DEF Leaves
<1> QED BY <1>2, <1>5, <1>6

-----------------------------------------------------------------------------
(* The operators keep every identifier in order. *)

(* Put changes one identifier and no queue of the hardware. *)
LEMMA PutTid ==
    ASSUME NEW s \in States, NEW n, NEW t \in Tids, NEW r
    PROVE  /\ Put(s, n, t, r).tid[t] = r /\ Put(s, n, t, r).axq = s.axq
           /\ OnlyTid(s, Put(s, n, t, r), t)
<1>1. s.tid \in [Tids -> TidStates] BY Types DEF TidMap
<1>2. Put(s, n, t, r).tid = [s.tid EXCEPT ![t] = r] /\ Put(s, n, t, r).axq = s.axq
  BY DEF Put, Release, States
<1> QED BY <1>1, <1>2 DEF OnlyTid

(* What that leaves alone *)
LEMMA SetAs ==
    ASSUME NEW s \in States, NEW t \in Tids, NEW r, NEW v, Sets(v, s, t, r)
    PROVE  v.tid[t] = r /\ v.axq = s.axq /\ OnlyTid(s, v, t)
<1>1. s.tid \in [Tids -> TidStates] BY Types DEF TidMap
<1>2. v.tid = [s.tid EXCEPT ![t] = r] /\ v.axq = s.axq BY DEF States, Sets
<1> QED BY <1>1, <1>2 DEF OnlyTid

(* ath_tgt_tx_enqueue touches no session. *)
LEMMA EnqueueAside ==
    ASSUME NEW s \in States, NEW t \in Tids
    PROVE  Aside(s, Enqueue(s, t))
<1> DEFINE v == Enqueue(s, t)
<1>1. v.axq = s.axq BY EnqueueKeeps
<1>2. \A u \in Tids : s.tid[u] \in TidStates BY Types
<1>3. ASSUME NEW u \in Tids
      PROVE  Twin(v.tid[u], s.tid[u])
  <2>1. s.tid[u] \in TidStates BY <1>2
  <2>2. Twin(s.tid[u], s.tid[u]) BY <2>1 DEF Twin, Alike
  <2>3. CASE s.tid[t].paused \/ s.tid[t].sched BY <2>2, <2>3 DEF Enqueue
  <2>4. CASE ~(s.tid[t].paused \/ s.tid[t].sched)
    <3> DEFINE r == [s.tid[t] EXCEPT !.sched = TRUE]
    <3>1. v = [s EXCEPT !.tid[t] = r, !.tidq = Append(@, t)]
      BY <2>4 DEF Enqueue, States
    <3>2. s.tid \in [Tids -> TidStates] BY Types DEF TidMap
    <3>3. v.tid[u] = IF u = t THEN r ELSE s.tid[u] BY <3>1, <3>2 DEF States
    <3>4. Twin(r, s.tid[t])
      <4>1. s.tid[t] \in TidStates BY <1>2
      <4> QED BY <4>1 DEF Twin, Alike, TidStates
    <3> HIDE DEF r, v
    <3> QED BY <2>2, <3>3, <3>4
  <2> QED BY <2>3, <2>4
<1> QED BY <1>1, <1>2, <1>3 DEF Aside

(* Nor does taking identifiers off axq_tidq. *)
LEMMA UnlinkAside ==
    ASSUME NEW s \in States, NEW n \in 0..Len(s.tidq)
    PROVE  Aside(s, Unlink(s, n))
<1> DEFINE v == Unlink(s, n)
<1>1. v.axq = s.axq BY UnlinkKeeps
<1>2. \A u \in Tids : s.tid[u] \in TidStates BY Types
<1>3. ASSUME NEW u \in Tids
      PROVE  Twin(v.tid[u], s.tid[u])
  <2>1. s.tid[u] \in TidStates BY <1>2
  <2>2. Twin(s.tid[u], s.tid[u]) /\ Twin([s.tid[u] EXCEPT !.sched = FALSE], s.tid[u])
    BY <2>1 DEF Twin, Alike, TidStates
  <2>3. v.tid[u] \in {s.tid[u], [s.tid[u] EXCEPT !.sched = FALSE]}
    BY DEF Unlink, States
  <2> QED BY <2>2, <2>3
<1> QED BY <1>1, <1>2, <1>3 DEF Aside

(* Nor does giving up buffers. *)
LEMMA ReleaseAside ==
    ASSUME NEW s \in States, NEW n
    PROVE  Aside(s, Release(s, n))
<1>1. Release(s, n).axq = s.axq /\ Release(s, n).tid = s.tid
  BY DEF Release, States
<1>2. \A u \in Tids : s.tid[u] \in TidStates BY Types
<1>3. \A u \in Tids : Twin(s.tid[u], s.tid[u]) BY <1>2 DEF Twin, Alike
<1> QED BY <1>1, <1>2, <1>3 DEF Aside

(* One identifier gets a new record. *)
LEMMA SetsBeside ==
    ASSUME NEW s \in States, NEW t \in Tids, NEW r, NEW v, Sets(v, s, t, r)
    PROVE  Beside(s, v, t) /\ v.tid[t] = r
<1>1. s.tid \in [Tids -> TidStates] BY Types DEF TidMap
<1>2. v.tid = [s.tid EXCEPT ![t] = r] /\ v.tidq = s.tidq BY DEF States, Sets
<1> QED BY <1>1, <1>2 DEF Beside

(* The same, with buffers released *)
LEMMA PutBeside ==
    ASSUME NEW s \in States, NEW n, NEW t \in Tids, NEW r
    PROVE  Beside(s, Put(s, n, t, r), t) /\ Put(s, n, t, r).tid[t] = r
<1>1. s.tid \in [Tids -> TidStates] BY Types DEF TidMap
<1>2. Put(s, n, t, r).tid = [s.tid EXCEPT ![t] = r] /\ Put(s, n, t, r).tidq = s.tidq
  BY DEF Put, Release, States
<1> QED BY <1>1, <1>2 DEF Beside

(* A window that holds frames is not empty. *)
LEMMA HeldLead ==
    ASSUME NEW r, NEW U, Holds(r, U), U # {}
    PROVE  Lead(r)
BY DEF Holds, Lead

(* A window with a frame in flight or to retry *)
LEMMA WindowLead ==
    ASSUME NEW r, NEW X, NEW m, InWindow(r, X, m), X # {} \/ Again(r) # {}
    PROVE  Lead(r)
<1>1. Holds(r, X \cup Again(r)) /\ X \cup Again(r) # {} BY DEF InWindow
<1> HIDE DEF InWindow
<1> QED BY <1>1, HeldLead

(* A turn of the scheduler: the window has a frame afterwards. *)
LEMMA SchedIs ==
    ASSUME NEW s \in States, SessOk(s), NEW t \in Tids, NEW lim \in Limits
    PROVE  \/ SchedTid(s, t, lim) = s
           \/ \E mid \in States, chain \in Chains : Turns(s, t, mid, chain, SchedTid(s, t, lim))
<1> DEFINE r == s.tid[t]
           q == r.buf_q
           n == SchedCount(r, lim)
           chain == SubSeq(q, 1, n)
           v == SchedTid(s, t, lim)
           X == Flight(s.axq, t)
<1>1. OwnQueue(r, t) /\ r \in TidStates /\ q \in Seq(OwnFrames(t)) /\ Len(q) \in Nat
  BY Types
<1>2. n \in 0..Len(q) BY <1>1, SchedCountType
<1>3. TidOk(r, X) BY OwesAll DEF Owes
<1>4. CASE n = 0
  <2>1. v = s BY <1>4 DEF SchedTid, SchedCount
  <2> QED BY <2>1
<1>5. CASE n # 0
  <2>1. r.aggr
    <3>1. ASSUME ~r.aggr
          PROVE  FALSE
      <4>1. q = << >> BY <1>3, <3>1 DEF TidOk, Ended
      <4>2. Len(q) = 0 BY <4>1
      <4> HIDE DEF q, n
      <4> QED BY <1>2, <1>5, <4>2
    <3> QED BY <3>1
  <2> DEFINE x == SendFrom(r, n)
             mid == [s EXCEPT !.tid[t] = x]
  <2>2. v = TxqAdd(mid, chain) BY <1>5, <2>1 DEF SchedTid, SchedCount, SendFrom
  <2>3. PICK m \in Nat : InWindow(r, X, m) BY <1>3, <2>1 DEF TidOk
  <2>4. \A i \in 1..n : BawWithin(r.seq_start, q[i].seq)
    BY <1>1, <2>1, FormAggrType DEF SchedCount
  <2> HIDE DEF n, r, q, X
  <2> HIDE DEF v
  <2>5. /\ Distinct(chain) /\ SeqsOf(chain) \cap X = {}
        /\ \E e \in Nat : InWindow(x, X \cup SeqsOf(chain), e)
        /\ OwnQueue(x, t)
    BY <1>1, <1>2, <2>3, <2>4, SendWindow DEF q
  <2>6. chain \in Seq(OwnFrames(t)) /\ Len(chain) = n BY <1>1, <1>2, Part
  <2>7. chain # << >> /\ chain \in Chains
    <3> HIDE DEF chain
    <3>1. chain # << >> BY <1>2, <1>5, <2>6
    <3> QED BY <2>6, <3>1, OwnChain
  <2>8. Session(chain, t) /\ SeqsOf(chain) # {}
    <3> HIDE DEF chain
    <3>1. chain[1] \in OwnFrames(t) BY <2>6, <2>7
    <3>2. 1 \in DOMAIN chain BY <1>2, <1>5, <2>6
    <3> QED BY <3>1, <3>2 DEF OwnFrames, Session, SeqsOf
  <2>9. x \in TidStates /\ x.aggr = r.aggr /\ x.cleanup = r.cleanup /\ x.incomp = r.incomp
        /\ x.paused = r.paused /\ x.sched = r.sched /\ x.reinit = r.reinit
    <3> DEFINE w == AddAllToBaw(r, chain)
               rest == SubSeq(w.buf_q, n + 1, Len(w.buf_q))
    <3>1. chain \in Seq(Frames) BY <2>6, OwnFramesType
    <3>2. w \in TidStates /\ SameQueue(w, r)
      <4> HIDE DEF chain
      <4> QED BY <1>1, <3>1, AddAllType DEF Windows
    <3>3. x = [w EXCEPT !.buf_q = rest] /\ x \in TidStates
      BY <2>5 DEF SendFrom, OwnQueue, q
    <3> HIDE DEF w, rest, x
    <3> QED BY <3>2, <3>3 DEF SameQueue, TidStates
  <2>10. mid \in States
    <3>1. Follows(s, t, x) BY <2>5, <2>9 DEF Follows, NoReinit, r
    <3> HIDE DEF x
    <3>2. Put(s, 0, t, x) \in States /\ 0 \in Nat BY <3>1, PutKeeps
    <3> QED BY <3>2, PutZero
  <2> HIDE DEF x, chain
  <2>11. mid.tid[t] = x /\ OnlyTid(s, mid, t) /\ Beside(s, mid, t)
    <3>1. Sets(mid, s, t, x) BY DEF Sets
    <3> HIDE DEF mid
    <3> QED BY <3>1, SetAs, SetsBeside
  <2> HIDE DEF mid
  <2>12. TidOk(x, X \cup SeqsOf(chain)) BY <1>3, <2>1, <2>5, <2>9 DEF TidOk
  <2>13. Lead(x)
    <3>1. PICK e \in Nat : InWindow(x, X \cup SeqsOf(chain), e) BY <2>5
    <3> QED BY <2>8, <3>1, WindowLead
  <2>14. Turns(s, t, mid, chain, v)
    BY <2>1, <2>2, <2>5, <2>8, <2>9, <2>11, <2>12, <2>13 DEF Turns, X, r, v
  <2> QED BY <2>7, <2>10, <2>14 DEF v
<1> QED BY <1>4, <1>5

(* ... It keeps every identifier in order. *)
LEMMA SchedSess ==
    ASSUME NEW s \in States, SessOk(s), NEW t \in Tids, NEW lim \in Limits
    PROVE  SessOk(SchedTid(s, t, lim))
<1> SUFFICES ASSUME NEW mid \in States, NEW chain \in Chains,
                    Turns(s, t, mid, chain, SchedTid(s, t, lim))
             PROVE  SessOk(SchedTid(s, t, lim))
  BY SchedIs
<1> DEFINE r == s.tid[t]
           X == Flight(s.axq, t)
           x == mid.tid[t]
           Y == X \cup SeqsOf(chain)
           z == TxqAdd(mid, chain)
<1>1. SchedTid(s, t, lim) = z BY DEF Turns
<1>2. Owes(s, t, X) /\ Waits(r, s.axq, t) BY OwesAll
<1>3. /\ Distinct(chain) /\ SeqsOf(chain) \cap X = {} /\ chain[1].kind = "aggr" /\ chain[1].tid = t
      /\ x.aggr /\ r.aggr /\ x.cleanup = r.cleanup /\ x.paused = r.paused
      /\ TidOk(x, Y) /\ OnlyTid(s, mid, t) /\ mid.axq = s.axq
  BY DEF Turns, Session, OnlyTid
<1> HIDE DEF X, r
<1>4. Owes(mid, t, Y) BY <1>2, <1>3, OwesOnly DEF r
<1>5. Waits(x, mid.axq, t) BY <1>2, <1>3 DEF Waits
<1>6. /\ z.tid = mid.tid
      /\ Owes(z, t, Y) /\ Flight(z.axq, t) = Flight(mid.axq, t) \cup SeqsOf(chain)
      /\ Waits(z.tid[t], z.axq, t)
  <2>1. SeqsOf(chain) \cap Flight(mid.axq, t) = {} BY <1>3 DEF X
  <2> HIDE DEF z
  <2> QED BY <1>3, <1>4, <1>5, <2>1, OwesAppend DEF z
<1> HIDE DEF z
<1>7. Owes(z, t, Flight(z.axq, t)) BY <1>3, <1>6 DEF X
<1> QED BY <1>6, <1>7, <1>1, OwesAll

(* ath_tgt_txq_schedule keeps every identifier in order. *)
LEMMA ScheduleSess ==
    ASSUME NEW s \in States, SessOk(s), NEW lim \in Limits
    PROVE  SessOk(Schedule(s, lim))
<1> DEFINE N == Len(s.tidq)
           ready == {i \in 1..N : ~s.tid[s.tidq[i]].paused}
           n == IF ready = {} THEN N ELSE Min(ready)
           t == s.tidq[n]
           u == Unlink(s, n)
           sent == SchedTid(u, t, lim)
           v == Schedule(s, lim)
<1>1. v = CASE ready = {} -> u
            [] ready # {} /\ sent.tid[t].buf_q # << >> -> Enqueue(sent, t)
            [] OTHER -> sent
  BY DEF Schedule
<1>2. N \in Nat /\ s.tidq \in Seq(Tids) BY Types
<1>3. n \in 0..N /\ (ready # {} => n \in 1..N)
  <2>1. ready \in SUBSET Nat /\ ready \subseteq 1..N BY <1>2
  <2>2. ready # {} => Min(ready) \in ready BY <2>1, MinOf
  <2> HIDE DEF ready
  <2>3. CASE ready = {} BY <1>2, <2>3
  <2>4. CASE ready # {}
    <3>1. n = Min(ready) /\ Min(ready) \in 1..N BY <2>1, <2>2, <2>4
    <3> HIDE DEF n
    <3> QED BY <1>2, <2>4, <3>1
  <2> QED BY <2>3, <2>4
<1> HIDE DEF v, n
<1>4. u \in States /\ Aside(s, u) BY <1>3, UnlinkKeeps, UnlinkAside
<1> HIDE DEF u
<1>5. SessOk(u) BY <1>4, AsideOk
<1>6. CASE ready = {}
  <2>1. v = u BY <1>1, <1>6, Zenon
  <2> QED BY <1>5, <2>1 DEF v
<1>7. CASE ready # {}
  <2>1. t \in Tids BY <1>2, <1>3, <1>7
  <2> HIDE DEF t, ready
  <2>2. sent \in States /\ SessOk(sent)
    BY <1>4, <1>5, <2>1, SchedKeeps, SchedSess
  <2> HIDE DEF sent
  <2>3. SessOk(Enqueue(sent, t)) BY <2>1, <2>2, EnqueueAside, AsideOk
  <2>4. v = sent \/ v = Enqueue(sent, t) BY <1>1, <1>7, Zenon
  <2> QED BY <2>2, <2>3, <2>4 DEF v
<1> QED BY <1>6, <1>7

(* ath_aggr_resume_tid: a pause needs no reason any more. *)
LEMMA ResumeSess ==
    ASSUME NEW s \in States, NEW t \in Tids, Owes(s, t, Flight(s.axq, t)), NEW lim \in Limits
    PROVE  SessOk(ResumeTid(s, t, lim))
<1> DEFINE r == s.tid[t]
           x == [r EXCEPT !.paused = FALSE]
           a == [s EXCEPT !.tid[t].paused = FALSE]
           b == Enqueue(a, t)
           c == Schedule(b, lim)
           X == Flight(s.axq, t)
<1>1. ResumeTid(s, t, lim) = IF r.buf_q = << >> THEN a ELSE c BY DEF ResumeTid
<1>2. r \in TidStates BY Types
<1>3. a = [s EXCEPT !.tid[t] = x] BY Types DEF States, TidMap
<1>4. x.aggr = r.aggr /\ ~x.paused /\ Alike(x, r) /\ x.cleanup = r.cleanup /\ x.incomp = r.incomp
      /\ x.buf_q = r.buf_q /\ x.bitmap = r.bitmap
  BY <1>2 DEF Alike, TidStates
<1>5. TidOk(x, X)
  <2>1. TidOk(r, X) BY DEF Owes
  <2>2. (\A m : InWindow(r, X, m) => InWindow(x, X, m)) /\ Span(x) = Span(r)
    BY <1>2, <1>4, AlikeWindow
  <2> HIDE DEF x, X, r
  <2>3. Ended(r, X) => Ended(x, X) BY <1>4, <2>2 DEF Ended
  <2> QED BY <1>4, <2>1, <2>2, <2>3 DEF TidOk
<1>6. a \in States BY FlagsKeep
<1> HIDE DEF x
<1>7. a.tid[t] = x /\ OnlyTid(s, a, t) /\ a.axq = s.axq
  <2> HIDE DEF a
  <2>1. Sets(a, s, t, x) BY <1>3 DEF Sets
  <2> QED BY <2>1, SetAs
<1> HIDE DEF a
<1>8. Owes(a, t, X)
  <2>1. a.tid[t].aggr => s.tid[t].aggr BY <1>4, <1>7
  <2> QED BY <1>5, <1>7, <2>1, OwesOnly
<1>9. SessOk(a)
  <2>1. Waits(a.tid[t], a.axq, t) BY <1>4, <1>7 DEF Waits
  <2> QED BY <1>7, <1>8, <2>1, OwesAll
<1>10. b \in States /\ SessOk(b)
  BY <1>6, <1>9, EnqueueKeeps, EnqueueAside, AsideOk
<1> HIDE DEF b
<1>11. SessOk(c) BY <1>10, ScheduleSess
<1> HIDE DEF c
<1> QED BY <1>1, <1>9, <1>11

(* A pause changes nothing else of a session. *)
LEMMA MateOk ==
    ASSUME NEW r \in TidStates, NEW u, Mate(u, r), NEW X, TidOk(r, X)
    PROVE  TidOk(u, X)
<1>1. (\A m : InWindow(r, X, m) => InWindow(u, X, m)) /\ Span(u) = Span(r)
  BY AlikeWindow DEF Mate
<1>2. /\ u.aggr = r.aggr /\ u.cleanup = r.cleanup /\ u.incomp = r.incomp
      /\ u.buf_q = r.buf_q /\ u.bitmap = r.bitmap
  BY DEF Mate, Alike
<1>3. Ended(r, X) => Ended(u, X) BY <1>1, <1>2 DEF Ended
<1> QED BY <1>1, <1>2, <1>3 DEF TidOk

(* ath_aggr_pause_tid. *)
LEMMA PauseOwes ==
    ASSUME NEW s \in States, NEW t \in Tids, NEW Y, Owes(s, t, Y)
    PROVE  /\ PauseTid(s, t).axq = s.axq /\ Owes(PauseTid(s, t), t, Y)
           /\ PauseTid(s, t).tid[t] = [s.tid[t] EXCEPT !.paused = TRUE]
<1> DEFINE r == s.tid[t]
           x == [r EXCEPT !.paused = TRUE]
           v == PauseTid(s, t)
<1>1. r \in TidStates BY Types
<1>2. v = [s EXCEPT !.tid[t] = x] BY Types DEF States, TidMap, PauseTid
<1>3. Mate(x, r) BY <1>1 DEF Mate, Alike, TidStates
<1>4. TidOk(x, Y) /\ x.aggr = r.aggr
  <2>1. TidOk(r, Y) BY DEF Owes
  <2> HIDE DEF x, r
  <2> QED BY <1>1, <1>3, <2>1, MateOk DEF Mate
<1>5. v.tid[t] = x /\ OnlyTid(s, v, t) /\ v.axq = s.axq
  <2> HIDE DEF x, v
  <2>1. Sets(v, s, t, x) BY <1>2 DEF Sets
  <2> QED BY <2>1, SetAs
<1> HIDE DEF x, v
<1>6. v.tid[t].aggr => s.tid[t].aggr BY <1>4, <1>5
<1>7. Owes(v, t, Y) BY <1>4, <1>5, <1>6, OwesOnly
<1> QED BY <1>5, <1>7 DEF x, v

(* ath_bar_tx. *)
LEMMA BarTxOwes ==
    ASSUME NEW s \in States, NEW t \in Tids, NEW f \in OwnFrames(t), NEW Y, Owes(s, t, Y)
    PROVE  LET v == BarTx(s, t, f)
           IN  Owes(v, t, Y) /\ Flight(v.axq, t) = Flight(s.axq, t) /\ Waits(v.tid[t], v.axq, t)
<1> DEFINE b == [f EXCEPT !.kind = "bar", !.seq = s.tid[t].seq_start]
           c == <<b>>
           p == PauseTid(s, t)
           v == BarTx(s, t, f)
<1>1. b \in Frames /\ b.kind = "bar" /\ b.tid = t
  <2>1. s.tid[t].seq_start \in SeqNos BY Types DEF TidStates
  <2> QED BY <2>1 DEF OwnFrames, Frames
<1>2. v = TxqAdd(p, c) BY DEF BarTx
<1> HIDE DEF b
<1>3. c \in Chains /\ c[1] = b BY <1>1 DEF Chains, Singles
<1>4. p \in States BY PauseKeeps
<1>5. Owes(p, t, Y) /\ p.axq = s.axq BY PauseOwes
<1> HIDE DEF c, p, v
<1> DEFINE z == TxqAdd(p, c)
<1>6. Owes(z, t, Y) /\ Flight(z.axq, t) = Flight(p.axq, t) /\ Waits(z.tid[t], z.axq, t)
  <2>1. c[1].tid = t /\ c[1].kind = "bar" /\ c[1].kind \notin {"aggr", "normal"}
    BY <1>1, <1>3
  <2> HIDE DEF z
  <2> QED BY <1>3, <1>4, <1>5, <2>1, OwesAppend DEF z
<1> QED BY <1>2, <1>5, <1>6 DEF v

(* The types after ath_tgt_tx_cleanup, whatever the window held *)
LEMMA ClosedShape ==
    ASSUME NEW r \in TidStates
    PROVE  /\ Closed(r) \in TidStates /\ Closed(r).buf_q = << >> /\ Closed(r).aggr = r.aggr
           /\ Closed(r).reinit = r.reinit /\ Closed(r).sched = r.sched
<1> DEFINE w == UpdateBawFor(r, r.buf_q, Waiting(r))
           c == CloseBaw(w)
           n == r.incomp + Cardinality(Busy(w))
           b == r.cleanup \/ Busy(w) # {}
           u == Closed(r)
<1>1. w \in Windows(r)
  <2>1. r.buf_q \in Seq(Frames) BY DEF TidStates
  <2> QED BY <2>1, UpdateType
<1> HIDE DEF w
<1>2. w \in TidStates /\ SameQueue(w, r) /\ 0 \in SeqNos
  BY <1>1, RingTypes DEF Windows
<1>3. c \in TidStates /\ SameQueue(c, w) BY <1>2, BawTypes DEF Windows
<1>4. n \in Int /\ b \in BOOLEAN /\ << >> \in Seq(Frames)
  <2>1. Cardinality(Busy(w)) \in Nat /\ r.incomp \in Int /\ r.cleanup \in BOOLEAN
    BY <1>2, SpanType DEF TidStates
  <2> QED BY <2>1
<1> HIDE DEF c
<1>5. u = [c EXCEPT !.buf_q = << >>, !.incomp = n, !.cleanup = b]
  BY <1>2, <1>3 DEF Closed, SameQueue, c, w
<1> HIDE DEF n, b, u
<1>6. u \in TidStates /\ u.buf_q = << >> /\ u.aggr = c.aggr /\ u.reinit = c.reinit /\ u.sched = c.sched
  BY <1>3, <1>4, <1>5 DEF TidStates
<1> QED BY <1>2, <1>3, <1>6 DEF SameQueue, u

(* Changes of one identifier compose. *)
LEMMA OnlyTrans ==
    ASSUME NEW s, NEW v, NEW u, NEW t, OnlyTid(s, v, t), OnlyTid(v, u, t)
    PROVE  OnlyTid(s, u, t)
BY DEF OnlyTid

(* ath_tgt_delba_send, and the end of aggregation asked for by the host. *)
LEMMA DelbaIs ==
    ASSUME NEW s \in States, NEW t \in Tids, Owes(s, t, Flight(s.axq, t)), NEW lim \in Limits
    PROVE  \E p \in States : Ends(s, t, lim, p, DelbaSend(s, t, lim))
<1> DEFINE X == Flight(s.axq, t)
           r == s.tid[t]
           y == [r EXCEPT !.aggr = FALSE]
           a == [s EXCEPT !.tid[t].aggr = FALSE]
           x == Closed(y)
           p == Put(a, Len(y.buf_q), t, x)
           b == PauseTid(p, t)
           v == DelbaSend(s, t, lim)
<1>1. r \in TidStates /\ OwnQueue(r, t) BY Types
<1>2. a = [s EXCEPT !.tid[t] = y] BY Types DEF States, TidMap
<1>3. /\ Alike(y, r) /\ y \in TidStates /\ ~y.aggr /\ y.cleanup = r.cleanup /\ y.incomp = r.incomp
      /\ y.buf_q = r.buf_q /\ y.bitmap = r.bitmap /\ y.reinit = r.reinit /\ y.sched = r.sched
  BY <1>1 DEF Alike, TidStates
<1>4. OwnQueue(y, t) /\ (\A m : InWindow(r, X, m) => InWindow(y, X, m)) /\ Span(y) = Span(r)
  BY <1>1, <1>3, AlikeWindow
<1>5. a \in States BY FlagsKeep
<1>6. a.tid[t] = y /\ OnlyTid(s, a, t) /\ a.axq = s.axq /\ Beside(s, a, t)
  <2> HIDE DEF y, a
  <2>1. Sets(a, s, t, y) BY <1>2 DEF Sets
  <2> QED BY <2>1, SetAs, SetsBeside
<1>7. v = IF b.tid[t].cleanup THEN b ELSE ResumeTid(b, t, lim)
  <2>1. v = TxCleanup(a, t, lim) BY DEF DelbaSend
  <2> HIDE DEF a, v, y
  <2> QED BY <1>6, <2>1 DEF TxCleanup, Put, Closed
<1> HIDE DEF y, a, v, X, r
<1>8. TidOk(r, X) BY DEF Owes, X, r
<1>9. Ended(x, X)
  <2>1. CASE r.aggr
    <3>1. PICK m \in Nat : InWindow(r, X, m) BY <1>8, <2>1 DEF TidOk
    <3>2. InWindow(y, X, m) /\ ~y.cleanup /\ y.incomp = 0
      BY <1>3, <1>4, <1>8, <2>1, <3>1 DEF TidOk
    <3> QED BY <1>4, <3>2, CloseWindow
  <2>2. CASE ~r.aggr
    <3>1. Ended(r, X) BY <1>8, <2>2 DEF TidOk
    <3>2. Ended(y, X) BY <1>3, <1>4, <3>1 DEF Ended
    <3> QED BY <1>4, <3>2, CloseEnded
  <2> QED BY <2>1, <2>2
<1>10. /\ x \in TidStates /\ x.buf_q = << >> /\ x.aggr = y.aggr
       /\ x.reinit = y.reinit /\ x.sched = y.sched
  BY <1>3, ClosedShape DEF x
<1> HIDE DEF x
<1>11. p \in States
  <2>1. x.reinit = a.tid[t].reinit /\ x.sched = a.tid[t].sched BY <1>6, <1>10
  <2>2. Put(a, Len(a.tid[t].buf_q), t, x) \in States
    BY <1>5, <1>10, <2>1, EmptyKeeps
  <2> QED BY <1>6, <2>2
<1>12. p.tid[t] = x /\ OnlyTid(s, p, t) /\ p.axq = s.axq /\ Beside(s, p, t)
  <2> DEFINE N == Len(y.buf_q)
  <2> HIDE DEF N
  <2>1. /\ Put(a, N, t, x).tid[t] = x /\ OnlyTid(a, Put(a, N, t, x), t)
        /\ Beside(a, Put(a, N, t, x), t)
    BY <1>5, PutTid, PutBeside
  <2> HIDE DEF p
  <2>2. OnlyTid(s, p, t) BY <1>6, <2>1, OnlyTrans DEF p, N
  <2>3. Beside(s, p, t) BY <1>6, <2>1 DEF p, N, Beside
  <2> QED BY <1>6, <2>1, <2>2, <2>3 DEF OnlyTid, p, N
<1> HIDE DEF p
<1>13. Owes(p, t, X)
  <2>1. p.tid[t].aggr => s.tid[t].aggr BY <1>3, <1>10, <1>12
  <2>2. TidOk(p.tid[t], X) BY <1>3, <1>9, <1>10, <1>12 DEF TidOk
  <2>3. Owes(s, t, X) BY DEF X
  <2> QED BY <1>12, <2>1, <2>2, <2>3, OwesOnly
<1>14. x.sched = s.tid[t].sched /\ ~x.aggr BY <1>3, <1>10 DEF r
<1>15. Ends(s, t, lim, p, v)
  BY <1>7, <1>10, <1>12, <1>13, <1>14 DEF Ends, b, X
<1> QED BY <1>11, <1>15 DEF v

(* ... keeps every identifier in order, ... *)
LEMMA DelbaSess ==
    ASSUME NEW s \in States, NEW t \in Tids, Owes(s, t, Flight(s.axq, t)), NEW lim \in Limits
    PROVE  LET v == DelbaSend(s, t, lim)
           IN  SessOk(v) /\ v.axq = s.axq /\ ~v.tid[t].aggr
<1> DEFINE v == DelbaSend(s, t, lim)
<1>1. PICK p \in States : Ends(s, t, lim, p, v) BY DelbaIs
<1> DEFINE b == PauseTid(p, t)
           x == p.tid[t]
<1> HIDE DEF v
<1>2. v = IF b.tid[t].cleanup THEN b ELSE ResumeTid(b, t, lim) BY <1>1 DEF Ends
<1>3. /\ x \in TidStates /\ x.buf_q = << >> /\ ~x.aggr
      /\ p.axq = s.axq /\ Owes(p, t, Flight(p.axq, t))
  BY <1>1 DEF Ends, OnlyTid
<1>4. b.axq = s.axq /\ Owes(b, t, Flight(b.axq, t)) /\ b.tid[t] = [x EXCEPT !.paused = TRUE]
      /\ b \in States
  BY <1>3, PauseOwes, PauseKeeps
<1> HIDE DEF b, x
<1>5. ~b.tid[t].aggr /\ b.tid[t].buf_q = << >> /\ b.tid[t] \in TidStates
  BY <1>3, <1>4 DEF TidStates
<1>6. CASE b.tid[t].cleanup
  <2>1. Waits(b.tid[t], b.axq, t) BY <1>6 DEF Waits
  <2>2. SessOk(b) BY <1>4, <2>1, OwesAll
  <2> QED BY <1>2, <1>4, <1>5, <1>6, <2>2 DEF v
<1>7. CASE ~b.tid[t].cleanup
  <2> DEFINE c == ResumeTid(b, t, lim)
             g == [b.tid[t] EXCEPT !.paused = FALSE]
  <2>1. SessOk(c) BY <1>4, ResumeSess
  <2>2. c = [b EXCEPT !.tid[t].paused = FALSE] BY <1>5 DEF ResumeTid
  <2>3. [b EXCEPT !.tid[t].paused = FALSE] = [b EXCEPT !.tid[t] = g]
    BY <1>4, Types DEF States, TidMap
  <2>4. g.aggr = b.tid[t].aggr BY <1>5 DEF TidStates
  <2> HIDE DEF c, g
  <2>5. Sets(c, b, t, g) BY <2>2, <2>3 DEF Sets
  <2>6. c.tid[t] = g /\ c.axq = b.axq BY <1>4, <2>5, SetAs
  <2>7. v = c BY <1>2, <1>7 DEF c
  <2> QED BY <1>4, <1>5, <2>1, <2>4, <2>6, <2>7 DEF v
<1> QED BY <1>6, <1>7

(* A drained identifier is in order: it had ended its session, or it is
   without frames in flight. *)
LEMMA DrainedOk ==
    ASSUME NEW t \in Tids, NEW r, OwnQueue(r, t), NEW X, TidOk(r, X),
           ~r.aggr \/ (X = {} /\ ~Exactly)
    PROVE  TidOk(Drained(r), X)
<1> DEFINE u == Drained(r)
<1>1. r \in TidStates /\ << >> \in Seq(Frames) BY DEF OwnQueue
<1>2. /\ u \in TidStates /\ u.buf_q = << >> /\ u.seq_next = u.seq_start /\ u.baw_tail = u.baw_head
      /\ u.bitmap = r.bitmap /\ u.aggr = r.aggr /\ u.cleanup = r.cleanup /\ u.incomp = r.incomp
  BY <1>1 DEF TidStates, Drained
<1> HIDE DEF u
<1>3. Span(u) = 0
  <2>1. u.baw_tail - u.baw_head = 0
    <3>1. u.baw_head \in Int BY <1>2, RingTypes DEF TidStates
    <3> QED BY <1>2, <3>1
  <2> DEFINE d == u.baw_tail - u.baw_head
  <2>2. d = 0 /\ d \in Int /\ TidMaxBufs \in Nat /\ TidMaxBufs >= 1
    BY <2>1, BawBounds
  <2> HIDE DEF d
  <2>3. d % TidMaxBufs = d BY <2>2, ModCases
  <2> QED BY <2>2, <2>3 DEF Span, d
<1>4. CASE ~r.aggr
  <2>1. Ended(r, X) BY <1>4 DEF TidOk
  <2>2. Ended(u, X) BY <1>2, <1>3, <2>1 DEF Ended
  <2> QED BY <1>2, <1>4, <2>2 DEF TidOk, u
<1>5. CASE r.aggr
  <2>1. X = {} /\ ~Exactly /\ ~u.cleanup /\ u.incomp = 0 BY <1>2, <1>5 DEF TidOk
  <2>2. Len(u.buf_q) = 0 /\ 0 \in Nat /\ BawSize \in Nat BY <1>2, BawBounds
  <2>3. Fresh(u, 0) BY <2>2 DEF Fresh
  <2>4. Total(u) = 0
    <3>1. u.seq_start \in SeqNos BY <1>2 DEF TidStates
    <3> QED BY <1>2, <3>1, Places DEF Total
  <2>5. Ahead(u, 0) BY <1>3, <2>2, <2>4 DEF Ahead
  <2>6. Once(u, 0) BY <2>2 DEF Once
  <2>7. Again(u) = {}
    <3>1. OwnQueue(u, t) BY <1>2 DEF OwnQueue
    <3> QED BY <2>2, <2>3, <3>1, AgainIs
  <2>8. Holds(u, X \cup Again(u)) BY <2>1, <2>7 DEF Holds
  <2>9. InWindow(u, X, 0) BY <2>1, <2>3, <2>5, <2>6, <2>7, <2>8 DEF InWindow
  <2> QED BY <1>2, <1>5, <2>1, <2>2, <2>9 DEF TidOk, u
<1> QED BY <1>4, <1>5

(* ath_tgt_tid_drain in the terms of Put *)
LEMMA DrainIs ==
    ASSUME NEW s \in States, NEW t \in Tids
    PROVE  TidDrain(s, t) = Put(s, Len(s.tid[t].buf_q), t, Drained(s.tid[t]))
<1> DEFINE r == s.tid[t]
           x == [r EXCEPT !.buf_q = << >>, !.seq_next = r.seq_start, !.baw_tail = r.baw_head]
           a == Release(s, Len(r.buf_q))
<1>1. r \in TidStates /\ s.tid \in TidMap /\ DOMAIN s.tid = Tids
  BY Types DEF TidMap
<1>2. a.tid = s.tid /\ TidDrain(s, t) = [a EXCEPT !.tid[t].buf_q = << >>,
                                                   !.tid[t].seq_next = r.seq_start,
                                                   !.tid[t].baw_tail = r.baw_head]
  BY DEF Release, States, TidDrain
<1>3. a = [s EXCEPT !.free = s.free + Len(r.buf_q), !.held = s.held - Len(r.buf_q)]
  BY DEF Release, States
<1>4. "tid" \in DOMAIN a BY <1>3 DEF States
<1> HIDE DEF a
<1>5. TidDrain(s, t) = [a EXCEPT !.tid[t] = x] BY <1>1, <1>2, <1>4, ZenonT(60)
<1> QED BY <1>5 DEF Put, Drained, a

(* ath_tgt_tid_drain keeps every identifier in order. *)
LEMMA DrainSess ==
    ASSUME NEW s \in States, SessOk(s), NEW t \in Tids,
           ~s.tid[t].aggr \/ (s.axq = << >> /\ ~Exactly)
    PROVE  SessOk(TidDrain(s, t)) /\ TidDrain(s, t).axq = s.axq
<1> DEFINE r == s.tid[t]
           x == Drained(r)
           n == Len(r.buf_q)
           v == TidDrain(s, t)
           X == Flight(s.axq, t)
<1>1. OwnQueue(r, t) /\ r \in TidStates BY Types
<1>2. Owes(s, t, X) /\ Waits(r, s.axq, t) /\ TidOk(r, X) BY OwesAll DEF Owes
<1>3. ~r.aggr \/ (X = {} /\ ~Exactly) BY DEF Flight
<1>4. x.aggr = r.aggr /\ x.paused = r.paused /\ x.cleanup = r.cleanup
  BY <1>1 DEF Drained, TidStates
<1> HIDE DEF X
<1>5. TidOk(x, X) BY <1>1, <1>2, <1>3, DrainedOk
<1> HIDE DEF x, n
<1>6. Put(s, n, t, x).tid[t] = x /\ Put(s, n, t, x).axq = s.axq /\ OnlyTid(s, Put(s, n, t, x), t)
  BY PutTid
<1>7. v = Put(s, n, t, x) BY DrainIs DEF n, x
<1> HIDE DEF v
<1>8. v.tid[t] = x /\ v.axq = s.axq /\ OnlyTid(s, v, t) BY <1>6, <1>7
<1>9. Owes(v, t, X)
  <2>1. v.tid[t].aggr => s.tid[t].aggr BY <1>4, <1>8
  <2> QED BY <1>2, <1>5, <1>8, <2>1, OwesOnly
<1>10. Waits(v.tid[t], v.axq, t) BY <1>2, <1>4, <1>8 DEF Waits
<1> QED BY <1>8, <1>9, <1>10, OwesAll DEF X, v

(* The count of a clean-up goes down, and the clean-up ends with it. *)
LEMMA FewerOk ==
    ASSUME NEW r \in TidStates, NEW Y, TidOk(r, Y), r.cleanup, NEW n \in Nat,
           NEW X, IsFiniteSet(X), Enough(r, n, X)
    PROVE  /\ ~r.aggr /\ ~Fewer(r, n).aggr /\ Fewer(r, n).incomp = r.incomp - n
           /\ Fewer(r, n).cleanup /\ r.incomp - n \in Int
           /\ r.incomp - n # 0 => TidOk(Fewer(r, n), X)
           /\ r.incomp - n = 0 => TidOk([Fewer(r, n) EXCEPT !.cleanup = FALSE], X)
<1> DEFINE u == Fewer(r, n)
           z == [u EXCEPT !.cleanup = FALSE]
           k == r.incomp - n
<1>1. ~r.aggr /\ Ended(r, Y) BY DEF TidOk
<1>2. k \in Int /\ r.incomp \in Int BY DEF TidStates
<1>3. /\ u \in TidStates /\ u.buf_q = r.buf_q /\ u.baw_head = r.baw_head /\ u.baw_tail = r.baw_tail
      /\ u.bitmap = r.bitmap /\ u.incomp = k /\ u.cleanup /\ ~u.aggr
  BY <1>1, <1>2 DEF Fewer, TidStates
<1> HIDE DEF u, k
<1>4. /\ z.buf_q = r.buf_q /\ z.baw_head = r.baw_head /\ z.baw_tail = r.baw_tail
      /\ z.bitmap = r.bitmap /\ z.incomp = k /\ ~z.cleanup /\ ~z.aggr
  BY <1>3 DEF TidStates
<1> HIDE DEF z
<1>5. Span(u) = Span(r) /\ Span(z) = Span(r) BY <1>3, <1>4 DEF Span
<1>6. Cardinality(X) \in Nat /\ (Cardinality(X) = 0 <=> X = {})
  BY FS_CardinalityType, FS_EmptySet
<1>7. Cardinality(X) <= k /\ (Exactly => Cardinality(X) = k) BY DEF Enough, k
<1>8. ASSUME k # 0 PROVE Ended(u, X)
  <2>1. k >= 1 BY <1>2, <1>6, <1>7, <1>8 DEF k
  <2> QED BY <1>1, <1>3, <1>5, <1>7, <2>1 DEF Ended
<1>9. ASSUME k = 0 PROVE Ended(z, X)
  <2>1. X = {} BY <1>6, <1>7, <1>9
  <2> QED BY <1>1, <1>4, <1>5, <1>9, <2>1 DEF Ended
<1>10. TidOk(u, X) <=> Ended(u, X) BY <1>3 DEF TidOk
<1>11. TidOk(z, X) <=> Ended(z, X) BY <1>4 DEF TidOk
<1> QED BY <1>1, <1>2, <1>3, <1>8, <1>9, <1>10, <1>11 DEF u, z, k

(* A clean-up goes on, or ends and the identifier is resumed: the queue is empty. *)
LEMMA FewerIs ==
    ASSUME NEW s \in States, NEW t \in Tids, NEW Y, Owes(s, t, Y), s.tid[t].cleanup, NEW n \in Nat,
           Enough(s.tid[t], n, Flight(s.axq, t)), NEW lim \in Limits, NEW v,
           Counts(s, t, n, lim, v)
    PROVE  \E w : Counted(s, t, lim, w, v)
<1> DEFINE r == s.tid[t]
           X == Flight(s.axq, t)
           k == r.incomp - n
           u == Fewer(r, n)
           z == [u EXCEPT !.cleanup = FALSE]
           a == [s EXCEPT !.tid[t] = u]
           b == [s EXCEPT !.tid[t] = z]
<1>1. r \in TidStates /\ OwnQueue(r, t) /\ TidOk(r, Y) BY Types DEF Owes
<1>2. IsFiniteSet(X) BY FlightFinite
<1>3. /\ ~r.aggr /\ ~u.aggr /\ u.incomp = k /\ u.cleanup /\ k \in Int
      /\ k # 0 => TidOk(u, X)
      /\ k = 0 => TidOk(z, X)
  <2> HIDE DEF X, r
  <2> QED BY <1>1, <1>2, FewerOk DEF X, r
<1>4. /\ z.buf_q = r.buf_q /\ z.reinit = r.reinit /\ z.sched = r.sched /\ z \in TidStates /\ ~z.aggr
  BY <1>1, <1>3 DEF Fewer, TidStates
<1>5. Sets(a, s, t, u) /\ Sets(b, s, t, z) BY DEF Sets
<1>6. (k # 0 => v = a) /\ (k = 0 => v = ResumeTid(b, t, lim)) BY DEF Counts
<1>7. b \in States
  <2> HIDE DEF z
  <2> QED BY <1>4, FieldKeeps
<1>8. /\ u.buf_q = << >> /\ u.sched = r.sched /\ z.buf_q = << >>
  <2>1. Ended(r, Y) BY <1>1, <1>3 DEF TidOk
  <2> QED BY <1>1, <1>4, <2>1 DEF Ended, Fewer, TidStates
<1> HIDE DEF a, b, z, u
<1>9. a.tid[t] = u /\ a.axq = s.axq /\ OnlyTid(s, a, t) /\ Beside(s, a, t)
  BY <1>5, SetAs, SetsBeside
<1>10. b.tid[t] = z /\ b.axq = s.axq /\ OnlyTid(s, b, t) /\ Beside(s, b, t)
  BY <1>5, SetAs, SetsBeside
<1> HIDE DEF X, k, r
<1>11. CASE k # 0
  <2>1. Owes(a, t, X) BY <1>3, <1>9, <1>11, OwesOnly
  <2>2. Counted(s, t, lim, a, v) BY <1>3, <1>6, <1>8, <1>9, <1>11, <2>1 DEF Counted, X, r
  <2> QED BY <2>2
<1>12. CASE k = 0
  <2>1. Owes(b, t, X) BY <1>3, <1>4, <1>10, <1>12, OwesOnly
  <2>2. Counted(s, t, lim, b, v)
    BY <1>4, <1>6, <1>7, <1>8, <1>10, <1>12, <2>1 DEF Counted, X, r
  <2> QED BY <2>2
<1> QED BY <1>11, <1>12

(* ... It is in order, ... *)
LEMMA FewerSess ==
    ASSUME NEW s \in States, NEW t \in Tids, NEW Y, Owes(s, t, Y), s.tid[t].cleanup, NEW n \in Nat,
           Enough(s.tid[t], n, Flight(s.axq, t)), NEW lim \in Limits, NEW v,
           Counts(s, t, n, lim, v)
    PROVE  SessOk(v)
<1>1. PICK w : Counted(s, t, lim, w, v) BY FewerIs
<1>2. CASE v = w /\ w.tid[t].cleanup
  <2>1. Waits(w.tid[t], w.axq, t) BY <1>2 DEF Waits
  <2> QED BY <1>1, <1>2, <2>1, OwesAll DEF Counted
<1>3. CASE v = ResumeTid(w, t, lim) /\ w \in States
  BY <1>1, <1>3, ResumeSess DEF Counted
<1> QED BY <1>1, <1>2, <1>3 DEF Counted

(* owl_tgt_tid_cleanup. *)
LEMMA TidCleanupIs ==
    ASSUME NEW s \in States, NEW t \in Tids, ~s.tid[t].reinit, NEW lim
    PROVE  Counts(s, t, 1, lim, TidCleanup(s, t, lim))
<1> DEFINE o == s.tid[t]
           r == [o EXCEPT !.incomp = o.incomp - 1]
           c == [r EXCEPT !.cleanup = FALSE]
           i == TidInit(r)
           a == [s EXCEPT !.tid[t] = r]
           done == [s EXCEPT !.tid[t] = c]
           v == TidCleanup(s, t, lim)
<1>1. v = CASE r.incomp # 0 -> a
            [] r.incomp = 0 /\ r.reinit -> [done EXCEPT !.tid[t] = i]
            [] OTHER -> ResumeTid(done, t, lim)
  BY DEF TidCleanup
<1>2. o \in TidStates BY Types
<1>3. r.incomp = o.incomp - 1 /\ ~r.reinit BY <1>2 DEF TidStates
<1>4. r = Fewer(o, 1) BY DEF Fewer
<1> HIDE DEF v, a, done, r, i
<1>5. o.incomp - 1 # 0 => v = a
  <2>1. ASSUME o.incomp - 1 # 0 PROVE v = a
    <3>1. r.incomp # 0 BY <1>3, <2>1
    <3> QED BY <1>1, <3>1, Zenon
  <2> QED BY <2>1
<1>6. o.incomp - 1 = 0 => v = ResumeTid(done, t, lim)
  <2>1. ASSUME o.incomp - 1 = 0 PROVE v = ResumeTid(done, t, lim)
    <3>1. ~(r.incomp # 0) /\ ~r.reinit BY <1>3, <2>1
    <3> QED BY <1>1, <3>1, Zenon
  <2> QED BY <2>1
<1>7. o.incomp - 1 # 0 => v = [s EXCEPT !.tid[t] = Fewer(o, 1)]
  BY <1>4, <1>5 DEF a
<1>8. o.incomp - 1 = 0 =>
        v = ResumeTid([s EXCEPT !.tid[t] = [Fewer(o, 1) EXCEPT !.cleanup = FALSE]], t, lim)
  BY <1>4, <1>6 DEF done
<1> QED BY <1>7, <1>8 DEF Counts, v, o

(* ath_tgt_tx_tid_cleanup. *)
LEMMA TidCleanupSess ==
    ASSUME NEW s \in States, NEW t \in Tids, NEW Y, Owes(s, t, Y), s.tid[t].cleanup,
           ~s.tid[t].reinit, Enough(s.tid[t], 1, Flight(s.axq, t)), NEW lim \in Limits
    PROVE  SessOk(TidCleanup(s, t, lim))
<1>1. 1 \in Nat OBVIOUS
<1> QED BY <1>1, FewerSess, TidCleanupIs

(* ath_tx_comp_cleanup: incomp counts at least the frames of the chain. *)
LEMMA CompCleanupIs ==
    ASSUME NEW s \in States, NEW t \in Tids, NEW Y, Owes(s, t, Y), s.tid[t].cleanup,
           ~s.tid[t].reinit, NEW chain \in Chains,
           Enough(s.tid[t], Len(chain), Flight(s.axq, t)), NEW lim
    PROVE  /\ CleanupCount(s.tid[t], chain) = Len(chain)
           /\ \E n \in Nat : CountsOff(Release(s, n), t, Y, n, lim, CompCleanup(s, t, chain, lim))
<1> DEFINE r == s.tid[t]
           L == Len(chain)
           n == IF r.incomp \in 1..L THEN r.incomp ELSE L
           one == Release(s, 1)
           rel == Release(s, n)
           x == [r EXCEPT !.incomp = r.incomp - n]
           z == [x EXCEPT !.cleanup = FALSE]
           counted == [rel EXCEPT !.tid[t] = x]
           off == [counted EXCEPT !.tid[t].cleanup = FALSE]
           v == CompCleanup(s, t, chain, lim)
<1>1. chain \in Seq(Frames) /\ L \in Nat /\ L >= 1 BY ChainType
<1>2. r \in TidStates /\ s.tid \in TidMap /\ DOMAIN s.tid = Tids
  BY Types DEF TidMap
<1>3. r.incomp \in Int BY <1>2 DEF TidStates
<1>4. r.incomp >= L
  <2> DEFINE C == Cardinality(Flight(s.axq, t))
  <2>1. C \in Nat BY FlightFinite
  <2>2. C <= r.incomp - L BY DEF Enough
  <2> HIDE DEF C, L, r
  <2> QED BY <1>1, <1>3, <2>1, <2>2
<1>5. n = L /\ CleanupCount(r, chain) = L
  <2>1. CleanupCount(r, chain) = IF L > 1 /\ r.incomp \in 1..L THEN r.incomp ELSE L
    BY DEF CleanupCount
  <2>2. r.incomp \in 1..L => r.incomp = L
    <3> HIDE DEF L, r
    <3> QED BY <1>1, <1>3, <1>4
  <2> QED BY <2>1, <2>2
<1>6. rel.tid = s.tid /\ "tid" \in DOMAIN rel
  <2>1. rel.tid = s.tid BY DEF Release, States
  <2>2. rel = [s EXCEPT !.free = s.free + n, !.held = s.held - n]
    BY Zenon DEF Release, States
  <2> HIDE DEF rel, n
  <2> QED BY <2>1, <2>2 DEF States
<1>7. v = CASE L = 1 -> TidCleanup(one, t, lim)
            [] L > 1 /\ r.incomp # n -> counted
            [] OTHER -> ResumeTid(off, t, lim)
  <2>3. [rel EXCEPT !.tid[t].incomp = @ - n] = counted
    <3> HIDE DEF rel, n
    <3> QED BY <1>2, <1>6
  <2> HIDE DEF counted
  <2> QED BY <2>3, Zenon DEF CompCleanup
<1>8. n \in Nat /\ (L = 1 => n = 1) BY <1>1, <1>5
<1> HIDE DEF n
<1>9. rel \in States /\ Aside(s, rel) BY <1>8, ReleaseKeeps, ReleaseAside
<1>10. x = Fewer(r, n) BY DEF Fewer
<1>11. off = [rel EXCEPT !.tid[t] = z]
  <2> HIDE DEF x, rel
  <2> QED BY <1>2, <1>6
<1>12. Owes(rel, t, Y) /\ rel.axq = s.axq /\ rel.tid[t] = r
  BY <1>6, <1>9, AsideOk DEF Aside
<1>13. rel.tid[t].cleanup /\ ~rel.tid[t].reinit /\ Enough(rel.tid[t], n, Flight(rel.axq, t))
  BY <1>5, <1>12
<1>14. Counts(rel, t, n, lim, v)
  <2>1. CASE L = 1
    <3>1. v = TidCleanup(rel, t, lim)
      <4>1. one = rel /\ ~(L > 1) BY <1>8, <2>1
      <4> HIDE DEF v, rel, one, L, counted, off
      <4> QED BY <1>7, <2>1, <4>1, Zenon
    <3> HIDE DEF v, rel
    <3> QED BY <1>8, <1>9, <1>13, <2>1, <3>1, TidCleanupIs
  <2>2. CASE L # 1
    <3> HIDE DEF v, one, rel, x
    <3>1. counted = [rel EXCEPT !.tid[t] = Fewer(r, n)]
          /\ off = [rel EXCEPT !.tid[t] = [Fewer(r, n) EXCEPT !.cleanup = FALSE]]
      BY <1>10, <1>11
    <3> HIDE DEF counted, off, r, L
    <3>2. ASSUME r.incomp - n # 0 PROVE v = counted
      <4>1. r.incomp # n BY <1>3, <1>8, <3>2
      <4>2. L > 1 BY <1>1, <2>2
      <4> QED BY <1>7, <2>2, <4>1, <4>2, Zenon
    <3>3. ASSUME r.incomp - n = 0 PROVE v = ResumeTid(off, t, lim)
      <4>1. r.incomp = n BY <1>3, <1>8, <3>3
      <4> QED BY <1>7, <2>2, <4>1, Zenon
    <3> QED BY <1>12, <3>1, <3>2, <3>3 DEF Counts
  <2> QED BY <2>1, <2>2
<1> HIDE DEF rel, v
<1>15. CountsOff(rel, t, Y, n, lim, v) BY <1>9, <1>12, <1>13, <1>14 DEF CountsOff
<1> QED BY <1>5, <1>8, <1>15 DEF rel, v, r, L

(* ath_tx_comp_cleanup. *)
LEMMA CompCleanupSess ==
    ASSUME NEW s \in States, NEW t \in Tids, NEW Y, Owes(s, t, Y), s.tid[t].cleanup,
           ~s.tid[t].reinit, NEW chain \in Chains,
           Enough(s.tid[t], Len(chain), Flight(s.axq, t)), NEW lim \in Limits
    PROVE  /\ SessOk(CompCleanup(s, t, chain, lim))
           /\ CleanupCount(s.tid[t], chain) = Len(chain)
<1> DEFINE v == CompCleanup(s, t, chain, lim)
<1>1. PICK n \in Nat : CountsOff(Release(s, n), t, Y, n, lim, v) BY CompCleanupIs
<1> HIDE DEF v
<1>2. SessOk(v) BY <1>1, FewerSess DEF CountsOff
<1> QED BY <1>2, CompCleanupIs DEF v

(* The buffer of a frame that is done goes back. *)
LEMMA ReleaseSess ==
    ASSUME NEW s \in States, SessOk(s), NEW n
    PROVE  SessOk(Release(s, n))
BY ReleaseAside, AsideOk

(* ath_bar_tx_comp and ath_bar_retry. *)
LEMMA CompBarSess ==
    ASSUME NEW s \in States, NEW t \in Tids, Owes(s, t, Flight(s.axq, t)), NEW lim \in Limits,
           NEW f \in Frames, f.kind = "bar", f.tid = t, NEW ok \in BOOLEAN
    PROVE  SessOk(CompBar(s, t, f, ok, lim))
<1> DEFINE a == ResumeTid(s, t, lim)
           b == DelbaSend(s, t, lim)
           c == TidDrain(b, t)
           g == [f EXCEPT !.retries = @ + 1]
           q == <<g>>
           v == CompBar(s, t, f, ok, lim)
           z == TxqAdd(s, q)
<1>1. v = CASE ok -> Release(a, 1)
            [] ~ok /\ f.retries >= MaxBarRetries -> Release(c, 1)
            [] OTHER -> z
  BY DEF CompBar
<1>2. q \in Chains /\ q[1].kind = "bar" /\ q[1].tid = t
  <2>1. g \in Frames /\ g.kind = "bar" /\ g.tid = t BY DEF Frames
  <2> HIDE DEF g
  <2> QED BY <2>1 DEF Chains, Singles
<1> HIDE DEF v, q
<1>3. a \in States /\ SessOk(a) BY ResumeKeeps, ResumeSess
<1>4. b \in States /\ SessOk(b) /\ ~b.tid[t].aggr BY DelbaKeeps, DelbaSess
<1> HIDE DEF a, b
<1>5. c \in States /\ SessOk(c) BY <1>4, DrainKeeps, DrainSess
<1> HIDE DEF c
<1>6. SessOk(z)
  <2>1. /\ Owes(z, t, Flight(s.axq, t)) /\ Flight(z.axq, t) = Flight(s.axq, t)
        /\ Waits(z.tid[t], z.axq, t)
    <3> HIDE DEF z
    <3>1. q[1].kind \notin {"aggr", "normal"} BY <1>2
    <3> QED BY <1>2, <3>1, OwesAppend DEF z
  <2> HIDE DEF z
  <2> QED BY <2>1, OwesAll
<1>7. SessOk(Release(a, 1)) /\ SessOk(Release(c, 1)) BY <1>3, <1>5, ReleaseSess
<1>8. v = Release(a, 1) \/ v = Release(c, 1) \/ v = z BY <1>1, Zenon
<1> QED BY <1>6, <1>7, <1>8 DEF v

(* ath_tgt_tx_comp_normal. *)
LEMMA CompNormalSess ==
    ASSUME NEW s \in States, NEW t \in Tids, Owes(s, t, Flight(s.axq, t)),
           Waits(s.tid[t], s.axq, t), Flight(s.axq, t) = {}, ~s.tid[t].reinit, NEW lim \in Limits
    PROVE  SessOk(CompNormal(s, t, lim))
<1> DEFINE r == s.tid[t]
           a == TidCleanup(s, t, lim)
<1>1. r \in TidStates /\ TidOk(r, {}) BY Types DEF Owes
<1>2. a \in States BY TidCleanupKeeps
<1>3. CASE r.cleanup
  <2>1. Ended(r, {}) /\ Cardinality({}) = 0 /\ r.incomp \in Int
    BY <1>1, <1>3, FS_EmptySet DEF TidOk, TidStates
  <2>2. r.incomp >= 1 /\ (Exactly => r.incomp = 0) BY <1>3, <2>1 DEF Ended
  <2>3. Enough(r, 1, {})
    <3>1. ~Exactly BY <2>2
    <3>2. 0 <= r.incomp - 1
      <4> HIDE DEF r
      <4> QED BY <2>1, <2>2
    <3> QED BY <2>1, <3>1, <3>2 DEF Enough
  <2>4. SessOk(a) BY <1>3, <2>3, TidCleanupSess
  <2>5. SessOk(Release(a, 1)) BY <1>2, <2>4, ReleaseSess
  <2> QED BY <1>3, <2>5 DEF CompNormal
<1>4. CASE ~r.cleanup
  <2>1. SessOk(s) BY OwesAll
  <2>2. SessOk(Release(s, 1)) BY <2>1, ReleaseSess
  <2> QED BY <1>4, <2>2 DEF CompNormal
<1> QED BY <1>3, <1>4

(* The identifier that aggregates gets another window. *)
LEMMA ReplaceOwes ==
    ASSUME NEW s \in States, NEW t \in Tids, NEW Y, Owes(s, t, Y), s.tid[t].aggr,
           NEW x, SameMode(x, s.tid[t]), NEW m \in Nat, NEW Z, InWindow(x, Z, m),
           NEW v, OnlyTid(s, v, t), v.tid[t] = x
    PROVE  /\ Owes(v, t, Z) /\ v.axq = s.axq
           /\ Waits(s.tid[t], s.axq, t) => Waits(v.tid[t], v.axq, t)
<1>1. x.aggr /\ ~x.cleanup /\ x.incomp = 0 /\ x.paused = s.tid[t].paused
  BY DEF SameMode, Owes, TidOk
<1>2. TidOk(x, Z) BY <1>1 DEF TidOk
<1>3. v.axq = s.axq /\ x.cleanup = s.tid[t].cleanup BY DEF OnlyTid, SameMode
<1>4. Owes(v, t, Z) BY <1>2, OwesOnly
<1>5. Waits(s.tid[t], s.axq, t) => Waits(v.tid[t], v.axq, t)
  BY <1>1, <1>3 DEF Waits
<1> QED BY <1>3, <1>4, <1>5

(* The operators on the window leave the flags alone. *)
LEMMA ModeKept ==
    ASSUME NEW r \in TidStates, NEW w \in Windows(r), NEW q
    PROVE  SameMode(w, r) /\ SameMode(Prepend(w, q), r)
<1>1. w \in TidStates /\ SameQueue(w, r) BY DEF Windows
<1> DEFINE u == q \o w.buf_q
<1>2. Prepend(w, q) = [w EXCEPT !.buf_q = u] BY DEF Prepend
<1> HIDE DEF u
<1> QED BY <1>1, <1>2 DEF SameMode, SameQueue, TidStates

(* The same window with the same queue *)
LEMMA AlikeLead ==
    ASSUME NEW r, NEW u, Alike(u, r), Lead(r)
    PROVE  Lead(u)
<1>1. Busy(u) = Busy(r) /\ Span(u) = Span(r) /\ Total(u) = Total(r) /\ u.buf_q = r.buf_q
  BY DEF Alike, Busy, Span, Total
<1> QED BY <1>1 DEF Lead

(* Frames put back in front leave more room in the window, not less. *)
LEMMA PrependLead ==
    ASSUME NEW t \in Tids, NEW w, OwnQueue(w, t), NEW q \in Seq(OwnFrames(t)), Lead(w)
    PROVE  Lead(Prepend(w, q))
<1> DEFINE Q == q \o w.buf_q
           u == Prepend(w, q)
           L == Len(w.buf_q)
           A == Len(q)
<1>1. w \in TidStates /\ w.buf_q \in Seq(OwnFrames(t)) /\ L \in Nat /\ Total(w) \in Nat /\ BawSize \in Nat
  BY SessionNums
<1>2. Q \in Seq(OwnFrames(t)) /\ Len(Q) = A + L /\ A \in Nat BY <1>1
<1>3. u = [w EXCEPT !.buf_q = Q] BY DEF Prepend
<1> HIDE DEF Q, u
<1>4. /\ u.buf_q = Q /\ u.seq_next = w.seq_next /\ u.seq_start = w.seq_start
      /\ u.baw_head = w.baw_head /\ u.baw_tail = w.baw_tail /\ u.bitmap = w.bitmap
  BY <1>1, <1>3 DEF TidStates
<1>5. Busy(u) = Busy(w) /\ Span(u) = Span(w) /\ Total(u) = Total(w)
  BY <1>4 DEF Busy, Span, Total
<1> DEFINE T == Total(w)
<1> HIDE DEF L, A, T
<1>6. T < BawSize + L => T < BawSize + (A + L)
  <2>1. T \in Nat /\ L \in Nat /\ A \in Nat /\ BawSize \in Nat
    BY <1>1, <1>2 DEF T
  <2> QED BY <2>1
<1>7. Busy(w) = {} => Span(w) = 0 /\ T < BawSize + L BY DEF Lead, L, T
<1> QED BY <1>2, <1>4, <1>5, <1>6, <1>7 DEF Lead, u, T

(* A chain in flight is done. *)
LEMMA ChainLead ==
    ASSUME NEW t \in Tids, NEW r, OwnQueue(r, t), NEW X, NEW m, InWindow(r, X, m),
           NEW c \in Seq(OwnFrames(t)), Distinct(c), SeqsOf(c) \subseteq X, SeqsOf(c) # {}, NEW K
    PROVE  Lead(Prepend(UpdateBawFor(r, c, K), RetryAll(c, K)))
<1> DEFINE w == UpdateBawFor(r, c, K)
           a == RetryAll(c, K)
           U == X \cup Again(r)
           B == DoneOf(c, K, Len(c))
<1>1. r \in TidStates /\ c \in Seq(Frames) BY OwnFramesType DEF OwnQueue
<1>2. Fresh(r, m) /\ Ahead(r, m) /\ Once(r, m) /\ Holds(r, U) BY DEF InWindow
<1>3. m \in Nat BY <1>2, AgainIs
<1>4. SeqsOf(c) = {c[i].seq : i \in 1..Len(c)} BY DEF SeqsOf
<1>5. B \subseteq U BY <1>4 DEF DoneOf
<1>6. \A i, j \in 1..Len(c) : c[i] \in K /\ c[j] \in K /\ c[i].seq = c[j].seq => i = j
  BY DEF Distinct
<1>7. U # {} OBVIOUS
<1> HIDE DEF U, w
<1>8. Tracks(r, w) /\ Holds(w, U \ B) /\ (B # {} => Leads(r, w))
  BY <1>1, <1>2, <1>5, <1>6, UpdateAllHolds DEF w
<1>9. B # {} => Lead(w) BY <1>2, <1>3, <1>8 DEF Leads
<1> HIDE DEF B, a
<1>10. B = {} => Lead(w) BY <1>7, <1>8, HeldLead
<1>11. OwnQueue(w, t) BY <1>2, <1>3, <1>8 DEF Tracks
<1>12. a \in Seq(OwnFrames(t)) BY RetryType DEF a
<1> QED BY <1>9, <1>10, <1>11, <1>12, PrependLead DEF w, a

(* ath_tx_comp_unaggr and ath_tx_retry_unaggr. *)
LEMMA CompUnaggrIs ==
    ASSUME NEW s \in States, NEW t \in Tids, NEW f \in OwnFrames(t), NEW ok \in BOOLEAN,
           NEW Y, Owes(s, t, Y), ~s.tid[t].cleanup, f.seq \in Y
    PROVE  \E a \in States : Served(s, t, Y \ {f.seq}, a, CompUnaggr(s, t, f, ok))
<1> DEFINE r == s.tid[t]
           w == UpdateBaw(r, f.seq)
           done == [s EXCEPT !.tid[t] = w]
           q == <<Retried(f)>>
           x == Prepend(r, q)
           back == [s EXCEPT !.tid[t] = x]
           again == Enqueue(back, t)
           free == Release(done, 1)
           v == CompUnaggr(s, t, f, ok)
           Z == Y \ {f.seq}
<1>1. v = CASE ok -> free
            [] ~ok /\ f.retries >= MaxRetries -> BarTx(done, t, f)
            [] OTHER -> again
  BY DEF CompUnaggr
<1>2. r \in TidStates /\ OwnQueue(r, t) /\ f.seq \in SeqNos /\ r \in Windows(r) /\ TidOk(r, Y)
  BY Types DEF OwnFrames, Windows, SameQueue, Owes
<1>3. r.aggr
  <2>1. ~r.aggr => Y = {} BY <1>2 DEF TidOk, Ended
  <2> QED BY <2>1
<1>4. PICK m \in Nat : InWindow(r, Y, m) BY <1>2, <1>3 DEF TidOk
<1>5. w \in Windows(r) BY <1>2, BawTypes
<1>6. InWindow(w, Z, m) BY <1>2, <1>4, DoneOne
<1>7. /\ Fresh(r, m) /\ Ahead(r, m) /\ Once(r, m)
      /\ Holds(r, Y \cup Again(r)) /\ f.seq \in Y \cup Again(r)
  BY <1>4 DEF InWindow
<1>8. Lead(r) BY <1>7, HeldLead
<1>9. Lead(w)
  <2> HIDE DEF r, w
  <2>1. Leads(r, w) BY <1>2, <1>7, UpdateTracks DEF w
  <2> QED BY <1>2, <1>4, <1>7, <2>1 DEF Leads
<1>10. q \in Seq(OwnFrames(t)) /\ Len(q) = 1 /\ q[1] = Retried(f) BY RetriedType
<1>11. Retried(f).seq = f.seq /\ Retried(f).retries > 0 BY DEF OwnFrames, Retried
<1> HIDE DEF q
<1>12. Tried(q) /\ Distinct(q) /\ SeqsOf(q) = {f.seq}
  BY <1>10, <1>11 DEF Tried, Distinct, SeqsOf
<1>13. InWindow(x, Z, m)
  <2>1. InWindow(Prepend(r, q), Y \ SeqsOf(q), m)
    <3>1. SeqsOf(q) \subseteq Y BY <1>12
    <3> QED BY <1>2, <1>4, <1>10, <1>12, <3>1, PrependWindow
  <2> QED BY <1>12, <2>1
<1>14. Lead(x) /\ x.sched = r.sched
  <2>1. Lead(x)
    <3> HIDE DEF r
    <3> QED BY <1>2, <1>8, <1>10, PrependLead
  <2> DEFINE Q == q \o r.buf_q
  <2>2. x = [r EXCEPT !.buf_q = Q] BY DEF Prepend
  <2> HIDE DEF Q, x
  <2> QED BY <1>2, <2>1, <2>2 DEF TidStates
<1>15. SameMode(w, r) /\ SameMode(x, r) BY <1>2, <1>5, ModeKept
<1>16. w.sched = r.sched /\ w.buf_q = r.buf_q
  <2> HIDE DEF w
  <2> QED BY <1>5 DEF Windows, SameQueue
<1>17. done \in States /\ back \in States
  <2>1. done \in States
    <3> HIDE DEF w
    <3> QED BY <1>5, FlagKeeps
  <2>2. Follows(s, t, x) BY <1>2, <1>10, PrependFollows
  <2> HIDE DEF x
  <2>3. Put(s, 0, t, x) \in States /\ 0 \in Nat BY <2>2, PutKeeps
  <2>4. back = Put(s, 0, t, x) BY PutZero
  <2> HIDE DEF back
  <2> QED BY <2>1, <2>3, <2>4
<1>18. Sets(done, s, t, w) /\ Sets(back, s, t, x) BY DEF Sets
<1> HIDE DEF w, x, done, back, v, r, Z
<1>19. /\ done.tid[t] = w /\ OnlyTid(s, done, t) /\ Beside(s, done, t)
       /\ back.tid[t] = x /\ OnlyTid(s, back, t) /\ Beside(s, back, t)
  BY <1>18, SetAs, SetsBeside
<1>20. free.tid = done.tid /\ free.axq = done.axq /\ free.tidq = done.tidq /\ free \in States
  <2>1. 1 \in Nat OBVIOUS
  <2> QED BY <1>17, <2>1, ReleaseKeeps DEF Release, States
<1> HIDE DEF free
<1>21. Serves(s, t, Z, done) /\ Serves(s, t, Z, free)
  <2>1. Serves(s, t, Z, done) BY <1>3, <1>6, <1>9, <1>15, <1>16, <1>19 DEF Serves, r
  <2> QED BY <1>20, <2>1 DEF Serves, OnlyTid, Beside
<1>22. Serves(s, t, Z, back) BY <1>3, <1>13, <1>14, <1>15, <1>19 DEF Serves, r
<1> SUFFICES \E a \in States : Served(s, t, Z, a, v) BY DEF v, Z
<1>23. CASE v = free BY <1>16, <1>19, <1>20, <1>21, <1>23 DEF Served, r
<1>24. CASE v = BarTx(done, t, f) BY <1>16, <1>17, <1>19, <1>21, <1>24 DEF Served, r
<1>25. CASE v = again BY <1>17, <1>22, <1>25 DEF Served
<1> HIDE DEF again
<1>26. v = free \/ v = BarTx(done, t, f) \/ v = again BY <1>1, Zenon
<1> QED BY <1>23, <1>24, <1>25, <1>26

(* ath_tgt_tx_comp_aggr. *)
LEMMA CompAggrIs ==
    ASSUME NEW s \in States, NEW t \in Tids, NEW chain \in Seq(OwnFrames(t)), NEW ack,
           NEW lim \in Limits, NEW Y, Owes(s, t, Y), ~s.tid[t].cleanup,
           Distinct(chain), SeqsOf(chain) \subseteq Y, SeqsOf(chain) # {}
    PROVE  \E a \in States :
              Served(s, t, Y \ SeqsOf(chain), a, CompAggr(s, t, chain, ack, lim))
<1> DEFINE done == {f \in ToSet(chain) : f.seq \in ack \/ f.retries >= MaxRetries}
           given == {i \in DOMAIN chain : chain[i] \in done /\ chain[i].seq \notin ack}
           again == RetryAll(chain, done)
           w == UpdateBawFor(s.tid[t], chain, done)
           x == Prepend(w, again)
           bar == IF given = {} THEN 0 ELSE 1
           L == Len(chain)
           A == Len(again)
           spare == L - A - bar
           freed == [Release(s, spare) EXCEPT !.tid[t] = x]
           first == chain[Min(given)]
           barred == IF given = {} THEN freed ELSE BarTx(freed, t, first)
           v == CompAggr(s, t, chain, ack, lim)
           r == s.tid[t]
           Z == Y \ SeqsOf(chain)
<1>1. v = IF again = << >> THEN barred ELSE Enqueue(barred, t) BY DEF CompAggr
<1> HIDE DEF v
<1>2. chain \in Seq(Frames) /\ DOMAIN chain = 1..L /\ L \in Nat BY OwnFramesType
<1>3. /\ again \in Seq(OwnFrames(t)) /\ A \in Nat /\ A <= L
      /\ \A i \in 1..L : chain[i] \in done => A < L
  <2> HIDE DEF done
  <2>1. again \in Seq(OwnFrames(t)) BY RetryType
  <2>2. A \in Nat BY <2>1
  <2> QED BY <2>1, <2>2, RetryType
<1>4. given # {} => Min(given) \in given
  <2>1. given \in SUBSET Nat BY <1>2
  <2> HIDE DEF given
  <2> QED BY <2>1, MinOf
<1>5. given # {} => first \in OwnFrames(t) /\ A < L
  <2> SUFFICES ASSUME given # {}
               PROVE  first \in OwnFrames(t) /\ A < L
    OBVIOUS
  <2> DEFINE i == Min(given)
  <2>1. i \in given BY <1>4
  <2> HIDE DEF i
  <2>2. i \in 1..L /\ chain[i] \in done BY <1>2, <2>1
  <2> HIDE DEF done, A, L
  <2> QED BY <1>3, <2>2 DEF i, L
<1>6. r \in TidStates /\ OwnQueue(r, t) /\ TidOk(r, Y) BY Types DEF Owes
<1>7. w \in Windows(r)
  <2> HIDE DEF done
  <2> QED BY <1>2, <1>6, UpdateType
<1>8. r.aggr
  <2>1. ~r.aggr => Y = {} BY <1>6 DEF TidOk, Ended
  <2> QED BY <2>1
<1>9. PICK m \in Nat : InWindow(r, Y, m) BY <1>6, <1>8 DEF TidOk
<1>10. InWindow(x, Z, m)
  <2> HIDE DEF done, r
  <2> QED BY <1>6, <1>9, DoneChain DEF r
<1>11. Lead(x)
  <2> HIDE DEF done, r
  <2> QED BY <1>6, <1>9, ChainLead DEF r
<1> HIDE DEF w, again, first, given, L, Z
<1>12. SameMode(x, r) /\ Follows(s, t, x)
  BY <1>3, <1>6, <1>7, ModeKept, PrependFollows
<1>13. x.sched = r.sched /\ (again = << >> => x.buf_q = r.buf_q)
  <2> DEFINE Q == again \o w.buf_q
  <2>1. w \in TidStates /\ SameQueue(w, r) /\ w.buf_q \in Seq(Frames)
    BY <1>7 DEF Windows, TidStates
  <2>2. again = << >> => Q = w.buf_q BY <2>1
  <2>3. x = [w EXCEPT !.buf_q = Q] BY DEF Prepend
  <2> HIDE DEF Q, x
  <2> QED BY <2>1, <2>2, <2>3 DEF SameQueue, TidStates
<1> HIDE DEF x
<1>14. spare \in Nat
  <2>1. CASE given = {}
    <3>1. bar = 0 BY <2>1
    <3> HIDE DEF bar, A
    <3> QED BY <1>2, <1>3, <3>1
  <2>2. CASE given # {}
    <3>1. bar = 1 BY <2>2
    <3> HIDE DEF bar, A
    <3> QED BY <1>2, <1>3, <1>5, <2>2, <3>1
  <2> QED BY <2>1, <2>2
<1> HIDE DEF spare, A, bar
<1>15. freed = Put(s, spare, t, x) BY DEF Put
<1> HIDE DEF freed
<1>16. freed \in States /\ freed.tid[t] = x /\ OnlyTid(s, freed, t) /\ Beside(s, freed, t)
  <2>1. Put(s, spare, t, x) \in States BY <1>12, <1>14, PutKeeps
  <2> QED BY <1>15, <2>1, PutTid, PutBeside
<1>17. Serves(s, t, Z, freed)
  BY <1>8, <1>10, <1>11, <1>12, <1>13, <1>16 DEF Serves, r
<1>18. barred \in {freed} \cup {BarTx(freed, t, g) : g \in OwnFrames(t)} BY <1>5
<1> HIDE DEF barred
<1>19. Served(s, t, Z, freed, v) BY <1>1, <1>13, <1>16, <1>17, <1>18 DEF Served, r
<1> QED BY <1>16, <1>19 DEF v, Z

(* What follows keeps every identifier in order. *)
LEMMA ServedSess ==
    ASSUME NEW s \in States, NEW t \in Tids, NEW Y, Owes(s, t, Y), Waits(s.tid[t], s.axq, t),
           NEW a \in States, NEW v, Served(s, t, Flight(s.axq, t), a, v)
    PROVE  SessOk(v)
<1> DEFINE Z == Flight(s.axq, t)
<1>1. /\ s.tid[t].aggr /\ SameMode(a.tid[t], s.tid[t]) /\ OnlyTid(s, a, t)
      /\ \E m \in Nat : InWindow(a.tid[t], Z, m)
  BY DEF Served, Serves
<1>2. PICK b \in {a} \cup {BarTx(a, t, f) : f \in OwnFrames(t)} : v = Enqueue(b, t) \/ v = b
  BY DEF Served
<1> HIDE DEF Served, Z
<1>3. Owes(a, t, Z) /\ a.axq = s.axq /\ Waits(a.tid[t], a.axq, t) BY <1>1, ReplaceOwes
<1>4. b \in States /\ SessOk(b)
  <2>1. SessOk(a) BY <1>3, OwesAll DEF Z
  <2>2. ASSUME NEW f \in OwnFrames(t)
        PROVE  BarTx(a, t, f) \in States /\ SessOk(BarTx(a, t, f))
    <3> DEFINE z == BarTx(a, t, f)
    <3>1. Owes(z, t, Z) /\ Flight(z.axq, t) = Flight(a.axq, t) /\ Waits(z.tid[t], z.axq, t)
          /\ z \in States
      BY <1>3, BarTxOwes, BarTxKeeps
    <3> HIDE DEF z
    <3>2. SessOk(z) BY <1>3, <3>1, OwesAll DEF Z
    <3> QED BY <3>1, <3>2 DEF z
  <2> QED BY <2>1, <2>2
<1>5. SessOk(Enqueue(b, t)) BY <1>4, EnqueueAside, AsideOk
<1> QED BY <1>2, <1>4, <1>5

(* owltgt_tx_processq: the oldest chain, and who handles it. *)
LEMMA CompleteIs ==
    ASSUME NEW s \in States, SessOk(s), NoReinit(s), s.axq # << >>, NEW ack, NEW lim \in Limits
    PROVE  \E f, t, Y, ok : Completes(Rest(s), Head(s.axq), f, t, Y, ok, lim,
                                      Complete(s, ack, lim), CompCount(s))
<1> DEFINE chain == Head(s.axq)
           f == Head(chain)
           t == f.tid
           rest == Rest(s)
           ok == f.seq \in ack
           r == s.tid[t]
           L == Len(chain)
           k == CompCount(s)
           v == Complete(s, ack, lim)
<1>1. v = CASE f.kind = "mgt"    -> Release(rest, 1)
            [] f.kind = "normal" -> CompNormal(rest, t, lim)
            [] f.kind = "bar"    -> CompBar(rest, t, f, ok, lim)
            [] f.kind = "aggr" /\ rest.tid[t].cleanup -> CompCleanup(rest, t, chain, lim)
            [] f.kind = "aggr" /\ ~rest.tid[t].cleanup /\ L = 1 -> CompUnaggr(rest, t, f, ok)
            [] OTHER -> CompAggr(rest, t, chain, ack, lim)
  BY DEF Complete, Rest
<1>2. k = IF f.kind = "aggr" /\ r.cleanup THEN CleanupCount(r, chain) ELSE L
  BY DEF CompCount
<1>3. chain \in Chains /\ L \in Nat /\ rest \in States /\ rest.tid = s.tid /\ rest.axq = Tail(s.axq)
  BY RestKeeps
<1>4. chain \in Seq(Frames) /\ L >= 1 /\ f = chain[1] /\ f \in Frames
  BY <1>3 DEF Chains
<1>5. /\ f.kind = "mgt" => L = 1
      /\ f.kind \in {"normal", "bar"} => L = 1 /\ t \in Tids
      /\ f.kind \notin {"mgt", "normal", "bar"} =>
            f.kind = "aggr" /\ t \in Tids /\ chain \in Seq(OwnFrames(t)) /\ f \in OwnFrames(t)
  <2>1. CASE L = 1 /\ chain[1] \in Singles BY <1>4, <2>1 DEF Singles
  <2>2. ASSUME NEW u \in Tids, chain \in Seq(OwnFrames(u))
        PROVE  f.kind = "aggr" /\ t = u /\ f \in OwnFrames(u)
    <3>1. 1 \in 1..L BY <1>3, <1>4
    <3>2. chain[1] \in OwnFrames(u) BY <2>2, <3>1
    <3> QED BY <1>4, <3>2 DEF OwnFrames
  <2> QED BY <1>3, <2>1, <2>2 DEF Chains
<1>6. t = Head(s.axq)[1].tid /\ f.kind = Head(s.axq)[1].kind BY <1>4
<1>20. t \notin Tids => SessOk(rest)
  <2>1. Head(s.axq)[1].tid \notin Tids => SessOk(Rest(s)) BY RestOwes
  <2> HIDE DEF t, rest
  <2> QED BY <1>6, <2>1 DEF rest
<1> DEFINE Y == Flight(s.axq, t)
<1>7. t \in Tids => Leaves(chain, t, Y, rest)
  <2>1. \A u \in Tids : Head(s.axq)[1].tid = u => Leaves(Head(s.axq), u, Flight(s.axq, u), Rest(s))
    BY RestOwes
  <2> HIDE DEF t
  <2> QED BY <1>6, <2>1
<1>16. f.kind = chain[1].kind BY <1>4
<1>8. t \in Tids => ~rest.tid[t].reinit /\ rest.tid[t] = r BY <1>3 DEF NoReinit
<1>9. t \in Tids /\ f.kind = "aggr" =>
        Cardinality(Y) = L + Cardinality(Flight(rest.axq, t))
        /\ Cardinality(Flight(rest.axq, t)) \in Nat
  <2>1. ASSUME t \in Tids, f.kind = "aggr"
        PROVE  Cardinality(Y) = L + Cardinality(Flight(rest.axq, t))
               /\ Cardinality(Flight(rest.axq, t)) \in Nat
    <3>1. s.axq \in Seq(Chains) /\ Session(Head(s.axq), t) /\ InLine(s.axq, t)
      BY <1>4, <2>1, Types DEF Session, SessOk, TidSess
    <3>2. /\ Cardinality(Flight(s.axq, t)) = Len(Head(s.axq)) + Cardinality(Flight(Tail(s.axq), t))
          /\ Cardinality(Flight(Tail(s.axq), t)) \in Nat
      <4> HIDE DEF t
      <4> QED BY <2>1, <3>1, FlightHead
    <3> QED BY <1>3, <3>2
  <2> QED BY <2>1
<1> HIDE DEF v, f, t, chain, rest, L, k, r, Y
<1>10. ok \in BOOLEAN /\ 1 \in Nat OBVIOUS
<1> HIDE DEF ok
<1>15. SUFFICES Completes(rest, chain, f, t, Y, ok, lim, v, k)
  BY DEF v, rest, chain, k
<1>11. CASE f.kind = "mgt"
  <2>1. v = Release(rest, 1) BY <1>1, <1>11, Zenon
  <2>2. SessOk(rest)
    <3>1. t \in Tids => Owes(rest, t, Flight(rest.axq, t)) /\ Waits(rest.tid[t], rest.axq, t)
      BY <1>7, <1>11, <1>16 DEF Leaves
    <3> QED BY <1>20, <3>1, OwesAll
  <2>3. k = L BY <1>2, <1>11
  <2> QED BY <1>11, <2>1, <2>2, <2>3 DEF Completes, MgtDone, L
<1>12. CASE f.kind = "normal"
  <2>1. v = CompNormal(rest, t, lim) BY <1>1, <1>12, Zenon
  <2>2. /\ Owes(rest, t, Flight(rest.axq, t)) /\ Waits(rest.tid[t], rest.axq, t)
        /\ Flight(rest.axq, t) = {} /\ ~rest.tid[t].reinit /\ t \in Tids
    BY <1>5, <1>7, <1>8, <1>12, <1>16 DEF Leaves
  <2>3. k = L BY <1>2, <1>12
  <2> QED BY <1>12, <2>1, <2>2, <2>3 DEF Completes, NormalDone, L
<1>13. CASE f.kind = "bar"
  <2>1. v = CompBar(rest, t, f, ok, lim) BY <1>1, <1>13, Zenon
  <2>2. Owes(rest, t, Flight(rest.axq, t)) /\ t \in Tids
    BY <1>5, <1>7, <1>13, <1>16 DEF Leaves
  <2>3. k = L /\ f.tid = t BY <1>2, <1>13 DEF t
  <2> QED BY <1>4, <1>10, <1>13, <2>1, <2>2, <2>3 DEF Completes, BarDone, L
<1>14. CASE f.kind \notin {"mgt", "normal", "bar"}
  <2>0. f.kind = "aggr" /\ t \in Tids /\ chain \in Seq(OwnFrames(t)) /\ f \in OwnFrames(t)
    BY <1>5, <1>14
  <2>1. /\ Owes(rest, t, Y) /\ Waits(rest.tid[t], rest.axq, t)
        /\ Flight(rest.axq, t) = Y \ SeqsOf(chain) /\ SeqsOf(chain) \subseteq Y /\ Distinct(chain)
        /\ ~rest.tid[t].reinit /\ rest.tid[t] = r
        /\ Cardinality(Y) = L + Cardinality(Flight(rest.axq, t))
        /\ Cardinality(Flight(rest.axq, t)) \in Nat
    BY <1>7, <1>8, <1>9, <1>16, <2>0 DEF Leaves
  <2>2. SeqsOf(chain) = {chain[i].seq : i \in 1..L} BY <1>3, <2>0, ChainType DEF L
  <2>3. OffAir(rest, chain, t, Y)
    <3>1. 1 \in 1..L BY <1>3, <1>4
    <3>2. SeqsOf(chain) # {} BY <2>2, <3>1
    <3> QED BY <2>0, <2>1, <3>2 DEF OffAir
  <2>4. CASE r.cleanup
    <3>1. v = CompCleanup(rest, t, chain, lim) BY <1>1, <2>0, <2>1, <2>4, Zenon
    <3>2. Enough(r, L, Flight(rest.axq, t))
      <4>1. TidOk(r, Y) BY <2>1 DEF Owes
      <4>2. r.incomp >= Cardinality(Y) /\ (Exactly => r.incomp = Cardinality(Y))
        BY <2>4, <4>1 DEF TidOk, Ended
      <4>3. r.incomp \in Int
        <5>1. rest.tid[t] \in TidStates BY <1>3, <2>0, Types
        <5> QED BY <2>1, <5>1 DEF TidStates
      <4> DEFINE F == Cardinality(Flight(rest.axq, t))
                 D == Cardinality(Y)
                 i == r.incomp
      <4>4. F \in Nat /\ D = L + F /\ i \in Int /\ i >= D /\ (Exactly => i = D)
        BY <2>1, <4>2, <4>3
      <4> HIDE DEF F, D, i
      <4>5. F <= i - L /\ (Exactly => F = i - L) BY <1>3, <4>4
      <4> QED BY <4>5 DEF Enough, F, i
    <3>3. k = CleanupCount(r, chain) BY <1>2, <2>0, <2>4
    <3> QED BY <1>3, <2>1, <2>3, <2>4, <3>1, <3>2, <3>3 DEF Completes, CleanupDone, L
  <2>5. CASE ~r.cleanup
    <3>1. k = L BY <1>2, <2>5
    <3>2. ~rest.tid[t].cleanup /\ OffAir(rest, chain, t, Y) BY <2>1, <2>3, <2>5
    <3>3. \E a \in States : Served(rest, t, Flight(rest.axq, t), a, v)
      <4>1. CASE L = 1
        <5>1. v = CompUnaggr(rest, t, f, ok) BY <1>1, <2>0, <2>1, <2>5, <4>1, Zenon
        <5>2. SeqsOf(chain) = {f.seq} BY <1>4, <2>2, <4>1
        <5>3. f.seq \in Y /\ Flight(rest.axq, t) = Y \ {f.seq} BY <2>1, <5>2
        <5>4. \E a \in States : Served(rest, t, Y \ {f.seq}, a, CompUnaggr(rest, t, f, ok))
          BY <1>3, <1>10, <2>0, <2>1, <3>2, <5>3, CompUnaggrIs
        <5> QED BY <5>1, <5>3, <5>4
      <4>2. CASE L # 1
        <5>1. v = CompAggr(rest, t, chain, ack, lim)
          BY <1>1, <2>0, <2>1, <2>5, <4>2, Zenon
        <5> QED BY <1>3, <2>0, <2>1, <3>2, <5>1, CompAggrIs DEF OffAir
      <4> QED BY <4>1, <4>2
    <3> QED BY <3>1, <3>2, <3>3 DEF Completes, ServeDone, L
  <2> QED BY <2>4, <2>5
<1> QED BY <1>11, <1>12, <1>13, <1>14

(* owltgt_tx_processq. *)
LEMMA CompleteSess ==
    ASSUME NEW s \in States, SessOk(s), NoReinit(s), s.axq # << >>, NEW ack, NEW lim \in Limits
    PROVE  SessOk(Complete(s, ack, lim)) /\ CompCount(s) = Len(Head(s.axq))
<1> DEFINE rest == Rest(s)
           v == Complete(s, ack, lim)
           k == CompCount(s)
           chain == Head(s.axq)
<1>1. rest \in States BY RestKeeps
<1>2. PICK f, t, Y, ok : Completes(rest, chain, f, t, Y, ok, lim, v, k)
  BY CompleteIs
<1> HIDE DEF rest, v, k, chain
<1>3. CASE MgtDone(rest, chain, f, v, k) BY <1>1, <1>3, ReleaseSess DEF MgtDone, v, k, chain
<1>4. CASE NormalDone(rest, chain, f, t, lim, v, k)
  BY <1>1, <1>4, CompNormalSess DEF NormalDone, v, k, chain
<1>5. CASE BarDone(rest, chain, f, t, ok, lim, v, k)
  BY <1>1, <1>5, CompBarSess DEF BarDone, v, k, chain
<1>6. CASE CleanupDone(rest, chain, t, Y, lim, v, k)
  BY <1>1, <1>6, CompCleanupSess DEF CleanupDone, OffAir, v, k, chain
<1>7. CASE ServeDone(rest, chain, t, Y, v, k)
  BY <1>1, <1>7, ServedSess DEF ServeDone, OffAir, v, k, chain
<1> QED BY <1>2, <1>3, <1>4, <1>5, <1>6, <1>7 DEF Completes

-----------------------------------------------------------------------------
(* The account of the buffers *)

(* Two accounts that agree in sum and in one entry agree in the other. *)
LEMMA SameBooks ==
    ASSUME NEW a \in Int, NEW b \in Int, NEW n \in Int, NEW c \in Int, NEW d \in Int, NEW m \in Int,
           c + d = a + b, c + m = a + n, b = n
    PROVE  d = m
OBVIOUS

(* A handler that keeps the buffers keeps the account. *)
LEMMA EvenKeeps ==
    ASSUME NEW s \in States, Even(s), NEW v, Keeps(s, v, 0), SessOk(v)
    PROVE  Even(v)
<1>1. v \in States /\ v.free + v.held = s.free + s.held /\ NoReinit(v) /\ Account(v) = Account(s) + 0
  BY DEF Keeps, Even
<1>2. s.free \in Int /\ s.held \in Int /\ NumFrames(s) \in Int /\ Account(s) = s.free + NumFrames(s)
      /\ Account(s) \in Int
  BY Nums
<1>3. v.free \in Int /\ v.held \in Int /\ NumFrames(v) \in Int /\ Account(v) = v.free + NumFrames(v)
  BY <1>1, Nums
<1>4. s.held = NumFrames(s) /\ s.free + s.held = NumBufs BY DEF Even
<1> DEFINE A == Account(s)
<1> HIDE DEF A
<1>5. A + 0 = A BY <1>2 DEF A
<1>6. v.free + NumFrames(v) = s.free + NumFrames(s)
  BY <1>1, <1>2, <1>3, <1>5 DEF A
<1>7. v.held = NumFrames(v) BY <1>1, <1>2, <1>3, <1>4, <1>6, SameBooks
<1> QED BY <1>1, <1>4, <1>7 DEF Even

(* A frame is taken in and put into a queue. *)
LEMMA EvenTakes ==
    ASSUME NEW s \in States, Even(s), NEW u, Took(s, u), NEW v, Keeps(u, v, 1), SessOk(v)
    PROVE  Even(v)
<1>1. u \in States /\ v \in States /\ v.free + v.held = u.free + u.held
  BY DEF Keeps, Took
<1>2. NoReinit(u) /\ NoReinit(v) /\ Account(v) = Account(u) + 1
  BY DEF Keeps, Even, Took
<1>3. s.free \in Int /\ s.held \in Int /\ NumFrames(s) \in Int /\ Account(s) = s.free + NumFrames(s)
      /\ Account(s) \in Int
  BY Nums
<1>4. v.free \in Int /\ v.held \in Int /\ NumFrames(v) \in Int /\ Account(v) = v.free + NumFrames(v)
  BY <1>1, Nums
<1>5. s.held = NumFrames(s) /\ s.free + s.held = NumBufs BY DEF Even
<1>6. u.free = s.free - 1 /\ u.held = s.held + 1 /\ Account(u) = Account(s) - 1
  BY DEF Took
<1> DEFINE A == Account(s)
<1> HIDE DEF A
<1>7. (A - 1) + 1 = A BY <1>3 DEF A
<1>8. Account(v) = A BY <1>2, <1>6, <1>7 DEF A
<1>9. (s.free - 1) + (s.held + 1) = s.free + s.held BY <1>3
<1>10. v.free + v.held = s.free + s.held BY <1>1, <1>6, <1>9
<1>11. v.free + NumFrames(v) = s.free + NumFrames(s) BY <1>3, <1>4, <1>8 DEF A
<1>12. v.held = NumFrames(v)
  <2>1. /\ s.free \in Int /\ s.held \in Int /\ NumFrames(s) \in Int
        /\ v.free \in Int /\ v.held \in Int /\ NumFrames(v) \in Int
    BY <1>3, <1>4
  <2>2. s.held = NumFrames(s) BY <1>5
  <2> QED BY <1>10, <1>11, <2>1, <2>2, SameBooks
<1> QED BY <1>1, <1>2, <1>5, <1>10, <1>12 DEF Even

(* A queue is no longer than all of them together. *)
LEMMA QueueFits ==
    ASSUME NEW s \in States, NEW t \in Tids
    PROVE  Len(s.tid[t].buf_q) <= NumFrames(s) /\ Len(s.tid[t].buf_q) \in Nat
<1> DEFINE m == s.tid
           n == Len(s.tid[t].buf_q)
           U == Tids \ {t}
<1>1. /\ m \in TidMap /\ NumFrames(s) = Sent(s.axq) + Queued(m)
      /\ Sent(s.axq) \in Nat /\ Queued(m) \in Nat /\ n \in Nat
  BY Types
<1>2. PICK f : QueueSum(f, m) /\ f[Tids] = Queued(m) BY <1>1, MapSum
<1>3. f[Tids] = f[U] + QueueLen(m, t) /\ f[U] \in Nat BY <1>2 DEF QueueSum
<1>4. QueueLen(m, t) = n BY DEF QueueLen
<1> HIDE DEF m, n, U
<1>5. n <= NumFrames(s) BY <1>1, <1>2, <1>3, <1>4
<1> QED BY <1>1, <1>5 DEF n

(* When no frame is held, all queues are empty. *)
LEMMA NothingHeld ==
    ASSUME NEW s \in States, NumFrames(s) = 0
    PROVE  s.axq = << >> /\ \A t \in Tids : s.tid[t].buf_q = << >>
<1>1. s.axq = << >>
  <2>1. ASSUME s.axq # << >>
        PROVE  FALSE
    <3>1. s.axq \in Seq(Chains) /\ Head(s.axq) \in Chains /\ Tail(s.axq) \in Seq(Chains)
      BY <2>1, Types, TailParts
    <3>2. Chains \subseteq Seq(Frames) BY DEF Chains
    <3>3. s.axq \in Seq(Seq(Frames)) /\ Tail(s.axq) \in Seq(Seq(Frames))
      BY <3>1, <3>2
    <3>4. Sent(s.axq) = Len(Head(s.axq)) + Sent(Tail(s.axq)) /\ Sent(Tail(s.axq)) \in Nat
      BY <2>1, <3>3, SentTail, SentNat
    <3>5. Len(Head(s.axq)) >= 1 /\ Len(Head(s.axq)) \in Nat
      <4>1. Head(s.axq) \in Seq(Frames) /\ Head(s.axq) # << >>
        BY <3>1 DEF Chains
      <4> DEFINE c == Head(s.axq)
      <4> HIDE DEF c
      <4> QED BY <4>1 DEF c
    <3>6. NumFrames(s) = Sent(s.axq) + Queued(s.tid) /\ Queued(s.tid) \in Nat
      BY Nums
    <3> QED BY <3>4, <3>5, <3>6
  <2> QED BY <2>1
<1>2. ASSUME NEW t \in Tids
      PROVE  s.tid[t].buf_q = << >>
  <2>1. Len(s.tid[t].buf_q) = 0 BY QueueFits
  <2>2. s.tid[t].buf_q \in Seq(OwnFrames(t)) BY Types
  <2> QED BY <2>1, <2>2
<1> QED BY <1>1, <1>2

(* An empty hardware queue is in line. *)
LEMMA FlightNone ==
    ASSUME NEW t
    PROVE  Flight(<< >>, t) = {} /\ InLine(<< >>, t) /\ \A k : ~Has(<< >>, t, k)
BY DEF Flight, InLine, InOrder, Separate, Has

(* A station that is gone has nothing in the hardware queue, and no drain. *)
LEMMA Absent ==
    ASSUME Orderly, IInv, SInv, ~valid
    PROVE  sc.axq = << >> /\ ~txdone /\ ~draining /\ NumFrames(sc) = 0 /\ "node" \in HostOps
<1>1. NumFrames(sc) = 0 /\ "node" \in HostOps BY DEF SInv, Gone, Even
<1>2. sc.axq = << >> BY <1>1, NothingHeld DEF IInv, Good
<1> QED BY <1>1, <1>2 DEF Orderly, SInv, IInv

(* The station has just been created. *)
LEMMA SInvInit ==
    ASSUME Init
    PROVE  SInv
<1>1. IInv BY InitInv
<1>2. /\ sc.tid = [t \in Tids |-> FreshTid] /\ sc.axq = << >> /\ sc.tidq = << >>
      /\ sc.free = NumBufs /\ sc.held = 0 /\ valid /\ ~draining
  BY DEF Init
<1>3. sc \in States /\ NumFrames(sc) <= 0 /\ NumFrames(sc) \in Nat
  BY <1>1, <1>2, Nums DEF IInv, Good, BufferOnce
<1>4. NumBufs \in Nat BY TxAssumption
<1>5. /\ FreshTid.buf_q = << >> /\ FreshTid.baw_head = 0 /\ FreshTid.baw_tail = 0
      /\ FreshTid.bitmap = {} /\ ~FreshTid.aggr /\ ~FreshTid.cleanup /\ FreshTid.incomp = 0
      /\ ~FreshTid.paused /\ ~FreshTid.reinit /\ FreshTid \in TidStates
  BY RingTypes DEF FreshTid, TidStates
<1>6. Ended(FreshTid, {})
  <2>1. Span(FreshTid) = 0
    <3>1. Span(FreshTid) = (0 - 0) % TidMaxBufs BY <1>5 DEF Span
    <3> DEFINE d == 0 - 0
    <3>2. d = 0 /\ d \in Int /\ TidMaxBufs \in Nat /\ TidMaxBufs >= 1
      BY BawBounds
    <3> HIDE DEF d
    <3>3. d % TidMaxBufs = d BY <3>2, ModCases
    <3> QED BY <3>1, <3>2, <3>3 DEF d
  <2> QED BY <1>5, <2>1 DEF Ended
<1>7. \A t \in Tids : TidSess(sc.tid[t], sc.axq, t)
  <2> TAKE t \in Tids
  <2>1. sc.tid[t] = FreshTid BY <1>2
  <2>2. TidOk(FreshTid, {}) /\ NoNormal(FreshTid, << >>, t) /\ Waits(FreshTid, << >>, t)
    BY <1>5, <1>6 DEF TidOk, NoNormal, Waits
  <2> QED BY <1>2, <2>1, <2>2, FlightNone DEF TidSess
<1>8. NoReinit(sc) BY <1>2, <1>5 DEF NoReinit
<1>9. Even(sc) BY <1>2, <1>3, <1>4, <1>7, <1>8 DEF Even, SessOk
<1> QED BY <1>2, <1>9 DEF SInv

-----------------------------------------------------------------------------
(* One lemma for each action *)

(* A completion gives up the buffers of the frames it is for, and no other. *)
LEMMA CompleteEven ==
    ASSUME NEW s \in States, Even(s), s.axq # << >>, NEW ack, NEW lim \in Limits
    PROVE  Complete(s, ack, lim) \in States /\ Even(Complete(s, ack, lim))
<1> DEFINE v == Complete(s, ack, lim)
           k == CompCount(s)
           L == Len(Head(s.axq))
<1>1. SessOk(v) /\ k = L BY CompleteSess DEF Even
<1>2. v \in States /\ Keeps(s, v, k - L) BY CompleteKeeps
<1>3. L \in Nat BY RestKeeps
<1> HIDE DEF v, k, L
<1>4. k - L = 0 BY <1>1, <1>3
<1>5. Keeps(s, v, 0) BY <1>2, <1>4
<1>6. Even(v) BY <1>1, <1>5, EvenKeeps
<1> QED BY <1>2, <1>6 DEF v

(* The hardware finishes a chain. *)
LEMMA HwDoneSess ==
    ASSUME SInv, HwDone
    PROVE  SInv'
BY DEF HwDone, SInv

(* owl_tgt_tx_tasklet *)
LEMMA TxCompleteSess ==
    ASSUME Orderly, IInv, SInv, TxComplete
    PROVE  SInv'
<1>1. txdone /\ sc.axq # << >> /\ valid' = valid /\ draining' = draining /\ sc \in States /\ Even(sc)
  BY DEF TxComplete, IInv, SInv, Good
<1>2. PICK lim1 \in Limits, lim2 \in Limits : sc' = Schedule(Complete(sc, acked, lim1), lim2)
  BY DEF TxComplete
<1> DEFINE u == Complete(sc, acked, lim1)
           v == Schedule(u, lim2)
<1>3. u \in States /\ Even(u) BY <1>1, CompleteEven
<1> HIDE DEF u
<1>4. SessOk(v) /\ Keeps(u, v, 0) BY <1>3, ScheduleSess, ScheduleKeeps DEF Even
<1> HIDE DEF v
<1>5. Even(v) BY <1>3, <1>4, EvenKeeps
<1>6. valid BY <1>1, Absent
<1>7. sc' = v BY <1>2 DEF u, v
<1> QED BY <1>1, <1>5, <1>6, <1>7 DEF SInv

(* A chain completed by ath_draintxq *)
LEMMA DrainNextSess ==
    ASSUME Orderly, IInv, SInv, DrainNext
    PROVE  SInv'
<1>1. sc.axq # << >> /\ valid' = valid /\ draining' = draining /\ sc \in States /\ Even(sc)
  BY DEF DrainNext, IInv, SInv, Good
<1>2. PICK lim \in Limits : sc' = Complete(sc, DrainStatus, lim)
  BY DEF DrainNext
<1> DEFINE v == Complete(sc, DrainStatus, lim)
<1>3. Even(v) BY <1>1, CompleteEven
<1>4. valid BY <1>1, Absent
<1> HIDE DEF v
<1>5. sc' = v BY <1>2 DEF v
<1> QED BY <1>1, <1>3, <1>4, <1>5 DEF SInv

(* ath_draintxq begins. *)
LEMMA DrainStartSess ==
    ASSUME SInv, DrainStart
    PROVE  SInv'
<1>1. sc' = sc /\ valid' = valid /\ ~Exactly BY DEF DrainStart, Exactly
<1> QED BY <1>1 DEF SInv

(* The end of ath_draintxq: the identifiers are drained. *)
LEMMA DrainEndSess ==
    ASSUME Orderly, IInv, SInv, DrainEnd
    PROVE  SInv'
<1> DEFINE q == sc.tidq
           b == Unlink(sc, Len(q))
           D == {u \in States : Keeps(sc, u, 0) /\ SessOk(u) /\ u.axq = << >>}
           v == FoldLeft(TidDrain, b, q)
<1>1. sc' = v /\ valid' = valid /\ draining' = FALSE /\ sc.axq = << >> /\ draining
  BY DEF DrainEnd
<1>2. sc \in States /\ Even(sc) /\ SessOk(sc) /\ ~Exactly
  BY <1>1 DEF IInv, Good, SInv, Even
<1>3. q \in Seq(Tids) /\ Len(q) \in Nat BY <1>2, Types
<1>4. b \in D
  <2>1. Len(q) \in 0..Len(q) BY <1>3
  <2>2. Aside(sc, b) BY <1>2, <2>1, UnlinkAside
  <2>3. b \in States /\ Keeps(sc, b, 0) /\ b.axq = sc.axq
    BY <1>2, <2>1, UnlinkKeeps
  <2>4. SessOk(b) BY <1>2, <2>2, AsideOk
  <2> QED BY <1>1, <2>3, <2>4
<1>5. ASSUME NEW n \in 1..Len(q), NEW u \in D
      PROVE  TidDrain(u, q[n]) \in D
  <2>1. q[n] \in Tids /\ u \in States /\ Keeps(sc, u, 0) /\ SessOk(u) /\ u.axq = << >>
    BY <1>3
  <2> DEFINE w == TidDrain(u, q[n])
  <2>2. w \in States /\ Keeps(u, w, 0) BY <2>1, DrainKeeps
  <2>3. SessOk(w) /\ w.axq = << >> BY <1>2, <2>1, DrainSess
  <2>4. 0 \in Int /\ 0 + 0 = 0 OBVIOUS
  <2> HIDE DEF w
  <2>5. Keeps(sc, w, 0) BY <1>2, <2>1, <2>2, <2>4, KeepsTwo
  <2> QED BY <2>2, <2>3, <2>5 DEF w
<1> HIDE DEF b, D, q, v
<1>6. DrainRuns(q, D, b) BY <1>3, <1>4, <1>5, DrainRun
<1>7. v \in D
  <2>1. PICK p \in [0..Len(q) -> D] : p[Len(q)] = FoldLeft(TidDrain, b, q)
    BY <1>6 DEF DrainRuns
  <2>2. Len(q) \in 0..Len(q) BY <1>3
  <2> QED BY <2>1, <2>2 DEF v
<1>8. Keeps(sc, v, 0) /\ SessOk(v) BY <1>7 DEF D
<1>9. Even(v) BY <1>2, <1>8, EvenKeeps
<1>10. valid BY <1>1, Absent
<1> QED BY <1>1, <1>9, <1>10 DEF SInv

(* ath_tgt_tx_prepare touches one identifier, and only its next number. *)
LEMMA PreparedNumbers ==
    ASSUME sc \in States, NEW t \in Tids
    PROVE  Numbers(sc, Prepared(t), t)
<1> DEFINE r == sc.tid[t]
           n == SeqPlus(r.seq_next, 1)
           w == [sc EXCEPT !.free = sc.free - 1]
           y == [w EXCEPT !.held = sc.held + 1]
           x == [r EXCEPT !.seq_next = n]
           v == [y EXCEPT !.tid[t] = x]
<1>1. w \in [tid : {sc.tid}, axq : {sc.axq}, tidq : {sc.tidq}, free : {sc.free - 1}, held : {sc.held}]
  BY DEF States
<1>2. y \in [tid : {sc.tid}, axq : {sc.axq}, tidq : {sc.tidq}, free : {sc.free - 1}, held : {sc.held + 1}]
  BY <1>1
<1>3. Prepared(t) = v BY DEF Prepared, States
<1>4. v.tid = [sc.tid EXCEPT ![t] = x] /\ v.axq = sc.axq BY <1>2
<1>5. sc.tid \in [Tids -> TidStates] BY Types DEF TidMap
<1>6. x = Numbered(r) BY DEF Numbered
<1> HIDE DEF w, y, v, x, r
<1>7. v.tid[t] = x /\ \A o \in Tids \ {t} : v.tid[o] = sc.tid[o] BY <1>4, <1>5
<1> QED BY <1>3, <1>4, <1>6, <1>7 DEF Numbers, OnlyTid, r

(* A session closed stays closed when only the numbers change. *)
LEMMA EndedStays ==
    ASSUME NEW r, NEW X, Ended(r, X), NEW u,
           u.buf_q = r.buf_q, u.baw_head = r.baw_head, u.baw_tail = r.baw_tail,
           u.bitmap = r.bitmap, u.cleanup = r.cleanup, u.incomp = r.incomp
    PROVE  Ended(u, X)
<1>1. Span(u) = Span(r) BY DEF Span
<1> QED BY <1>1 DEF Ended

(* What that leaves alone *)
LEMMA StartedIs ==
    ASSUME NEW r \in TidStates
    PROVE  /\ Started(r) \in TidStates /\ Numbered(r) \in TidStates
           /\ SameMode(Started(r), r) /\ SameMode(Numbered(r), r)
           /\ Started(r).buf_q = r.buf_q /\ Started(r).baw_head = r.baw_head
           /\ Started(r).baw_tail = r.baw_tail /\ Started(r).bitmap = r.bitmap
           /\ Started(r).reinit = r.reinit /\ Started(r).sched = r.sched
           /\ Numbered(r).buf_q = r.buf_q /\ Numbered(r).seq_start = r.seq_start
           /\ Numbered(r).reinit = r.reinit /\ Numbered(r).sched = r.sched
<1> DEFINE n == SeqPlus(r.seq_next, 1)
           k == SeqPlus(r.seq_start, 1)
           x == [r EXCEPT !.seq_next = n]
           y == [x EXCEPT !.seq_start = k]
<1>1. r.seq_next \in SeqNos /\ r.seq_start \in SeqNos BY DEF TidStates
<1>2. n \in SeqNos /\ k \in SeqNos
  <2>1. r.seq_next \in Int /\ r.seq_start \in Int BY <1>1, RingTypes
  <2>2. r.seq_next + 1 \in Int /\ r.seq_start + 1 \in Int BY <2>1
  <2> QED BY <2>2, RingTypes DEF SeqPlus
<1>3. Numbered(r) = x BY DEF Numbered
<1>4. x.seq_start = r.seq_start BY DEF TidStates
<1>5. Started(r) = y BY <1>3, <1>4 DEF Started
<1> HIDE DEF n, k
<1>6. /\ x \in TidStates /\ x.buf_q = r.buf_q /\ x.seq_start = r.seq_start
      /\ x.reinit = r.reinit /\ x.sched = r.sched
      /\ x.aggr = r.aggr /\ x.cleanup = r.cleanup /\ x.incomp = r.incomp /\ x.paused = r.paused
  BY <1>2 DEF TidStates
<1>7. /\ y \in TidStates /\ y.buf_q = r.buf_q /\ y.baw_head = r.baw_head
      /\ y.baw_tail = r.baw_tail /\ y.bitmap = r.bitmap
      /\ y.reinit = r.reinit /\ y.sched = r.sched
      /\ y.aggr = r.aggr /\ y.cleanup = r.cleanup /\ y.incomp = r.incomp /\ y.paused = r.paused
  BY <1>2 DEF TidStates
<1> HIDE DEF x, y
<1> QED BY <1>3, <1>5, <1>6, <1>7 DEF SameMode

(* ath_tgt_handle_normal *)
LEMMA HandleNormalSess ==
    ASSUME NEW s \in States, SessOk(s), NEW t \in Tids, ~s.tid[t].aggr,
           NEW u \in States, Numbers(s, u, t),
           NEW f \in Frames, f.kind = "normal", f.tid = t
    PROVE  SessOk(HandleNormal(u, t, f))
<1> DEFINE r == s.tid[t]
           X == Flight(s.axq, t)
           x == Started(r)
           w == [u EXCEPT !.tid[t] = x]
           c == <<f>>
           v == TxqAdd(w, c)
<1>1. r \in TidStates /\ u.tid[t] = Numbered(r) /\ OnlyTid(s, u, t)
  BY Types DEF Numbers
<1>2. HandleNormal(u, t, f) = v
  <2>1. u.tid \in [Tids -> TidStates] BY Types DEF TidMap
  <2>2. [u EXCEPT !.tid[t].seq_start = SeqPlus(@, 1)] = w
    BY <1>1, <2>1 DEF Started, States
  <2> QED BY <2>2 DEF HandleNormal
<1>3. c \in Chains /\ c[1] = f
  <2>1. f \in Singles BY DEF Singles
  <2>2. c \in Seq(Frames) /\ c # << >> /\ Len(c) = 1 /\ c[1] = f OBVIOUS
  <2> QED BY <2>1, <2>2 DEF Chains
<1>4. Sets(w, u, t, x) BY DEF Sets
<1>5. w \in States
  <2>1. x \in TidStates /\ x.buf_q = u.tid[t].buf_q /\ x.reinit = u.tid[t].reinit /\ x.sched = u.tid[t].sched
    BY <1>1, StartedIs
  <2> HIDE DEF x, r
  <2> QED BY <2>1, FieldKeeps
<1> HIDE DEF w, c
<1>6. w.tid[t] = x /\ OnlyTid(u, w, t) BY <1>4, SetAs
<1>7. OnlyTid(s, w, t) /\ w.axq = s.axq BY <1>1, <1>6, OnlyTrans DEF OnlyTid
<1>8. Owes(s, t, X) /\ Waits(r, s.axq, t) BY OwesAll
<1>9. SameMode(x, r) BY <1>1, StartedIs
<1>10. TidOk(w.tid[t], X) /\ ~w.tid[t].aggr
  <2>1. Ended(r, X) BY <1>8 DEF Owes, TidOk
  <2>2. Ended(x, X)
    <3>1. /\ x.buf_q = r.buf_q /\ x.baw_head = r.baw_head /\ x.baw_tail = r.baw_tail
          /\ x.bitmap = r.bitmap /\ x.cleanup = r.cleanup /\ x.incomp = r.incomp
      BY <1>1, StartedIs DEF SameMode
    <3> HIDE DEF x, X, r
    <3> QED BY <2>1, <3>1, EndedStays
  <2>3. ~x.aggr BY <1>9 DEF SameMode
  <2> HIDE DEF x, X
  <2> QED BY <1>6, <2>2, <2>3 DEF TidOk
<1> HIDE DEF x, X
<1>11. Owes(w, t, X) BY <1>7, <1>8, <1>10, OwesOnly
<1>12. Waits(w.tid[t], w.axq, t) BY <1>6, <1>7, <1>8, <1>9 DEF Waits, SameMode
<1>13. Flight(w.axq, t) = X BY <1>7 DEF X
<1>14. Owes(v, t, X) /\ Flight(v.axq, t) = Flight(w.axq, t) /\ Waits(v.tid[t], v.axq, t)
  <2>1. c[1].kind = "normal" /\ c[1].tid = t BY <1>3
  <2> QED BY <1>3, <1>5, <1>10, <1>11, <1>12, <2>1, OwesAppend
<1> HIDE DEF v
<1>15. SessOk(v) BY <1>13, <1>14, OwesAll
<1> QED BY <1>2, <1>15

(* The parts of a session in an identifier that aggregates. *)
LEMMA AggrSess ==
    ASSUME NEW s, SessOk(s), NEW t \in Tids, s.tid[t].aggr
    PROVE  /\ Owes(s, t, Flight(s.axq, t)) /\ Waits(s.tid[t], s.axq, t)
           /\ \E m \in Nat : InWindow(s.tid[t], Flight(s.axq, t), m)
           /\ ~s.tid[t].cleanup /\ s.tid[t].incomp = 0
BY OwesAll DEF SessOk, TidSess, TidOk

(* A new record for an identifier that has just given out a number *)
LEMMA JoinsIs ==
    ASSUME NEW s \in States, NEW t \in Tids, NEW u \in States, Numbers(s, u, t),
           NEW x, OwnQueue(x, t), SameMode(x, s.tid[t]), x.reinit = s.tid[t].reinit,
           x.sched = s.tid[t].sched, NEW Z, \E m \in Nat : InWindow(x, Z, m)
    PROVE  LET w == [u EXCEPT !.tid[t] = x]
           IN  Joins(s, u, t, Z, w) /\ w.tid[t] = x
<1> DEFINE r == s.tid[t]
           w == [u EXCEPT !.tid[t] = x]
<1>1. r \in TidStates /\ u.tid[t] = Numbered(r) /\ OnlyTid(s, u, t) BY Types DEF Numbers
<1>2. Numbered(r).reinit = r.reinit /\ Numbered(r).sched = r.sched
  BY <1>1, StartedIs
<1>3. Sets(w, u, t, x) BY DEF Sets
<1>4. w \in States
  <2>1. Follows(u, t, x) BY <1>1, <1>2 DEF Follows, NoReinit
  <2>2. w = Put(u, 0, t, x) BY PutZero
  <2> HIDE DEF w
  <2>3. 0 \in Nat OBVIOUS
  <2> QED BY <2>1, <2>2, <2>3, PutKeeps
<1> HIDE DEF w
<1>5. w.tid[t] = x /\ OnlyTid(u, w, t) /\ Beside(u, w, t) BY <1>3, SetAs, SetsBeside
<1>6. OnlyTid(s, w, t) BY <1>1, <1>5, OnlyTrans
<1> QED BY <1>4, <1>5, <1>6 DEF Joins, w

(* A frame put behind the others of its identifier *)
LEMMA QueueIs ==
    ASSUME NEW s \in States, SessOk(s), NEW t \in Tids, s.tid[t].aggr,
           Total(s.tid[t]) + 1 < SeqMax, NEW u \in States, Numbers(s, u, t),
           NEW f \in OwnFrames(t), f.seq = s.tid[t].seq_next, f.retries = 0
    PROVE  LET w == [u EXCEPT !.tid[t].buf_q = Append(@, f)]
           IN  Joins(s, u, t, Flight(s.axq, t), w) /\ Behind(s, t, f, w)
<1> DEFINE r == s.tid[t]
           X == Flight(s.axq, t)
           x == Pushed(r, f)
           w == [u EXCEPT !.tid[t] = x]
<1>1. r \in TidStates /\ OwnQueue(r, t) /\ u.tid[t] = Numbered(r) /\ OnlyTid(s, u, t)
  BY Types DEF Numbers
<1>2. [u EXCEPT !.tid[t].buf_q = Append(@, f)] = w
  <2>1. u.tid \in [Tids -> TidStates] BY Types DEF TidMap
  <2>2. [Numbered(r) EXCEPT !.buf_q = Append(@, f)] = x
    BY <1>1 DEF Pushed, Numbered, TidStates
  <2> HIDE DEF x, r
  <2>3. [u EXCEPT !.tid[t].buf_q = Append(@, f)] = [u EXCEPT !.tid[t] = [u.tid[t] EXCEPT !.buf_q = Append(@, f)]]
    BY <2>1 DEF States
  <2> QED BY <1>1, <2>2, <2>3
<1>3. PICK m \in Nat : InWindow(r, X, m) BY AggrSess
<1>4. InWindow(x, X, m + 1) /\ OwnQueue(x, t) /\ m + 1 \in Nat
  <2> HIDE DEF r, X
  <2>1. Total(r) + 1 < SeqMax /\ f.seq = r.seq_next BY DEF r
  <2> QED BY <1>1, <1>3, <2>1, PushWindow
<1>5. SameMode(x, r) /\ x.reinit = r.reinit /\ x.sched = r.sched
  BY <1>1 DEF Pushed, TidStates, SameMode
<1> HIDE DEF x, r, X
<1>6. Joins(s, u, t, X, w) /\ w.tid[t] = x BY <1>4, <1>5, JoinsIs DEF r
<1> QED BY <1>2, <1>4, <1>6 DEF Behind, x, r, X

(* A frame sent at once *)
LEMMA DirectIs ==
    ASSUME NEW s \in States, SessOk(s), NEW t \in Tids, s.tid[t].aggr,
           Total(s.tid[t]) + 1 < SeqMax, NEW u \in States, Numbers(s, u, t),
           NEW f \in OwnFrames(t), f.seq = s.tid[t].seq_next, f.retries = 0,
           s.tid[t].buf_q = << >>, BawWithin(s.tid[t].seq_start, f.seq)
    PROVE  LET w == [u EXCEPT !.tid[t] = AddToBaw(@, f.seq)]
               X == Flight(s.axq, t)
           IN  /\ Joins(s, u, t, X \cup {f.seq}, w) /\ f.seq \notin X
               /\ w.tid[t].buf_q = << >> /\ <<f>> \in Chains
<1> DEFINE r == s.tid[t]
           X == Flight(s.axq, t)
           x == AddToBaw(Numbered(r), f.seq)
           Z == X \cup {f.seq}
           w == [u EXCEPT !.tid[t] = x]
           c == <<f>>
<1>1. r \in TidStates /\ OwnQueue(r, t) /\ u.tid[t] = Numbered(r) /\ OnlyTid(s, u, t)
  BY Types DEF Numbers
<1>2. [u EXCEPT !.tid[t] = AddToBaw(@, f.seq)] = w
  <2>1. u.tid \in [Tids -> TidStates] BY Types DEF TidMap
  <2>2. [u EXCEPT !.tid[t] = AddToBaw(@, f.seq)] = [u EXCEPT !.tid[t] = AddToBaw(u.tid[t], f.seq)]
    BY <2>1 DEF States
  <2> QED BY <1>1, <2>2
<1>3. PICK m \in Nat : InWindow(r, X, m) BY AggrSess
<1>4. f.seq \notin X /\ OwnQueue(x, t) /\ \E e \in Nat : InWindow(x, Z, e)
  <2> HIDE DEF r, X
  <2>1. Total(r) + 1 < SeqMax /\ f.seq = r.seq_next /\ r.buf_q = << >> /\ BawWithin(r.seq_start, f.seq)
    BY DEF r
  <2> QED BY <1>1, <1>3, <2>1, DirectWindow
<1>5. SameMode(x, r) /\ x.reinit = r.reinit /\ x.sched = r.sched /\ x.buf_q = << >>
  <2>1. /\ Numbered(r) \in TidStates /\ SameMode(Numbered(r), r) /\ Numbered(r).sched = r.sched
        /\ Numbered(r).buf_q = r.buf_q /\ Numbered(r).reinit = r.reinit
    BY <1>1, StartedIs
  <2>2. f.seq \in SeqNos BY DEF OwnFrames
  <2>3. x \in Windows(Numbered(r)) /\ r.buf_q = << >> BY <2>1, <2>2, BawTypes
  <2> HIDE DEF x, r
  <2> QED BY <2>1, <2>3 DEF Windows, SameQueue, SameMode
<1>6. c \in Chains
  <2>1. c \in Seq(OwnFrames(t)) /\ c # << >> OBVIOUS
  <2> HIDE DEF c
  <2> QED BY <2>1, OwnChain
<1> HIDE DEF x, r, c, X, Z
<1>7. Joins(s, u, t, Z, w) /\ w.tid[t] = x BY <1>4, <1>5, JoinsIs DEF r
<1> QED BY <1>2, <1>4, <1>5, <1>6, <1>7 DEF c, X, Z

(* A frame put behind the others of its identifier *)
LEMMA QueueSess ==
    ASSUME NEW s \in States, SessOk(s), NEW t \in Tids, s.tid[t].aggr,
           Total(s.tid[t]) + 1 < SeqMax, NEW u \in States, Numbers(s, u, t),
           NEW f \in OwnFrames(t), f.seq = s.tid[t].seq_next, f.retries = 0
    PROVE  SessOk(Enqueue([u EXCEPT !.tid[t].buf_q = Append(@, f)], t))
<1> DEFINE r == s.tid[t]
           X == Flight(s.axq, t)
           w == [u EXCEPT !.tid[t].buf_q = Append(@, f)]
<1>1. Joins(s, u, t, X, w) BY QueueIs
<1> HIDE DEF w, X
<1>2. Owes(s, t, X) /\ Waits(r, s.axq, t) /\ r.aggr BY AggrSess DEF X
<1>3. Owes(w, t, X) /\ w.axq = s.axq /\ Waits(w.tid[t], w.axq, t)
  BY <1>1, <1>2, ReplaceOwes DEF Joins
<1>4. SessOk(w) /\ w \in States BY <1>1, <1>3, OwesAll DEF X, Joins
<1> QED BY <1>4, EnqueueAside, AsideOk DEF w

(* A frame sent at once *)
LEMMA DirectSess ==
    ASSUME NEW s \in States, SessOk(s), NEW t \in Tids, s.tid[t].aggr,
           Total(s.tid[t]) + 1 < SeqMax, NEW u \in States, Numbers(s, u, t),
           NEW f \in OwnFrames(t), f.seq = s.tid[t].seq_next, f.retries = 0,
           s.tid[t].buf_q = << >>, BawWithin(s.tid[t].seq_start, f.seq)
    PROVE  SessOk(TxqAdd([u EXCEPT !.tid[t] = AddToBaw(@, f.seq)], <<f>>))
<1> DEFINE r == s.tid[t]
           X == Flight(s.axq, t)
           Z == X \cup {f.seq}
           w == [u EXCEPT !.tid[t] = AddToBaw(@, f.seq)]
           c == <<f>>
           v == TxqAdd(w, c)
<1>1. Joins(s, u, t, Z, w) /\ f.seq \notin X /\ c \in Chains BY DirectIs
<1>2. c[1] = f /\ Distinct(c) /\ SeqsOf(c) = {f.seq}
  <2>1. c # << >> /\ Len(c) = 1 /\ c[1] = f /\ DOMAIN c = {1} OBVIOUS
  <2> HIDE DEF c
  <2> QED BY <2>1 DEF Distinct, SeqsOf
<1> HIDE DEF w, X, Z, c, r
<1>3. Owes(s, t, X) /\ Waits(r, s.axq, t) /\ r.aggr BY AggrSess DEF X, r
<1>4. Owes(w, t, Z) /\ w.axq = s.axq /\ Waits(w.tid[t], w.axq, t)
  BY <1>1, <1>3, ReplaceOwes DEF Joins, r
<1>5. w.tid[t].aggr /\ w \in States BY <1>1, <1>3 DEF Joins, SameMode, r
<1>6. SeqsOf(c) \cap Flight(w.axq, t) = {} /\ Flight(w.axq, t) = X
  BY <1>1, <1>2, <1>4 DEF X
<1>7. c[1].kind = "aggr" /\ c[1].tid = t BY <1>2 DEF OwnFrames
<1>8. /\ Owes(v, t, Z) /\ Flight(v.axq, t) = Flight(w.axq, t) \cup SeqsOf(c)
      /\ Waits(v.tid[t], v.axq, t)
  <2>1. /\ c[1].kind = "aggr" /\ w.tid[t].aggr /\ Distinct(c)
           /\ SeqsOf(c) \cap Flight(w.axq, t) = {}
           => Owes(v, t, Z) /\ Flight(v.axq, t) = Flight(w.axq, t) \cup SeqsOf(c)
    BY <1>1, <1>4, <1>5, <1>7, OwesAppend
  <2>2. Waits(w.tid[t], w.axq, t) => Waits(v.tid[t], v.axq, t)
    BY <1>1, <1>4, <1>5, <1>7, OwesAppend
  <2> HIDE DEF v
  <2> QED BY <1>2, <1>4, <1>5, <1>6, <1>7, <2>1, <2>2
<1>9. Flight(v.axq, t) = Z BY <1>2, <1>6, <1>8 DEF Z
<1> HIDE DEF v
<1>10. SessOk(v) BY <1>8, <1>9, OwesAll
<1> QED BY <1>10 DEF v, c, w

(* ath_tgt_handle_aggr *)
LEMMA HandleAggrSess ==
    ASSUME NEW s \in States, SessOk(s), NEW t \in Tids, s.tid[t].aggr,
           Total(s.tid[t]) + 1 < SeqMax, NEW u \in States, Numbers(s, u, t),
           NEW f \in OwnFrames(t), f.seq = s.tid[t].seq_next, f.retries = 0
    PROVE  SessOk(HandleAggr(u, t, f))
<1> DEFINE B == \/ u.axq # << >>
                \/ u.tid[t].buf_q # << >>
                \/ u.tid[t].paused
                \/ ~BawWithin(u.tid[t].seq_start, f.seq)
           a == Enqueue([u EXCEPT !.tid[t].buf_q = Append(@, f)], t)
           d == TxqAdd([u EXCEPT !.tid[t] = AddToBaw(@, f.seq)], <<f>>)
<1>1. HandleAggr(u, t, f) = IF B THEN a ELSE d BY DEF HandleAggr
<1>2. s.tid[t] \in TidStates /\ u.tid[t] = Numbered(s.tid[t])
  BY Types DEF Numbers
<1>3. u.tid[t].buf_q = s.tid[t].buf_q /\ u.tid[t].seq_start = s.tid[t].seq_start
  BY <1>2, StartedIs
<1>4. CASE B
  <2>1. SessOk(a) BY QueueSess
  <2> HIDE DEF a, B, d
  <2> QED BY <1>1, <1>4, <2>1
<1>5. CASE ~B
  <2>1. s.tid[t].buf_q = << >> /\ BawWithin(s.tid[t].seq_start, f.seq)
    BY <1>3, <1>5
  <2>2. SessOk(d) BY <2>1, DirectSess
  <2> HIDE DEF a, B, d
  <2> QED BY <1>1, <1>5, <2>2
<1> QED BY <1>4, <1>5

(* While the host has a credit, there is a sequence number to give: the
   buffers run out before the numbers do. *)
LEMMA NumberLeft ==
    ASSUME Orderly, NEW s \in States, Even(s), s.held < NumBufs, NEW t \in Tids, s.tid[t].aggr
    PROVE  Total(s.tid[t]) + 1 < SeqMax
<1> DEFINE r == s.tid[t]
           X == Flight(s.axq, t)
           T == Total(r)
           L == Len(r.buf_q)
           F == NumFrames(s)
<1>1. PICK m \in Nat : InWindow(r, X, m) BY AggrSess DEF Even
<1>2. T \in Nat /\ L \in Nat /\ BawSize \in Nat /\ SeqMax \in Nat
  BY SessionNums, Types
<1>3. T <= BawSize + m /\ m \in 0..L BY <1>1 DEF InWindow, Ahead, Fresh
<1>4. L <= F /\ F \in Nat /\ s.held = F BY QueueFits, Nums DEF Even
<1>5. BawSize + NumBufs < SeqMax /\ NumBufs \in Nat BY TxAssumption DEF Orderly
<1> HIDE DEF T, L, F, r
<1>6. m <= F /\ F + 1 <= NumBufs BY <1>2, <1>3, <1>4, <1>5
<1>7. T + 1 < SeqMax BY <1>2, <1>3, <1>4, <1>5, <1>6
<1> QED BY <1>7 DEF T, r

(* tgt_HTCRecvMessageHandler *)
LEMMA RecvDataSess ==
    ASSUME Orderly, IInv, SInv, NEW t \in Tids, RecvData(t)
    PROVE  SInv'
<1> DEFINE u == Prepared(t)
           f == FrameOf(t, "aggr")
           g == FrameOf(t, "normal")
           a == HandleAggr(u, t, f)
           b == HandleNormal(u, t, g)
<1>1. /\ sc' = IF sc.tid[t].aggr THEN a ELSE b
      /\ valid' = valid /\ draining' = draining /\ valid /\ sc.held < NumBufs
  BY DEF RecvData, HasCredit
<1>2. sc \in States /\ Even(sc) /\ SessOk(sc) BY DEF IInv, Good, SInv, Even
<1>3. /\ f \in OwnFrames(t) /\ g \in Frames /\ g.kind = "normal" /\ g.tid = t
      /\ f.seq = sc.tid[t].seq_next /\ f.retries = 0
  <2>1. sc.tid[t].seq_next \in SeqNos BY <1>2, Types DEF TidStates
  <2> QED BY <2>1 DEF FrameOf, OwnFrames, Frames
<1> HIDE DEF f, g
<1>4. Took(sc, u) /\ Numbers(sc, u, t) BY <1>2, PreparedTakes, PreparedNumbers
<1> HIDE DEF u
<1>5. u \in States BY <1>4 DEF Took
<1>6. CASE sc.tid[t].aggr
  <2>1. Total(sc.tid[t]) + 1 < SeqMax BY <1>1, <1>2, <1>6, NumberLeft
  <2>2. SessOk(a) BY <1>2, <1>3, <1>4, <1>5, <1>6, <2>1, HandleAggrSess
  <2>3. Keeps(u, a, 1) BY <1>3, <1>5, AggrKeeps
  <2> HIDE DEF a, b
  <2>4. Even(a) BY <1>2, <1>4, <2>2, <2>3, EvenTakes
  <2>5. sc' = a BY <1>1, <1>6
  <2> QED BY <1>1, <2>4, <2>5 DEF SInv
<1>7. CASE ~sc.tid[t].aggr
  <2>1. SessOk(b) BY <1>2, <1>3, <1>4, <1>5, <1>7, HandleNormalSess
  <2>2. Keeps(u, b, 1) BY <1>3, <1>5, NormalKeeps
  <2> HIDE DEF a, b
  <2>3. Even(b) BY <1>2, <1>4, <2>1, <2>2, EvenTakes
  <2>4. sc' = b BY <1>1, <1>7
  <2> QED BY <1>1, <2>3, <2>4 DEF SInv
<1> QED BY <1>6, <1>7

(* A frame of no session in the hardware queue *)
LEMMA ManagedSess ==
    ASSUME NEW u \in States, SessOk(u), NEW c \in Chains, c[1].kind = "mgt"
    PROVE  SessOk(TxqAdd(u, c))
<1> DEFINE v == TxqAdd(u, c)
<1>1. v.tid = u.tid /\ v.axq = Append(u.axq, c) /\ u.axq \in Seq(Chains)
  BY Types DEF TxqAdd, States
<1> HIDE DEF v
<1>2. ASSUME NEW t \in Tids
      PROVE  TidSess(v.tid[t], v.axq, t)
  <2>1. CASE c[1].tid # t
    <3>1. TidSess(u.tid[t], u.axq, t) BY DEF SessOk
    <3>2. TidSess(u.tid[t], Append(u.axq, c), t)
      BY <1>1, <2>1, <3>1, OtherAppend
    <3> QED BY <1>1, <3>2
  <2>2. CASE c[1].tid = t
    <3>1. Owes(u, t, Flight(u.axq, t)) /\ Waits(u.tid[t], u.axq, t) BY OwesAll
    <3>2. /\ c[1].kind \notin {"aggr", "normal"}
               => Owes(v, t, Flight(u.axq, t)) /\ Flight(v.axq, t) = Flight(u.axq, t)
          /\ Waits(u.tid[t], u.axq, t) => Waits(v.tid[t], v.axq, t)
      BY <2>2, <3>1, OwesAppend DEF v
    <3>3. Owes(v, t, Flight(v.axq, t)) /\ Waits(v.tid[t], v.axq, t)
      BY <3>1, <3>2
    <3>4. SessOk(v) BY <3>3, OwesAll
    <3> QED BY <3>4 DEF SessOk
  <2> QED BY <2>1, <2>2
<1> QED BY <1>2 DEF SessOk, v

(* ath_tgt_send_mgt *)
LEMMA RecvMgtSess ==
    ASSUME Orderly, IInv, SInv, RecvMgt
    PROVE  SInv'
<1> DEFINE taken == [sc EXCEPT !.free = @ - 1]
           f == [kind |-> "mgt", tid |-> NoTid, seq |-> 0, retries |-> 0]
           c == <<f>>
           u == [taken EXCEPT !.held = @ + 1]
           v == TxqAdd(u, c)
<1>1. valid /\ sc' = v /\ valid' = valid /\ draining' = draining
  BY DEF RecvMgt, Orderly
<1>2. sc \in States /\ Even(sc) /\ SessOk(sc) BY DEF IInv, Good, SInv, Even
<1>3. sc.free \in Int /\ sc.held \in Int /\ sc.free - 1 \in Int /\ sc.held + 1 \in Int
  BY <1>2, Nums
<1>4. /\ taken \in States /\ taken.free = sc.free - 1 /\ taken.held = sc.held
      /\ taken.tid = sc.tid /\ taken.axq = sc.axq /\ taken.tidq = sc.tidq
  BY <1>2, <1>3 DEF States
<1> HIDE DEF taken
<1>5. /\ u \in States /\ u.free = sc.free - 1 /\ u.held = sc.held + 1
      /\ u.tid = sc.tid /\ u.axq = sc.axq /\ u.tidq = sc.tidq
  BY <1>3, <1>4 DEF States
<1>6. c \in Chains /\ c[1].kind = "mgt"
  <2>1. f \in Frames /\ f.kind = "mgt" BY RingTypes DEF Frames
  <2> HIDE DEF f
  <2> QED BY <2>1 DEF Chains, Singles
<1> HIDE DEF u, c
<1>7. Took(sc, u)
  <2>1. /\ NumFrames(sc) = Sent(sc.axq) + Queued(sc.tid) /\ Account(sc) = sc.free + NumFrames(sc)
        /\ NumFrames(sc) \in Nat
    BY <1>2, Nums
  <2>2. NumFrames(u) = Sent(u.axq) + Queued(u.tid) /\ Account(u) = u.free + NumFrames(u)
    BY <1>5, Nums
  <2>3. Account(u) = Account(sc) - 1 BY <1>3, <1>5, <2>1, <2>2
  <2> QED BY <1>5, <2>3 DEF Took, NoReinit, Linked
<1>8. Keeps(u, v, 1)
  <2>1. Len(c) = 1 BY DEF c
  <2>2. Keeps(u, TxqAdd(u, c), Len(c)) BY <1>5, <1>6, TxqAddKeeps
  <2> QED BY <2>1, <2>2
<1>9. SessOk(v)
  <2>1. SessOk(u) BY <1>2, <1>5 DEF SessOk
  <2> QED BY <1>5, <1>6, <2>1, ManagedSess
<1> HIDE DEF v
<1>10. Even(v) BY <1>2, <1>7, <1>8, <1>9, EvenTakes
<1> QED BY <1>1, <1>10 DEF SInv

(* ath_enable_aggr_tgt: a quiet host opens a session that has nothing of the
   one before it. *)
LEMMA EnableAggrSess ==
    ASSUME Orderly, IInv, SInv, NEW t \in Tids, EnableAggr(t)
    PROVE  SInv'
<1> DEFINE r == sc.tid[t]
           q == sc.axq
           X == Flight(q, t)
           v == [sc EXCEPT !.tid[t].aggr = TRUE]
           x == [r EXCEPT !.aggr = TRUE]
<1>1. sc' = v /\ valid' = valid /\ valid /\ draining' = draining /\ ~r.aggr /\ QuietTid(t)
  BY DEF EnableAggr, Orderly
<1>2. sc \in States /\ Even(sc) /\ SessOk(sc) BY DEF IInv, Good, SInv, Even
<1>3. r \in TidStates /\ OwnQueue(r, t) /\ q \in Seq(Chains) /\ sc.tid \in [Tids -> TidStates]
  BY <1>2, Types DEF TidMap
<1>4. v = [sc EXCEPT !.tid[t] = x] BY <1>2, <1>3 DEF States
<1>5. v \in States /\ Keeps(sc, v, 0)
  <2>1. TRUE \in BOOLEAN OBVIOUS
  <2> HIDE DEF v
  <2>2. /\ [sc EXCEPT !.tid[t].aggr = TRUE] \in States
        /\ Keeps(sc, [sc EXCEPT !.tid[t].aggr = TRUE], 0)
    BY <1>2, <2>1, FlagsKeep
  <2> QED BY <2>2 DEF v
<1>6. Sets(v, sc, t, x) BY <1>4 DEF Sets
<1> HIDE DEF v
<1>7. v.tid[t] = x /\ v.axq = q /\ OnlyTid(sc, v, t) BY <1>2, <1>6, SetAs
<1>8. TidSess(r, q, t) BY <1>2 DEF SessOk
<1>9. Ended(r, X) /\ ~r.cleanup /\ BawWithin(r.seq_start, r.seq_next)
  BY <1>1, <1>8 DEF TidSess, TidOk, QuietTid
<1>10. X = {} /\ r.incomp = 0 BY <1>9 DEF Ended
<1>11. Alike(x, r) /\ x.aggr = TRUE /\ x.cleanup = r.cleanup /\ x.incomp = r.incomp /\ x.paused = r.paused
  BY <1>3 DEF Alike, TidStates
<1>12. ~Has(q, t, "normal")
  <2>1. ASSUME NEW i \in 1..Len(q), q[i][1].kind = "normal", q[i][1].tid = t
        PROVE  FALSE
    <3>1. q[i] \in Chains /\ i \in DOMAIN q BY <1>3
    <3>2. Len(q[i]) >= 1 /\ q[i] \in Seq(Frames) /\ Len(q[i]) \in Nat
      BY <3>1, ChainType
    <3>3. 1 \in 1..Len(q[i]) BY <3>2
    <3>4. q[i][1] \in ToSet(q[i]) BY <3>2, <3>3 DEF ToSet
    <3>5. q[i][1] \in InFlight(sc) BY <3>1, <3>4 DEF InFlight
    <3> QED BY <1>1, <2>1, <3>5 DEF QuietTid
  <2> QED BY <2>1 DEF Has
<1> HIDE DEF x, X, r
<1>13. InWindow(r, {}, 0) BY <1>3, <1>9, <1>10, OpenWindow
<1>14. InWindow(x, X, 0) BY <1>3, <1>10, <1>11, <1>13, AlikeWindow
<1>15. TidOk(x, X)
  <2>1. 0 \in Nat OBVIOUS
  <2> QED BY <1>9, <1>10, <1>11, <1>14, <2>1 DEF TidOk
<1>16. TidSess(x, q, t)
  BY <1>8, <1>11, <1>12, <1>15 DEF TidSess, NoNormal, Waits, X
<1>17. SessOk(v)
  <2>1. ASSUME NEW o \in Tids
        PROVE  TidSess(v.tid[o], v.axq, o)
    <3>1. CASE o = t BY <1>7, <1>16, <3>1
    <3>2. CASE o # t BY <1>2, <1>7, <3>2 DEF SessOk, OnlyTid
    <3> QED BY <3>1, <3>2
  <2> QED BY <2>1 DEF SessOk
<1>18. Even(v) BY <1>2, <1>5, <1>17, EvenKeeps
<1> QED BY <1>1, <1>18 DEF SInv

(* The end of aggregation on the host's word *)
LEMMA DisableAggrSess ==
    ASSUME Orderly, IInv, SInv, NEW t \in Tids, DisableAggr(t)
    PROVE  SInv'
<1>1. valid' = valid /\ valid /\ draining' = draining BY DEF DisableAggr
<1>2. PICK lim \in Limits : sc' = DelbaSend(sc, t, lim)
  BY DEF DisableAggr, DelbaSend
<1> DEFINE v == DelbaSend(sc, t, lim)
<1>3. sc \in States /\ Even(sc) /\ SessOk(sc) BY DEF IInv, Good, SInv, Even
<1>4. Owes(sc, t, Flight(sc.axq, t)) BY <1>3, OwesAll
<1>5. SessOk(v) /\ Keeps(sc, v, 0) BY <1>3, <1>4, DelbaSess, DelbaKeeps
<1> HIDE DEF v
<1>6. Even(v) BY <1>3, <1>5, EvenKeeps
<1>7. sc' = v BY <1>2 DEF v
<1> QED BY <1>1, <1>6, <1>7 DEF SInv

(* ath_node_cleanup_tgt *)
LEMMA NodeCleanupSess ==
    ASSUME Orderly, IInv, SInv, NodeCleanup
    PROVE  SInv'
<1>1. /\ sc' = sc /\ draining' = draining /\ "node" \in HostOps /\ sc.held = 0
      /\ \A t \in Tids : ~sc.tid[t].aggr
  BY DEF NodeCleanup, Orderly
<1>2. Gone(sc) BY <1>1 DEF Gone
<1> QED BY <1>1, <1>2 DEF SInv

(* An identifier without a session and without frames is in order. *)
LEMMA ClearSess ==
    ASSUME NEW t \in Tids, NEW x \in TidStates,
           x.buf_q = << >>, x.baw_head = 0, x.baw_tail = 0, x.bitmap = {},
           ~x.aggr, ~x.cleanup, x.incomp = 0, ~x.paused
    PROVE  TidSess(x, << >>, t)
<1>1. Span(x) = 0
  <2>1. Span(x) = (0 - 0) % TidMaxBufs BY DEF Span
  <2> DEFINE d == 0 - 0
  <2>2. d = 0 /\ d \in Int /\ TidMaxBufs \in Nat /\ TidMaxBufs >= 1 BY BawBounds
  <2> HIDE DEF d
  <2>3. d % TidMaxBufs = d BY <2>2, ModCases
  <2> QED BY <2>1, <2>2, <2>3 DEF d
<1>2. Ended(x, {}) BY <1>1 DEF Ended
<1>3. TidOk(x, {}) /\ NoNormal(x, << >>, t) /\ Waits(x, << >>, t)
  BY <1>2 DEF TidOk, NoNormal, Waits
<1> QED BY <1>3, FlightNone DEF TidSess

(* A clean-up waits for a frame. *)
LEMMA EndedIdle ==
    ASSUME NEW r, Ended(r, {}), Exactly
    PROVE  ~r.cleanup /\ r.incomp = 0
<1>1. Cardinality({}) = 0 BY FS_EmptySet
<1>2. r.cleanup => r.incomp >= 1 /\ r.incomp = 0 BY <1>1 DEF Ended
<1>3. ~(0 >= 1) OBVIOUS
<1>4. ~r.cleanup
  <2>1. ASSUME r.cleanup
        PROVE  FALSE
    BY <1>2, <1>3, <2>1
  <2> QED BY <2>1
<1> QED BY <1>4 DEF Ended

(* ath_node_create_tgt and owl_tgt_node_init: nothing is left of the station
   that was here before, so every identifier starts anew. *)
LEMMA NodeCreateSess ==
    ASSUME Orderly, IInv, SInv, NodeCreate
    PROVE  SInv'
<1> DEFINE map == [t \in Tids |-> NewTid(sc.tid[t])]
           v == [sc EXCEPT !.tid = map]
<1>1. sc' = v /\ valid' = TRUE /\ draining' = draining /\ "node" \in HostOps /\ ~valid
  BY DEF NodeCreate, NewTid
<1>2. sc \in States /\ Even(sc) /\ SessOk(sc) /\ Gone(sc)
  BY <1>1 DEF IInv, Good, SInv, Even
<1>3. sc.axq = << >> /\ NumFrames(sc) = 0 /\ Exactly BY <1>1, Absent DEF Orderly
<1>4. ASSUME NEW t \in Tids
      PROVE  /\ map[t] = TidInit(sc.tid[t]) /\ OwnQueue(map[t], t) /\ ~map[t].reinit
             /\ QueueLen(map, t) <= QueueLen(sc.tid, t)
             /\ TidSess(map[t], << >>, t)
  <2> DEFINE r == sc.tid[t]
             x == TidInit(r)
  <2>1. r \in TidStates /\ r.buf_q \in Seq(OwnFrames(t)) /\ Len(r.buf_q) \in Nat
    BY <1>2, Types
  <2>2. Ended(r, {}) BY <1>2, <1>3, FlightNone DEF SessOk, TidSess, TidOk, Gone
  <2>4. ~r.cleanup /\ r.incomp = 0 BY <1>3, <2>2, EndedIdle
  <2>5. map[t] = x BY <2>4 DEF NewTid
  <2>6. /\ x \in TidStates /\ x.buf_q = << >> /\ ~x.reinit /\ x.incomp = r.incomp
        /\ x.baw_head = 0 /\ x.baw_tail = 0 /\ x.bitmap = {}
        /\ ~x.aggr /\ ~x.cleanup /\ ~x.paused
    <3>1. << >> \in Seq(Frames) OBVIOUS
    <3> QED BY <2>1, <3>1, RingTypes DEF TidStates, TidInit
  <2> HIDE DEF x, map
  <2>7. TidSess(x, << >>, t) BY <2>4, <2>6, ClearSess
  <2>8. << >> \in Seq(OwnFrames(t)) /\ Len(<< >>) = 0 OBVIOUS
  <2>9. QueueLen(map, t) = 0 /\ QueueLen(sc.tid, t) = Len(r.buf_q)
    BY <2>5, <2>6, <2>8 DEF QueueLen
  <2> QED BY <2>1, <2>5, <2>6, <2>7, <2>8, <2>9 DEF OwnQueue, x
<1>5. map \in TidMap
  <2>1. DOMAIN map = Tids /\ map = [t \in Tids |-> map[t]] OBVIOUS
  <2> HIDE DEF map
  <2>2. map \in [Tids -> TidStates] BY <1>4, <2>1 DEF OwnQueue
  <2> QED BY <1>4, <2>2 DEF TidMap
<1> HIDE DEF map
<1>6. v \in States /\ v.tid = map /\ v.axq = << >> /\ v.free = sc.free /\ v.held = sc.held
  BY <1>2, <1>3, <1>5 DEF States
<1> HIDE DEF v
<1>7. NumFrames(v) = 0
  <2>1. NumFrames(v) = Sent(v.axq) + Queued(v.tid) /\ NumFrames(v) \in Nat
    BY <1>6, Nums
  <2>2. NumFrames(sc) = Sent(sc.axq) + Queued(sc.tid) /\ Sent(sc.axq) \in Nat /\ Queued(sc.tid) \in Nat
    BY <1>2, Nums
  <2>3. Queued(map) <= Queued(sc.tid) /\ Queued(map) \in Nat
    BY <1>2, <1>4, <1>5, Types, QueuedShrinks, QueuedNat
  <2>4. Sent(v.axq) = 0 BY <1>6, SentEmpty
  <2> QED BY <1>3, <1>6, <2>1, <2>2, <2>3, <2>4
<1>8. Even(v)
  <2>1. v.held = NumFrames(v) /\ v.free + v.held = NumBufs
    BY <1>2, <1>3, <1>6, <1>7 DEF Even
  <2>2. NoReinit(v) /\ SessOk(v) BY <1>4, <1>6 DEF NoReinit, SessOk
  <2> QED BY <2>1, <2>2 DEF Even
<1> QED BY <1>1, <1>8 DEF SInv

(* Every step keeps the sessions in order. *)
LEMMA NextSess ==
    ASSUME Orderly, IInv, SInv, [Next]_vars
    PROVE  SInv'
<1>1. CASE HwDone BY <1>1, HwDoneSess
<1>2. CASE TxComplete BY <1>2, TxCompleteSess
<1>3. ASSUME NEW t \in Tids, RecvData(t) \/ EnableAggr(t) \/ DisableAggr(t)
      PROVE  SInv'
  BY <1>3, RecvDataSess, EnableAggrSess, DisableAggrSess
<1>4. CASE RecvMgt BY <1>4, RecvMgtSess
<1>5. CASE NodeCreate BY <1>5, NodeCreateSess
<1>6. CASE NodeCleanup BY <1>6, NodeCleanupSess
<1>7. CASE DrainStart BY <1>7, DrainStartSess
<1>8. CASE DrainNext BY <1>8, DrainNextSess
<1>9. CASE DrainEnd BY <1>9, DrainEndSess
<1>10. CASE UNCHANGED vars BY <1>10 DEF vars, SInv
<1> QED BY <1>1, <1>2, <1>3, <1>4, <1>5, <1>6, <1>7, <1>8, <1>9, <1>10 DEF Next

(* The invariant holds always. *)
LEMMA SessInductive ==
    ASSUME Orderly
    PROVE  Spec => []SInv
<1>1. Init => SInv BY SInvInit
<1>2. IInv /\ SInv /\ [Next]_vars => SInv' BY NextSess
<1> QED BY <1>1, <1>2, Inductive, PTL DEF Spec

-----------------------------------------------------------------------------
(* The theorems *)

(* The invariant implies the account of the buffers. *)
LEMMA SessBuffers == SInv => BufferConservation
<1> SUFFICES ASSUME SInv
             PROVE  BufferConservation
  OBVIOUS
<1>1. sc.held = NumFrames(sc) /\ sc.free + sc.held = NumBufs BY DEF SInv, Even
<1> QED BY <1>1 DEF BufferConservation

(* Where the host does not drain, an identifier in order has exactly the
   frames in flight and the retries in its window. *)
LEMMA WindowOf ==
    ASSUME Exactly, NEW s \in States, SessOk(s), NEW t \in Tids, ~s.tid[t].cleanup
    PROVE  Outstanding(s.tid[t]) = {f.seq : f \in Chained(s, t) \cup Waiting(s.tid[t])}
<1> DEFINE r == s.tid[t]
           X == Flight(s.axq, t)
           U == X \cup Again(r)
<1>1. r \in TidStates /\ TidOk(r, X) /\ InLine(s.axq, t)
  BY Types DEF SessOk, TidSess
<1>2. {f.seq : f \in Chained(s, t)} = X BY <1>1, ChainedCount
<1>3. {f.seq : f \in Chained(s, t) \cup Waiting(r)} = U BY <1>2 DEF Again
<1>4. Holds(r, U)
  <2>1. CASE r.aggr
    <3>1. PICK m \in Nat : InWindow(r, X, m) BY <1>1, <2>1 DEF TidOk
    <3> QED BY <3>1 DEF InWindow
  <2>2. CASE ~r.aggr
    <3>1. Ended(r, X) BY <1>1, <2>2 DEF TidOk
    <3>2. X = {} /\ r.buf_q = << >> /\ r.bitmap = {} BY <3>1 DEF Ended
    <3>3. ToSet(r.buf_q) = {} BY <3>2 DEF ToSet
    <3>4. Again(r) = {} BY <3>3 DEF Again, Waiting
    <3>5. U = {} BY <3>2, <3>4
    <3> HIDE DEF U, r
    <3> QED BY <3>2, <3>5 DEF Holds
  <2> QED BY <2>1, <2>2
<1> HIDE DEF U, r
<1>5. Outstanding(r) = U BY <1>1, <1>4, BusyExact
<1> QED BY <1>3, <1>5 DEF r

(* An identifier in order is paused with a reason, and incomp is right. *)
LEMMA ReasonOf ==
    ASSUME Exactly, NEW s \in States, SessOk(s), NEW t \in Tids
    PROVE  /\ s.tid[t].paused => \/ s.tid[t].cleanup
                                 \/ \E f \in InFlight(s) : f.tid = t /\ f.kind = "bar"
           /\ s.tid[t].cleanup => /\ s.tid[t].incomp > 0
                                  /\ s.tid[t].incomp = Cardinality(Chained(s, t))
<1> DEFINE r == s.tid[t]
           q == s.axq
           X == Flight(s.axq, t)
<1>1. r \in TidStates /\ TidOk(r, X) /\ InLine(s.axq, t) /\ Waits(r, q, t) /\ q \in Seq(Chains)
  BY Types DEF SessOk, TidSess
<1>2. ASSUME NEW i \in 1..Len(q), q[i][1].kind = "bar", q[i][1].tid = t
      PROVE  \E f \in InFlight(s) : f.tid = t /\ f.kind = "bar"
  <2>1. q[i] \in Chains /\ i \in DOMAIN q BY <1>1
  <2>2. Len(q[i]) >= 1 /\ q[i] \in Seq(Frames) /\ Len(q[i]) \in Nat
    BY <2>1, ChainType
  <2>3. 1 \in 1..Len(q[i]) BY <2>2
  <2>4. q[i][1] \in ToSet(q[i]) BY <2>2, <2>3 DEF ToSet
  <2>5. q[i][1] \in InFlight(s) BY <2>1, <2>4 DEF InFlight
  <2> QED BY <1>2, <2>5
<1>3. Has(q, t, "bar") => \E f \in InFlight(s) : f.tid = t /\ f.kind = "bar"
  BY <1>2 DEF Has
<1>4. ASSUME r.cleanup
      PROVE  r.incomp > 0 /\ r.incomp = Cardinality(Chained(s, t))
  <2>1. Ended(r, X) BY <1>1, <1>4 DEF TidOk
  <2>2. r.incomp >= 1 /\ r.incomp = Cardinality(X) /\ r.incomp \in Int
    BY <1>1, <1>4, <2>1 DEF Ended, TidStates
  <2>3. Cardinality(Chained(s, t)) = Cardinality(X) BY <1>1, ChainedCount
  <2> DEFINE n == r.incomp
  <2> HIDE DEF n
  <2>4. n > 0 BY <2>2 DEF n
  <2> QED BY <2>2, <2>3, <2>4 DEF n
<1> QED BY <1>1, <1>3, <1>4 DEF Waits

(* What the theorems assume is what the invariant needs. *)
LEMMA OrderlyHost ==
    ASSUME QuietHost, BawSize + NumBufs < SeqMax,
           "node" \in HostOps => "drain" \notin HostOps
    PROVE  Orderly
BY DEF Orderly, Exactly

(* When the host removes a station only after its frames are done, and does
   not drain where it removes stations, no buffer is ever lost or freed
   twice: the buffers that are not free are those in some queue, and the host
   is owed exactly these (ath_tx_freebuf, ath_buf_comp and all their
   callers). *)
THEOREM BuffersKept ==
    ASSUME QuietHost, BawSize + NumBufs < SeqMax,
           "node" \in HostOps => "drain" \notin HostOps
    PROVE  Spec => []BufferConservation
<1>1. Orderly BY OrderlyHost
<1>2. Spec => []SInv BY <1>1, SessInductive
<1> QED BY <1>2, SessBuffers, PTL

(* Under the same host the assertion of ath_tx_buf_alloc never fails: a frame
   sent with a credit to a station that exists finds a buffer. *)
THEOREM BufferAtHand ==
    ASSUME QuietHost, BawSize + NumBufs < SeqMax,
           "node" \in HostOps => "drain" \notin HostOps
    PROVE  Spec => []TxBufAvailable
<1>1. Orderly BY OrderlyHost
<1>2. Spec => []SInv BY <1>1, SessInductive
<1>3. IInv /\ SInv => TxBufAvailable
  <2> SUFFICES ASSUME IInv, SInv, sc.held < NumBufs
               PROVE  sc.free > 0
    BY DEF TxBufAvailable, HasCredit
  <2>1. sc.free + sc.held = NumBufs BY DEF SInv, Even
  <2>2. sc.free \in Int /\ sc.held \in Int /\ NumBufs \in Int
    BY Nums, TxAssumption DEF IInv, Good
  <2> QED BY <2>1, <2>2
<1> QED BY <1>2, <1>3, Inductive, PTL

(* Under a host that does not drain either, the block-ack window of an
   identifier marks exactly the frames sent and not finished, through
   retries, BARs, clean-ups and new sessions (ath_tx_addto_baw,
   ath_tx_update_baw). *)
THEOREM WindowMatches ==
    ASSUME QuietHost, BawSize + NumBufs < SeqMax, "drain" \notin HostOps
    PROVE  Spec => []WindowExact
<1>1. Orderly /\ Exactly BY OrderlyHost DEF Exactly
<1>2. Spec => []SInv BY <1>1, SessInductive
<1>3. IInv /\ SInv => WindowExact
  <2> SUFFICES ASSUME IInv, SInv, NEW t \in Tids, ~sc.tid[t].cleanup
               PROVE  Outstanding(sc.tid[t]) = {f.seq : f \in Chained(sc, t) \cup Waiting(sc.tid[t])}
    BY DEF WindowExact
  <2>1. sc \in States /\ SessOk(sc) BY DEF IInv, Good, SInv, Even
  <2> QED BY <1>1, <2>1, WindowOf
<1> QED BY <1>2, <1>3, Inductive, PTL

(* Under the same host an identifier is paused only while a BAR or a frame of
   a clean-up of it is in the hardware queue, and incomp counts the latter:
   the completion that resumes it is on its way (ath_aggr_pause_tid,
   owl_tgt_tid_cleanup). *)
THEOREM PausesEnd ==
    ASSUME QuietHost, BawSize + NumBufs < SeqMax, "drain" \notin HostOps
    PROVE  Spec => []PausedHasReason
<1>1. Orderly /\ Exactly BY OrderlyHost DEF Exactly
<1>2. Spec => []SInv BY <1>1, SessInductive
<1>3. IInv /\ SInv => PausedHasReason
  <2> SUFFICES ASSUME IInv, SInv
               PROVE  PausedHasReason
    OBVIOUS
  <2>1. sc \in States /\ SessOk(sc) BY DEF IInv, Good, SInv, Even
  <2> QED BY <1>1, <2>1, ReasonOf DEF PausedHasReason
<1> QED BY <1>2, <1>3, Inductive, PTL

-----------------------------------------------------------------------------
(* Nobody is forgotten: what waits has been put into axq_tidq. *)

(* The identifier t changes and stays half in order. *)
LEMMA ButBeside ==
    ASSUME NEW s, NEW t \in Tids, AllBut(s, t), NEW v, Beside(s, v, t),
           Half(v.tid[t], s.tidq, t)
    PROVE  AllBut(v, t)
BY DEF AllBut, Beside

(* An identifier without frames, or paused, need not wait in axq_tidq. *)
LEMMA ButAll ==
    ASSUME NEW s, NEW t \in Tids
    PROVE  /\ AllPrompt(s) => AllBut(s, t)
           /\ AllBut(s, t) /\ (s.tid[t].buf_q = << >> \/ s.tid[t].paused) => AllPrompt(s)
<1>1. AllPrompt(s) => AllBut(s, t) BY DEF AllPrompt, AllBut, Prompt
<1>2. ASSUME AllBut(s, t), s.tid[t].buf_q = << >> \/ s.tid[t].paused
      PROVE  AllPrompt(s)
  <2>1. Prompt(s.tid[t], s.tidq, t) BY <1>2 DEF AllBut, Prompt
  <2>2. \A u \in Tids \ {t} : Prompt(s.tid[u], s.tidq, u) BY <1>2 DEF AllBut
  <2> QED BY <2>1, <2>2 DEF AllPrompt
<1> QED BY <1>1, <1>2

(* Neither the identifiers nor axq_tidq change. *)
LEMMA SamePrompt ==
    ASSUME NEW s, NEW v, v.tid = s.tid, v.tidq = s.tidq
    PROVE  /\ AllPrompt(s) => AllPrompt(v)
           /\ \A t \in Tids : AllBut(s, t) => AllBut(v, t)
BY DEF AllPrompt, AllBut

(* ath_tx_freebuf and ath_buf_comp *)
LEMMA ReleasePrompt ==
    ASSUME NEW s \in States, NEW n
    PROVE  /\ Release(s, n).tidq = s.tidq /\ Release(s, n).tid = s.tid
           /\ AllPrompt(s) => AllPrompt(Release(s, n))
           /\ \A t \in Tids : AllBut(s, t) => AllBut(Release(s, n), t)
<1>1. Release(s, n).tid = s.tid /\ Release(s, n).tidq = s.tidq
  BY DEF Release, States
<1> QED BY <1>1, SamePrompt

(* ath_tgt_txq_add_ucast *)
LEMMA TxqAddPrompt ==
    ASSUME NEW s \in States, NEW c \in Chains
    PROVE  /\ AllPrompt(s) => AllPrompt(TxqAdd(s, c))
           /\ \A t \in Tids : AllBut(s, t) => AllBut(TxqAdd(s, c), t)
<1>1. TxqAdd(s, c).tid = s.tid /\ TxqAdd(s, c).tidq = s.tidq BY TxqAddKeeps
<1> QED BY <1>1, SamePrompt

(* TAILQ_INSERT_TAIL *)
LEMMA AppendIn ==
    ASSUME NEW q \in Seq(Tids), NEW t \in Tids
    PROVE  InQ(Append(q, t), t) /\ \A u : InQ(q, u) => InQ(Append(q, t), u)
<1> DEFINE L == Len(q)
           w == Append(q, t)
<1>1. L \in Nat /\ Len(w) = L + 1 /\ w[L + 1] = t /\ \A i \in 1..L : w[i] = q[i]
  OBVIOUS
<1> HIDE DEF L, w
<1>2. L + 1 \in 1..(L + 1) /\ \A i \in 1..L : i \in 1..(L + 1) BY <1>1
<1>3. InQ(w, t) BY <1>1, <1>2 DEF InQ
<1>4. \A u : InQ(q, u) => InQ(w, u) BY <1>1, <1>2 DEF InQ, L
<1> QED BY <1>3, <1>4 DEF w

(* ath_tgt_tx_enqueue *)
LEMMA EnqueuePrompt ==
    ASSUME NEW s \in States, NEW t \in Tids, AllBut(s, t)
    PROVE  AllPrompt(Enqueue(s, t))
<1> DEFINE v == Enqueue(s, t)
<1>1. CASE s.tid[t].paused \/ s.tid[t].sched
  <2>1. v = s BY <1>1 DEF Enqueue
  <2>2. Prompt(s.tid[t], s.tidq, t) BY <1>1 DEF AllBut, Prompt
  <2>3. AllPrompt(s) BY <2>2 DEF AllPrompt, AllBut
  <2> QED BY <2>1, <2>3
<1>2. CASE ~(s.tid[t].paused \/ s.tid[t].sched)
  <2> DEFINE r == [s.tid[t] EXCEPT !.sched = TRUE]
  <2>1. v = [s EXCEPT !.tid[t] = r, !.tidq = Append(@, t)]
    BY <1>2 DEF Enqueue, States
  <2>2. s.tid \in [Tids -> TidStates] /\ s.tid[t] \in TidStates /\ s.tidq \in Seq(Tids)
    BY Types DEF TidMap
  <2>3. /\ \A u \in Tids : v.tid[u] = IF u = t THEN r ELSE s.tid[u]
        /\ v.tidq = Append(s.tidq, t)
    BY <2>1, <2>2 DEF States
  <2>4. r.sched /\ r.aggr = s.tid[t].aggr /\ Alike(r, s.tid[t])
    BY <2>2 DEF TidStates, Alike
  <2> HIDE DEF r, v
  <2>5. Prompt(v.tid[t], v.tidq, t)
    <3>1. r.aggr => Lead(r) BY <2>4, AlikeLead DEF AllBut, Half
    <3>2. InQ(v.tidq, t) BY <2>2, <2>3, AppendIn
    <3> QED BY <2>3, <2>4, <3>1, <3>2 DEF Prompt, Half
  <2>6. ASSUME NEW u \in Tids \ {t}
        PROVE  Prompt(v.tid[u], v.tidq, u)
    <3>1. Prompt(s.tid[u], s.tidq, u) /\ v.tid[u] = s.tid[u] BY <2>3 DEF AllBut
    <3>2. InQ(s.tidq, u) => InQ(v.tidq, u) BY <2>2, <2>3, AppendIn
    <3> QED BY <3>1, <3>2 DEF Prompt, Half
  <2> QED BY <2>5, <2>6 DEF AllPrompt, v
<1> QED BY <1>1, <1>2

(* ath_tgt_txq_schedule takes n identifiers off axq_tidq that are paused, but
   for the last. *)
LEMMA UnlinkPrompt ==
    ASSUME NEW s \in States, AllPrompt(s), NEW n \in 0..Len(s.tidq)
    PROVE  /\ (\A i \in 1..n : s.tid[s.tidq[i]].paused) => AllPrompt(Unlink(s, n))
           /\ n >= 1 /\ (\A i \in 1..(n - 1) : s.tid[s.tidq[i]].paused)
                => AllBut(Unlink(s, n), s.tidq[n])
<1> DEFINE v == Unlink(s, n)
           q == s.tidq
           N == Len(q)
           cut == SubSeq(q, 1, n)
           left == SubSeq(q, n + 1, N)
           Off(u) == \E i \in 1..n : q[i] = u
<1>1. q \in Seq(Tids) /\ N \in Nat /\ n \in Nat /\ n <= N BY Types
<1>2. /\ cut \in Seq(Tids) /\ Len(cut) = n /\ \A i \in 1..n : cut[i] = q[i]
      /\ left \in Seq(Tids) /\ Len(left) = N - n /\ \A i \in 1..(N - n) : left[i] = q[n + i]
  BY <1>1, Part
<1>3. v.tidq = left BY UnlinkKeeps
<1> HIDE DEF left
<1>4. \A u : u \in ToSet(cut) <=> Off(u)
  <2>1. DOMAIN cut = 1..n BY <1>2
  <2> HIDE DEF cut
  <2>2. ToSet(cut) = {cut[i] : i \in 1..n} BY <2>1 DEF ToSet
  <2>3. \A i \in 1..n : cut[i] = q[i] BY <1>2
  <2> HIDE DEF q
  <2> QED BY <2>2, <2>3
<1>5. \A u \in Tids : v.tid[u] = IF u \in ToSet(cut) THEN [s.tid[u] EXCEPT !.sched = FALSE] ELSE s.tid[u]
  BY DEF Unlink, States
<1> HIDE DEF v, cut
<1>6. ASSUME NEW u \in Tids
      PROVE  /\ Half(v.tid[u], v.tidq, u) /\ v.tid[u].buf_q = s.tid[u].buf_q
             /\ v.tid[u].paused = s.tid[u].paused
             /\ ~Off(u) => v.tid[u].sched = s.tid[u].sched
  <2>1. Prompt(s.tid[u], q, u) /\ s.tid[u] \in TidStates BY Types DEF AllPrompt
  <2>2. CASE Off(u)
    <3> DEFINE r == [s.tid[u] EXCEPT !.sched = FALSE]
    <3>1. v.tid[u] = r BY <1>4, <1>5, <2>2
    <3>2. /\ ~r.sched /\ r.aggr = s.tid[u].aggr /\ Alike(r, s.tid[u]) /\ r.buf_q = s.tid[u].buf_q
          /\ r.paused = s.tid[u].paused
      BY <2>1 DEF TidStates, Alike
    <3> HIDE DEF r, Off
    <3>3. r.aggr => Lead(r) BY <2>1, <3>2, AlikeLead DEF Prompt, Half
    <3> QED BY <2>2, <3>1, <3>2, <3>3 DEF Half
  <2>3. CASE ~Off(u)
    <3>1. v.tid[u] = s.tid[u] BY <1>4, <1>5, <2>3
    <3>2. InQ(q, u) => InQ(left, u)
      <4> SUFFICES ASSUME InQ(q, u) PROVE InQ(left, u) OBVIOUS
      <4>1. PICK i \in 1..N : q[i] = u BY DEF InQ
      <4>2. i \notin 1..n BY <2>3, <4>1
      <4> HIDE DEF N
      <4>3. i - n \in 1..(N - n) /\ n + (i - n) = i BY <1>1, <4>1, <4>2
      <4>4. left[i - n] = u BY <1>2, <4>1, <4>3
      <4> QED BY <1>2, <4>3, <4>4 DEF InQ
    <3> QED BY <1>3, <2>1, <3>1, <3>2 DEF Prompt, Half
  <2> QED BY <2>2, <2>3
<1>7. ASSUME NEW u \in Tids, Off(u) => s.tid[u].paused
      PROVE  Prompt(v.tid[u], v.tidq, u)
  <2>1. s.tid[u].buf_q # << >> /\ ~s.tid[u].paused => s.tid[u].sched
    BY DEF AllPrompt, Prompt
  <2> HIDE DEF Off
  <2> QED BY <1>6, <1>7, <2>1 DEF Prompt
<1>8. (\A i \in 1..n : s.tid[q[i]].paused) => AllPrompt(v) BY <1>7 DEF AllPrompt
<1>9. ASSUME n >= 1, \A i \in 1..(n - 1) : s.tid[q[i]].paused
      PROVE  AllBut(v, q[n])
  <2>1. q[n] \in Tids BY <1>1, <1>9
  <2>2. \A i \in 1..n : i \in 1..(n - 1) \/ i = n BY <1>1
  <2>3. \A u \in Tids \ {q[n]} : Off(u) => s.tid[u].paused BY <1>9, <2>2
  <2> QED BY <1>6, <1>7, <2>1, <2>3 DEF AllBut
<1> QED BY <1>8, <1>9 DEF v

(* ath_tgt_tx_sched_aggr *)
LEMMA SchedPrompt ==
    ASSUME NEW s \in States, SessOk(s), NEW t \in Tids, AllBut(s, t), NEW lim \in Limits
    PROVE  AllBut(SchedTid(s, t, lim), t)
<1> SUFFICES ASSUME NEW mid \in States, NEW chain \in Chains,
                    Turns(s, t, mid, chain, SchedTid(s, t, lim))
             PROVE  AllBut(SchedTid(s, t, lim), t)
  BY SchedIs
<1>1. Beside(s, mid, t) /\ mid.tid[t].sched = s.tid[t].sched /\ Lead(mid.tid[t]) BY DEF Turns
<1>2. AllBut(mid, t)
  <2>1. Half(mid.tid[t], s.tidq, t) BY <1>1 DEF AllBut, Half
  <2> QED BY <1>1, <2>1, ButBeside
<1>3. SchedTid(s, t, lim).tid = mid.tid /\ SchedTid(s, t, lim).tidq = mid.tidq
  BY DEF Turns, TxqAdd, States
<1> QED BY <1>2, <1>3, SamePrompt

(* ath_tgt_txq_schedule *)
LEMMA SchedulePrompt ==
    ASSUME NEW s \in States, SessOk(s), AllPrompt(s), NEW lim \in Limits
    PROVE  AllPrompt(Schedule(s, lim))
<1> DEFINE N == Len(s.tidq)
           ready == {i \in 1..N : ~s.tid[s.tidq[i]].paused}
           n == IF ready = {} THEN N ELSE Min(ready)
           t == s.tidq[n]
           u == Unlink(s, n)
           sent == SchedTid(u, t, lim)
           v == Schedule(s, lim)
<1>1. v = CASE ready = {} -> u
            [] ready # {} /\ sent.tid[t].buf_q # << >> -> Enqueue(sent, t)
            [] OTHER -> sent
  BY DEF Schedule
<1>2. N \in Nat /\ s.tidq \in Seq(Tids) BY Types
<1>3. /\ n \in 0..N /\ (ready # {} => n \in 1..N)
      /\ ready = {} => \A i \in 1..n : s.tid[s.tidq[i]].paused
      /\ ready # {} => \A i \in 1..(n - 1) : s.tid[s.tidq[i]].paused
  <2>1. ready \in SUBSET Nat /\ ready \subseteq 1..N BY <1>2
  <2>2. ready # {} => Min(ready) \in ready /\ \A y \in ready : Min(ready) <= y
    BY <2>1, MinOf
  <2>3. \A i \in 1..N : i \notin ready => s.tid[s.tidq[i]].paused OBVIOUS
  <2> HIDE DEF ready
  <2>4. CASE ready = {} BY <1>2, <2>3, <2>4
  <2>5. CASE ready # {}
    <3>1. n = Min(ready) /\ Min(ready) \in 1..N BY <2>1, <2>2, <2>5
    <3> HIDE DEF n
    <3>2. \A i \in 1..(n - 1) : i \in 1..N /\ i \notin ready
      BY <1>2, <2>2, <2>5, <3>1
    <3> QED BY <1>2, <2>3, <2>5, <3>1, <3>2
  <2> QED BY <2>4, <2>5
<1> HIDE DEF v, n, ready
<1>4. u \in States /\ Aside(s, u) BY <1>3, UnlinkKeeps, UnlinkAside
<1>5. /\ (\A i \in 1..n : s.tid[s.tidq[i]].paused) => AllPrompt(u)
      /\ n >= 1 /\ (\A i \in 1..(n - 1) : s.tid[s.tidq[i]].paused) => AllBut(u, t)
  BY <1>3, UnlinkPrompt
<1> HIDE DEF u
<1>6. SessOk(u) BY <1>4, AsideOk
<1>7. CASE ready = {}
  <2>1. v = u BY <1>1, <1>7, Zenon
  <2> QED BY <1>3, <1>5, <1>7, <2>1 DEF v
<1>8. CASE ready # {}
  <2>1. t \in Tids /\ n >= 1 BY <1>2, <1>3, <1>8
  <2>2. AllBut(u, t) BY <1>3, <1>5, <1>8, <2>1
  <2> HIDE DEF t
  <2>3. sent \in States /\ AllBut(sent, t)
    BY <1>4, <1>6, <2>1, <2>2, SchedKeeps, SchedPrompt
  <2> HIDE DEF sent
  <2>4. CASE sent.tid[t].buf_q # << >>
    <3>1. v = Enqueue(sent, t) BY <1>1, <1>8, <2>4, Zenon
    <3> QED BY <2>1, <2>3, <3>1, EnqueuePrompt DEF v
  <2>5. CASE sent.tid[t].buf_q = << >>
    <3>1. v = sent BY <1>1, <1>8, <2>5, Zenon
    <3> QED BY <2>1, <2>3, <2>5, <3>1, ButAll DEF v
  <2> QED BY <2>4, <2>5
<1> QED BY <1>7, <1>8

(* ath_aggr_resume_tid *)
LEMMA ResumePrompt ==
    ASSUME NEW s \in States, NEW t \in Tids, Owes(s, t, Flight(s.axq, t)), AllBut(s, t),
           NEW lim \in Limits
    PROVE  /\ AllPrompt(ResumeTid(s, t, lim))
           /\ s.tid[t].buf_q = << >> =>
                 /\ ResumeTid(s, t, lim).tid[t].buf_q = << >>
                 /\ \A u \in Tids \ {t} : ResumeTid(s, t, lim).tid[u] = s.tid[u]
<1> DEFINE r == s.tid[t]
           x == [r EXCEPT !.paused = FALSE]
           a == [s EXCEPT !.tid[t].paused = FALSE]
           b == Enqueue(a, t)
           c == Schedule(b, lim)
           X == Flight(s.axq, t)
<1>1. ResumeTid(s, t, lim) = IF r.buf_q = << >> THEN a ELSE c BY DEF ResumeTid
<1>2. r \in TidStates BY Types
<1>3. a = [s EXCEPT !.tid[t] = x] BY Types DEF States, TidMap
<1>4. ~x.paused /\ Mate(x, r) /\ x.sched = r.sched /\ x.aggr = r.aggr /\ x.buf_q = r.buf_q
  BY <1>2 DEF Mate, Alike, TidStates
<1>5. TidOk(x, X) /\ Alike(x, r)
  <2>1. TidOk(r, X) BY DEF Owes
  <2> HIDE DEF x, r, X
  <2> QED BY <1>2, <1>4, <2>1, MateOk DEF Mate
<1>6. a \in States BY FlagsKeep
<1> HIDE DEF x
<1>7. /\ a.tid[t] = x /\ OnlyTid(s, a, t) /\ a.axq = s.axq /\ Beside(s, a, t)
  <2> HIDE DEF a
  <2>1. Sets(a, s, t, x) BY <1>3 DEF Sets
  <2> QED BY <2>1, SetAs, SetsBeside
<1> HIDE DEF a
<1>8. Owes(a, t, X)
  <2>1. a.tid[t].aggr => s.tid[t].aggr BY <1>4, <1>7
  <2> QED BY <1>5, <1>7, <2>1, OwesOnly
<1>9. SessOk(a)
  <2>1. Waits(a.tid[t], a.axq, t) BY <1>4, <1>7 DEF Waits
  <2> QED BY <1>7, <1>8, <2>1, OwesAll
<1>10. AllBut(a, t)
  <2>1. Half(r, s.tidq, t) BY DEF AllBut
  <2>2. Lead(r) => Lead(x) BY <1>5, AlikeLead
  <2>3. Half(x, s.tidq, t) BY <1>4, <2>1, <2>2 DEF Half
  <2> QED BY <1>7, <2>3, ButBeside
<1>11. CASE r.buf_q = << >>
  <2>1. AllPrompt(a) BY <1>4, <1>7, <1>10, <1>11, ButAll
  <2> QED BY <1>1, <1>4, <1>7, <1>11, <2>1 DEF Beside
<1>12. CASE r.buf_q # << >>
  <2>1. b \in States /\ SessOk(b) /\ AllPrompt(b)
    BY <1>6, <1>9, <1>10, EnqueueKeeps, EnqueueAside, AsideOk, EnqueuePrompt
  <2> HIDE DEF b
  <2>2. AllPrompt(c) BY <2>1, SchedulePrompt
  <2> HIDE DEF c
  <2> QED BY <1>1, <1>12, <2>2
<1> QED BY <1>11, <1>12

(* ath_aggr_pause_tid: what is paused need not be in axq_tidq. *)
LEMMA PausePrompt ==
    ASSUME NEW s \in States, NEW t \in Tids, AllBut(s, t)
    PROVE  /\ AllPrompt(PauseTid(s, t)) /\ PauseTid(s, t).tidq = s.tidq
           /\ \A u \in Tids \ {t} : PauseTid(s, t).tid[u] = s.tid[u]
<1> DEFINE r == s.tid[t]
           x == [r EXCEPT !.paused = TRUE]
           v == PauseTid(s, t)
<1>1. r \in TidStates BY Types
<1>2. v = [s EXCEPT !.tid[t] = x] BY Types DEF States, TidMap, PauseTid
<1>3. x.paused /\ Alike(x, r) /\ x.sched = r.sched /\ x.aggr = r.aggr
  BY <1>1 DEF Alike, TidStates
<1>4. Half(x, s.tidq, t)
  <2>1. Half(r, s.tidq, t) BY DEF AllBut
  <2>2. Lead(r) => Lead(x) BY <1>3, AlikeLead
  <2> HIDE DEF x, r
  <2> QED BY <1>3, <2>1, <2>2 DEF Half
<1>5. Beside(s, v, t) /\ v.tid[t] = x
  <2> HIDE DEF x, v
  <2>1. Sets(v, s, t, x) BY <1>2 DEF Sets
  <2> QED BY <2>1, SetsBeside
<1> HIDE DEF x, v
<1>6. AllBut(v, t) BY <1>4, <1>5, ButBeside
<1>7. AllPrompt(v) BY <1>3, <1>5, <1>6, ButAll
<1> QED BY <1>5, <1>7 DEF Beside, v

(* ath_bar_tx *)
LEMMA BarTxPrompt ==
    ASSUME NEW s \in States, NEW t \in Tids, NEW f, AllBut(s, t)
    PROVE  AllPrompt(BarTx(s, t, f))
<1> DEFINE p == PauseTid(s, t)
           c == <<[f EXCEPT !.kind = "bar", !.seq = s.tid[t].seq_start]>>
<1>1. BarTx(s, t, f) = TxqAdd(p, c) BY DEF BarTx
<1>2. p \in States /\ AllPrompt(p) BY PauseKeeps, PausePrompt
<1> HIDE DEF p, c
<1>3. TxqAdd(p, c).tid = p.tid /\ TxqAdd(p, c).tidq = p.tidq
  BY <1>2 DEF TxqAdd, States
<1> QED BY <1>1, <1>2, <1>3, SamePrompt

(* ath_tgt_delba_send: the queue is empty afterwards. *)
LEMMA DelbaPrompt ==
    ASSUME NEW s \in States, NEW t \in Tids, Owes(s, t, Flight(s.axq, t)), AllBut(s, t),
           NEW lim \in Limits
    PROVE  LET v == DelbaSend(s, t, lim)
           IN  /\ AllPrompt(v) /\ v.tid[t].buf_q = << >>
               /\ \A u \in Tids \ {t} : v.tid[u] = s.tid[u]
<1> DEFINE v == DelbaSend(s, t, lim)
<1>1. PICK p \in States : Ends(s, t, lim, p, v) BY DelbaIs
<1> DEFINE b == PauseTid(p, t)
           c == ResumeTid(b, t, lim)
           x == p.tid[t]
<1> HIDE DEF v
<1>2. v = IF b.tid[t].cleanup THEN b ELSE c BY <1>1 DEF Ends
<1>3. /\ x \in TidStates /\ x.buf_q = << >> /\ ~x.aggr /\ x.sched = s.tid[t].sched
      /\ p.axq = s.axq /\ Owes(p, t, Flight(p.axq, t)) /\ Beside(s, p, t)
  BY <1>1 DEF Ends, OnlyTid
<1>4. AllBut(p, t)
  <2>1. s.tid[t].sched => InQ(s.tidq, t) BY DEF AllBut, Half
  <2>2. Half(p.tid[t], s.tidq, t) BY <1>3, <2>1 DEF Half
  <2> QED BY <1>3, <2>2, ButBeside
<1>5. b.axq = p.axq /\ Owes(b, t, Flight(b.axq, t)) /\ b.tid[t] = [x EXCEPT !.paused = TRUE]
      /\ b \in States
  BY <1>3, PauseOwes, PauseKeeps
<1>6. AllPrompt(b) /\ \A u \in Tids \ {t} : b.tid[u] = s.tid[u]
  BY <1>3, <1>4, PausePrompt DEF Beside
<1> HIDE DEF b, x
<1>7. b.tid[t].buf_q = << >> BY <1>3, <1>5 DEF TidStates
<1>8. AllBut(b, t) BY <1>6, ButAll
<1>9. AllPrompt(c) /\ c.tid[t].buf_q = << >> /\ \A u \in Tids \ {t} : c.tid[u] = b.tid[u]
  <2>1. /\ AllPrompt(c)
        /\ b.tid[t].buf_q = << >> =>
              c.tid[t].buf_q = << >> /\ \A u \in Tids \ {t} : c.tid[u] = b.tid[u]
    BY <1>5, <1>7, <1>8, ResumePrompt
  <2> HIDE DEF c
  <2> QED BY <1>7, <2>1
<1> HIDE DEF c
<1>10. v = b \/ v = c BY <1>2
<1> QED BY <1>6, <1>7, <1>9, <1>10 DEF v

(* ath_tgt_tid_drain, for an identifier that does not aggregate. *)
LEMMA DrainPrompt ==
    ASSUME NEW s \in States, AllPrompt(s), NEW t \in Tids, ~s.tid[t].aggr
    PROVE  AllPrompt(TidDrain(s, t))
<1> DEFINE r == s.tid[t]
           x == Drained(r)
           n == Len(r.buf_q)
           v == TidDrain(s, t)
<1>1. r \in TidStates /\ << >> \in Seq(Frames) BY Types
<1>2. x.aggr = r.aggr /\ x.sched = r.sched /\ x.buf_q = << >>
  BY <1>1 DEF Drained, TidStates
<1> HIDE DEF x, n
<1>3. Beside(s, Put(s, n, t, x), t) /\ Put(s, n, t, x).tid[t] = x BY PutBeside
<1>4. v = Put(s, n, t, x) BY DrainIs DEF n, x
<1> HIDE DEF v
<1>5. AllBut(s, t) BY ButAll
<1>6. Half(v.tid[t], s.tidq, t) BY <1>2, <1>3, <1>4, <1>5 DEF AllBut, Half
<1>7. AllBut(v, t) BY <1>3, <1>4, <1>5, <1>6, ButBeside
<1> QED BY <1>2, <1>3, <1>4, <1>7, ButAll DEF v

(* n frames of a clean-up have come back: the queue is empty. *)
LEMMA FewerPrompt ==
    ASSUME NEW s \in States, NEW t \in Tids, NEW Y, Owes(s, t, Y), s.tid[t].cleanup, NEW n \in Nat,
           Enough(s.tid[t], n, Flight(s.axq, t)), NEW lim \in Limits, NEW v, AllPrompt(s),
           Counts(s, t, n, lim, v)
    PROVE  AllPrompt(v)
<1>1. PICK w : Counted(s, t, lim, w, v) BY FewerIs
<1> DEFINE x == w.tid[t]
<1>2. Beside(s, w, t) /\ x.buf_q = << >> /\ x.sched = s.tid[t].sched /\ ~x.aggr
  BY <1>1 DEF Counted
<1>3. AllBut(s, t) BY ButAll
<1>4. AllBut(w, t)
  <2>1. Half(x, s.tidq, t) BY <1>2, <1>3 DEF AllBut, Half
  <2> QED BY <1>2, <1>3, <2>1, ButBeside
<1>5. CASE v = w BY <1>2, <1>4, <1>5, ButAll
<1>6. CASE v = ResumeTid(w, t, lim) /\ w \in States
  BY <1>1, <1>4, <1>6, ResumePrompt DEF Counted
<1> QED BY <1>1, <1>5, <1>6 DEF Counted

(* owl_tgt_tid_cleanup *)
LEMMA TidCleanupPrompt ==
    ASSUME NEW s \in States, NEW t \in Tids, NEW Y, Owes(s, t, Y), s.tid[t].cleanup,
           ~s.tid[t].reinit, Enough(s.tid[t], 1, Flight(s.axq, t)), NEW lim \in Limits, AllPrompt(s)
    PROVE  AllPrompt(TidCleanup(s, t, lim))
<1>1. 1 \in Nat OBVIOUS
<1> QED BY <1>1, FewerPrompt, TidCleanupIs

(* ath_tx_comp_cleanup *)
LEMMA CompCleanupPrompt ==
    ASSUME NEW s \in States, NEW t \in Tids, NEW Y, Owes(s, t, Y), s.tid[t].cleanup,
           ~s.tid[t].reinit, NEW chain \in Chains,
           Enough(s.tid[t], Len(chain), Flight(s.axq, t)), NEW lim \in Limits, AllPrompt(s)
    PROVE  AllPrompt(CompCleanup(s, t, chain, lim))
<1> DEFINE v == CompCleanup(s, t, chain, lim)
<1>1. PICK n \in Nat : CountsOff(Release(s, n), t, Y, n, lim, v) BY CompCleanupIs
<1>2. AllPrompt(Release(s, n)) BY ReleasePrompt
<1> HIDE DEF v
<1> QED BY <1>1, <1>2, FewerPrompt DEF CountsOff, v

(* ath_bar_tx_comp and ath_bar_retry *)
LEMMA CompBarPrompt ==
    ASSUME NEW s \in States, NEW t \in Tids, Owes(s, t, Flight(s.axq, t)), AllPrompt(s),
           NEW lim \in Limits, NEW f, NEW ok \in BOOLEAN
    PROVE  AllPrompt(CompBar(s, t, f, ok, lim))
<1> DEFINE a == ResumeTid(s, t, lim)
           b == DelbaSend(s, t, lim)
           c == TidDrain(b, t)
           q == <<[f EXCEPT !.retries = @ + 1]>>
           v == CompBar(s, t, f, ok, lim)
           z == TxqAdd(s, q)
<1>1. v = CASE ok -> Release(a, 1)
            [] ~ok /\ f.retries >= MaxBarRetries -> Release(c, 1)
            [] OTHER -> z
  BY DEF CompBar
<1> HIDE DEF v, q
<1>2. AllBut(s, t) BY ButAll
<1>3. a \in States /\ AllPrompt(a) BY <1>2, ResumeKeeps, ResumePrompt
<1>4. b \in States /\ ~b.tid[t].aggr /\ AllPrompt(b)
  BY <1>2, DelbaKeeps, DelbaSess, DelbaPrompt
<1> HIDE DEF a, b
<1>5. c \in States /\ AllPrompt(c) BY <1>4, DrainKeeps, DrainPrompt
<1> HIDE DEF c
<1>6. AllPrompt(z)
  <2>1. z.tid = s.tid /\ z.tidq = s.tidq BY DEF TxqAdd, States
  <2> HIDE DEF z
  <2> QED BY <2>1, SamePrompt
<1>7. AllPrompt(Release(a, 1)) /\ AllPrompt(Release(c, 1))
  BY <1>3, <1>5, ReleasePrompt
<1>8. v = Release(a, 1) \/ v = Release(c, 1) \/ v = z BY <1>1, Zenon
<1> QED BY <1>6, <1>7, <1>8 DEF v

(* ath_tgt_tx_comp_normal.  Without drains no clean-up meets such a frame. *)
LEMMA CompNormalPrompt ==
    ASSUME NEW s \in States, NEW t \in Tids, Owes(s, t, Flight(s.axq, t)), AllPrompt(s),
           Flight(s.axq, t) = {}, Exactly, NEW lim
    PROVE  AllPrompt(CompNormal(s, t, lim))
<1>1. TidOk(s.tid[t], {}) BY DEF Owes
<1>2. Cardinality({}) = 0 BY FS_EmptySet
<1>3. ~s.tid[t].cleanup
  <2>1. ASSUME s.tid[t].cleanup PROVE FALSE
    <3> DEFINE n == s.tid[t].incomp
    <3>1. n >= 1 /\ n = 0 BY <1>1, <1>2, <2>1 DEF TidOk, Ended
    <3> HIDE DEF n
    <3> QED BY <3>1
  <2> QED BY <2>1
<1> QED BY <1>3, ReleasePrompt DEF CompNormal

(* The identifier t changes and is prompt, the others are as before. *)
LEMMA AllBeside ==
    ASSUME NEW s, AllPrompt(s), NEW t \in Tids, NEW v, Beside(s, v, t),
           Prompt(v.tid[t], s.tidq, t)
    PROVE  AllPrompt(v)
BY DEF AllPrompt, Beside

(* ath_tx_comp_unaggr and ath_tgt_tx_comp_aggr *)
LEMMA ServedPrompt ==
    ASSUME NEW s \in States, AllPrompt(s), NEW t \in Tids, NEW Z,
           NEW a \in States, NEW v, Served(s, t, Z, a, v)
    PROVE  AllPrompt(v)
<1> DEFINE x == a.tid[t]
           r == s.tid[t]
<1>1. Lead(x) /\ x.sched = r.sched /\ x.paused = r.paused /\ Beside(s, a, t)
  BY DEF Served, Serves, SameMode
<1>2. PICK b \in {a} \cup {BarTx(a, t, f) : f \in OwnFrames(t)} :
         v = Enqueue(b, t) \/ (v = b /\ x.buf_q = r.buf_q)
  BY DEF Served
<1> HIDE DEF Served
<1>3. Prompt(r, s.tidq, t) /\ AllBut(s, t) BY ButAll DEF AllPrompt
<1>4. AllBut(a, t) /\ (x.buf_q = r.buf_q => AllPrompt(a))
  <2>1. Half(x, s.tidq, t) BY <1>1, <1>3 DEF Prompt, Half
  <2>2. x.buf_q = r.buf_q => Prompt(x, s.tidq, t) BY <1>1, <1>3, <2>1 DEF Prompt
  <2> QED BY <1>1, <1>3, <2>1, <2>2, ButBeside, AllBeside
<1>5. b \in States /\ AllBut(b, t) /\ (x.buf_q = r.buf_q => AllPrompt(b))
  <2>1. \A f \in OwnFrames(t) : AllPrompt(BarTx(a, t, f)) /\ BarTx(a, t, f) \in States
    BY <1>4, BarTxPrompt, BarTxKeeps
  <2> QED BY <1>4, <2>1, ButAll
<1>6. AllPrompt(Enqueue(b, t)) BY <1>5, EnqueuePrompt
<1> QED BY <1>2, <1>5, <1>6

(* owltgt_tx_processq. *)
LEMMA CompletePrompt ==
    ASSUME NEW s \in States, SessOk(s), NoReinit(s), s.axq # << >>, Exactly, AllPrompt(s),
           NEW ack, NEW lim \in Limits
    PROVE  AllPrompt(Complete(s, ack, lim))
<1> DEFINE rest == Rest(s)
           v == Complete(s, ack, lim)
           k == CompCount(s)
           chain == Head(s.axq)
<1>1. rest \in States /\ AllPrompt(rest)
  <2>1. rest.tidq = s.tidq BY DEF Rest, States
  <2>2. rest \in States /\ rest.tid = s.tid BY RestKeeps
  <2> QED BY <2>1, <2>2, SamePrompt
<1>2. PICK f, t, Y, ok : Completes(rest, chain, f, t, Y, ok, lim, v, k)
  BY CompleteIs
<1> HIDE DEF rest, v, k, chain
<1>3. CASE MgtDone(rest, chain, f, v, k) BY <1>1, <1>3, ReleasePrompt DEF MgtDone, v
<1>4. CASE NormalDone(rest, chain, f, t, lim, v, k)
  BY <1>1, <1>4, CompNormalPrompt DEF NormalDone, v
<1>5. CASE BarDone(rest, chain, f, t, ok, lim, v, k)
  BY <1>1, <1>5, CompBarPrompt DEF BarDone, v
<1>6. CASE CleanupDone(rest, chain, t, Y, lim, v, k)
  BY <1>1, <1>6, CompCleanupPrompt DEF CleanupDone, OffAir, v
<1>7. CASE ServeDone(rest, chain, t, Y, v, k)
  BY <1>1, <1>7, ServedPrompt DEF ServeDone, OffAir, v
<1> QED BY <1>2, <1>3, <1>4, <1>5, <1>6, <1>7 DEF Completes

(* The first frame of a queue fits in the window when nothing is in flight: a
   frame to retry has its place there, and a window without a frame has room
   for the next one. *)
LEMMA FirstFits ==
    ASSUME NEW t \in Tids, NEW r, OwnQueue(r, t), NEW m \in Nat, InWindow(r, {}, m), Exactly,
           Lead(r), r.buf_q # << >>
    PROVE  BawWithin(r.seq_start, r.buf_q[1].seq)
<1> DEFINE L == Len(r.buf_q)
           T == Total(r)
           N == Span(r)
           A == Again(r)
           d == BaIndex(r.seq_start, r.buf_q[1].seq)
<1>1. /\ r \in TidStates /\ L \in Nat /\ T \in Nat /\ N \in Nat /\ BawSize \in Nat
      /\ r.buf_q \in Seq(OwnFrames(t))
  BY SessionNums
<1>2. 1 \in 1..L
  <2>1. L # 0 BY <1>1
  <2> HIDE DEF L
  <2> QED BY <1>1, <2>1
<1>3. r.buf_q[1].seq \in SeqNos /\ d \in Nat BY <1>2, SessionNums
<1>4. Fresh(r, m) /\ Ahead(r, m) /\ Holds(r, A)
  <2>1. {} \cup A = A OBVIOUS
  <2> HIDE DEF A
  <2>2. Holds(r, {} \cup A) BY DEF InWindow, A
  <2> QED BY <2>1, <2>2 DEF InWindow
<1>5. /\ m \in 0..L /\ N + m <= T /\ T <= BawSize + m
      /\ 1 + m > L => d = (T - L) + (1 - 1)
  BY <1>2, <1>4 DEF Fresh, Ahead
<1>6. /\ \A i \in 1..L : i + m <= L => r.buf_q[i].seq \in A
      /\ \A x \in A : \E i \in 1..L : i + m <= L /\ r.buf_q[i].seq = x
  BY <1>4, AgainIs
<1>7. CASE A = {}
  <2>1. Busy(r) = {}
    <3> HIDE DEF A
    <3>1. Busy(r) = {BaIndex(r.seq_start, x) : x \in A} BY <1>1, <1>4, BusyExact
    <3> QED BY <1>7, <3>1
  <2>2. T < BawSize + L BY <2>1 DEF Lead
  <2>3. ~(1 + m <= L) BY <1>2, <1>6, <1>7
  <2> HIDE DEF T, L, d, N
  <2>4. d < BawSize BY <1>1, <1>5, <2>2, <2>3
  <2> QED BY <2>4 DEF BawWithin, d
<1>8. CASE A # {}
  <2>1. PICK i \in 1..L : i + m <= L BY <1>6, <1>8
  <2>2. 1 + m <= L
    <3> HIDE DEF L
    <3> QED BY <1>1, <1>5, <2>1
  <2>3. d \in Busy(r)
    <3>1. r.buf_q[1].seq \in A BY <1>2, <1>6, <2>2
    <3> QED BY <1>4, <3>1 DEF Holds
  <2>4. d < N BY <1>1, <1>3, <2>3, HeldPlace
  <2> HIDE DEF T, L, d, N
  <2>5. d < BawSize BY <1>1, <1>3, <1>5, <2>4
  <2> QED BY <2>5 DEF BawWithin, d
<1> QED BY <1>7, <1>8

(* ath_tgt_tx_form_aggr finds a frame when the first one fits. *)
LEMMA SomeFits ==
    ASSUME NEW t \in Tids, NEW r, OwnQueue(r, t), r.buf_q # << >>,
           BawWithin(r.seq_start, r.buf_q[1].seq), NEW lim \in Limits
    PROVE  FormAggr(r, lim) # 0
<1> DEFINE L == Len(r.buf_q)
           B == {n \in 0..L : \A i \in 1..n : BawWithin(r.seq_start, r.buf_q[i].seq)}
           x == Max(B)
<1>1. L \in Nat /\ r.buf_q \in Seq(OwnFrames(t)) BY DEF OwnQueue
<1>2. L >= 1
  <2>1. L # 0 BY <1>1
  <2> HIDE DEF L
  <2> QED BY <1>1, <2>1
<1>3. 1 \in B /\ B \subseteq 0..L
  <2>1. \A i \in 1..1 : i = 1 OBVIOUS
  <2>2. 1 \in 0..L BY <1>1, <1>2
  <2> QED BY <2>1, <2>2
<1> HIDE DEF B
<1>4. x \in B /\ \A y \in B : x >= y
  <2> DEFINE T == {L - z : z \in B}
  <2>1. \A z \in B : z \in Nat /\ L - z \in Nat BY <1>1, <1>3
  <2>2. T \in SUBSET Nat /\ T # {} BY <1>3, <2>1
  <2>3. PICK y \in T : \A z \in T : y <= z BY <2>2, LeastOf
  <2>4. PICK b \in B : y = L - b BY <2>3
  <2>5. \A z \in B : L - b <= L - z BY <2>3, <2>4
  <2>6. \A z \in B : b >= z BY <1>1, <2>1, <2>4, <2>5
  <2> QED BY <2>4, <2>6 DEF Max
<1>5. x \in Nat /\ x >= 1 /\ lim \in Nat /\ lim >= 1
  <2>1. x \in Nat /\ x >= 1
    <3> HIDE DEF x
    <3> QED BY <1>1, <1>3, <1>4
  <2>2. lim \in 1..MaxAggr BY DEF Limits
  <2> QED BY <2>1, <2>2
<1>6. FormAggr(r, lim) = Min({lim, x}) BY DEF FormAggr, B
<1> HIDE DEF x
<1>7. {lim, x} \in SUBSET Nat /\ {lim, x} # {} BY <1>5
<1>8. Min({lim, x}) \in {lim, x} BY <1>7, MinOf
<1> QED BY <1>5, <1>6, <1>8

(* A turn of an identifier with frames sends a chain when nothing is in
   flight. *)
LEMMA SchedSends ==
    ASSUME NEW s \in States, SessOk(s), s.axq = << >>, Exactly, NEW t \in Tids,
           s.tid[t].buf_q # << >>, s.tid[t].aggr => Lead(s.tid[t]), NEW lim \in Limits
    PROVE  SchedTid(s, t, lim).axq # << >>
<1> DEFINE r == s.tid[t]
           n == SchedCount(r, lim)
           chain == SubSeq(r.buf_q, 1, n)
           w == IF r.aggr THEN AddAllToBaw(r, chain) ELSE r
           x == [w EXCEPT !.buf_q = SubSeq(@, n + 1, Len(@))]
           v == SchedTid(s, t, lim)
<1>1. OwnQueue(r, t) /\ r \in TidStates BY Types
<1>2. TidOk(r, {})
  <2>1. Flight(s.axq, t) = {} BY FlightNone
  <2> QED BY <2>1 DEF SessOk, TidSess
<1>3. r.aggr BY <1>2 DEF TidOk, Ended
<1>4. PICK m \in Nat : InWindow(r, {}, m) BY <1>2, <1>3 DEF TidOk
<1>5. n # 0
  <2>1. Lead(r) /\ r.buf_q # << >> BY <1>3
  <2> HIDE DEF r
  <2>2. BawWithin(r.seq_start, r.buf_q[1].seq) BY <1>1, <1>4, <2>1, FirstFits
  <2>3. FormAggr(r, lim) # 0 BY <1>1, <2>1, <2>2, SomeFits
  <2> QED BY <1>3, <2>3 DEF SchedCount
<1>6. v = TxqAdd([s EXCEPT !.tid[t] = x], chain)
  BY <1>5 DEF SchedTid, SchedCount
<1> HIDE DEF x, chain
<1>7. v.axq = Append(s.axq, chain) BY <1>6, Zenon DEF TxqAdd, States
<1> QED BY <1>7

(* ath_tgt_txq_schedule leaves the hardware queue empty only when no frame
   waits. *)
LEMMA ScheduleIdle ==
    ASSUME Exactly, \A a, b \in Tids : a = b,
           NEW s \in States, SessOk(s), AllPrompt(s), NEW lim \in Limits,
           Schedule(s, lim).axq = << >>, NEW t \in Tids
    PROVE  Schedule(s, lim).tid[t].buf_q = << >>
<1> DEFINE N == Len(s.tidq)
           ready == {i \in 1..N : ~s.tid[s.tidq[i]].paused}
           n == IF ready = {} THEN N ELSE Min(ready)
           o == s.tidq[n]
           u == Unlink(s, n)
           sent == SchedTid(u, o, lim)
           v == Schedule(s, lim)
           r == s.tid[t]
<1>1. v = CASE ready = {} -> u
            [] ready # {} /\ sent.tid[o].buf_q # << >> -> Enqueue(sent, o)
            [] OTHER -> sent
  BY Zenon DEF Schedule
<1>2. N \in Nat /\ s.tidq \in Seq(Tids) BY Types
<1>3. n \in 0..N /\ (ready # {} => n \in 1..N)
  <2>1. ready \in SUBSET Nat /\ ready \subseteq 1..N BY <1>2
  <2>2. ready # {} => Min(ready) \in ready BY <2>1, MinOf
  <2> HIDE DEF ready
  <2>3. CASE ready = {}
    <3>1. n = N /\ N \in 0..N BY <1>2, <2>3
    <3> QED BY <2>3, <3>1
  <2>4. CASE ready # {}
    <3>1. n = Min(ready) /\ Min(ready) \in 1..N BY <2>1, <2>2, <2>4
    <3> HIDE DEF n
    <3>2. n \in 1..N /\ n \in 0..N BY <1>2, <3>1
    <3> QED BY <3>2
  <2> QED BY <2>3, <2>4
<1>4. v.axq = << >> OBVIOUS
<1>5. ready # {} => o = t
  <2> HIDE DEF n, ready
  <2>1. ready # {} => o \in Tids BY <1>2, <1>3
  <2> HIDE DEF o
  <2> QED BY <2>1
<1>6. \A i \in 1..N : s.tidq[i] = t /\ ~r.paused => i \in ready OBVIOUS
<1> HIDE DEF v, n, ready
<1>7. u \in States /\ Aside(s, u) BY <1>3, UnlinkKeeps, UnlinkAside
<1> HIDE DEF u
<1>8. SessOk(u) /\ u.axq = s.axq /\ Twin(u.tid[t], r) BY <1>7, AsideOk DEF Aside
<1> HIDE DEF o, r
<1>9. CASE r.buf_q = << >>
  <2>1. u.tid[t].buf_q = << >> BY <1>8, <1>9 DEF Twin, Alike
  <2>2. v = u
    <3>1. CASE ready = {} BY <1>1, <3>1, Zenon
    <3>2. CASE ready # {}
      <4>1. SchedCount(u.tid[t], lim) = 0
        <5>1. SchedCount(u.tid[t], lim) \in 0..Len(u.tid[t].buf_q)
          BY <1>7, Types, SchedCountType
        <5>2. Len(u.tid[t].buf_q) = 0 BY <2>1
        <5> HIDE DEF u
        <5> QED BY <5>1, <5>2
      <4>2. sent = u BY <1>5, <3>2, <4>1 DEF SchedTid, SchedCount
      <4> HIDE DEF sent
      <4> QED BY <1>1, <1>5, <2>1, <3>2, <4>2, Zenon
    <3> QED BY <3>1, <3>2
  <2> QED BY <2>1, <2>2 DEF v
<1>10. CASE r.buf_q # << >>
  <2>1. ready # {} => sent.axq = << >>
    <3>1. ASSUME ready # {}
          PROVE  sent.axq = << >>
      <4>1. o \in Tids BY <1>5, <3>1
      <4>2. sent \in States BY <1>7, <4>1, SchedKeeps
      <4> HIDE DEF sent
      <4>3. CASE sent.tid[o].buf_q # << >>
        <5>1. v = Enqueue(sent, o) BY <1>1, <3>1, <4>3, Zenon
        <5>2. Enqueue(sent, o).axq = sent.axq
          BY <4>1, <4>2, EnqueueAside DEF Aside
        <5> QED BY <1>4, <5>1, <5>2
      <4>4. CASE sent.tid[o].buf_q = << >>
        <5>1. v = sent BY <1>1, <3>1, <4>4, Zenon
        <5> QED BY <1>4, <5>1
      <4> QED BY <4>3, <4>4
    <3> QED BY <3>1
  <2>2. s.axq = << >>
    <3>1. CASE ready = {}
      <4>1. v = u BY <1>1, <3>1, Zenon
      <4> QED BY <1>4, <1>8, <4>1
    <3>2. CASE ready # {}
      <4> DEFINE x == SchedCount(u.tid[t], lim)
                 chain == SubSeq(u.tid[t].buf_q, 1, x)
                 w == IF u.tid[t].aggr THEN AddAllToBaw(u.tid[t], chain) ELSE u.tid[t]
                 y == [w EXCEPT !.buf_q = SubSeq(@, x + 1, Len(@))]
      <4>1. sent = IF x = 0 THEN u ELSE TxqAdd([u EXCEPT !.tid[t] = y], chain)
        BY <1>5, <3>2 DEF SchedTid, SchedCount
      <4> HIDE DEF x, y, chain
      <4>2. TxqAdd([u EXCEPT !.tid[t] = y], chain).axq = Append(u.axq, chain)
        BY <1>7 DEF TxqAdd, States
      <4>3. x = 0 BY <2>1, <3>2, <4>1, <4>2
      <4> QED BY <1>8, <2>1, <3>2, <4>1, <4>3
    <3> QED BY <3>1, <3>2
  <2>3. Prompt(r, s.tidq, t) /\ TidSess(r, s.axq, t) BY DEF AllPrompt, SessOk, r
  <2>4. r.aggr /\ ~r.cleanup BY <1>10, <2>3 DEF TidSess, TidOk, Ended
  <2>5. ~r.paused BY <2>2, <2>3, <2>4, FlightNone DEF TidSess, Waits
  <2>6. InQ(s.tidq, t) BY <1>10, <2>3, <2>5 DEF Prompt, Half
  <2>7. ready # {} BY <1>6, <2>5, <2>6 DEF InQ
  <2>8. /\ u.axq = << >> /\ u.tid[t].buf_q # << >>
        /\ Lead(u.tid[t])
    <3>1. Lead(r) BY <2>3, <2>4 DEF Prompt, Half
    <3>2. Alike(u.tid[t], r) /\ u.tid[t].buf_q = r.buf_q BY <1>8 DEF Twin, Alike
    <3> QED BY <1>8, <1>10, <2>2, <3>1, <3>2, AlikeLead
  <2>9. SchedTid(u, t, lim).axq # << >> BY <1>7, <1>8, <2>8, SchedSends
  <2> QED BY <1>5, <2>1, <2>7, <2>9
<1> QED BY <1>9, <1>10

(* The station has been created and nothing has been sent. *)
LEMMA BriskInit ==
    ASSUME Init
    PROVE  Brisk(sc)
<1>1. ASSUME NEW t \in Tids
      PROVE  sc.tid[t] = FreshTid
  BY DEF Init
<1>2. FreshTid.buf_q = << >> /\ ~FreshTid.sched /\ ~FreshTid.aggr
  BY DEF FreshTid
<1>3. ASSUME NEW t \in Tids
      PROVE  Prompt(sc.tid[t], sc.tidq, t) /\ sc.tid[t].buf_q = << >>
  <2>1. sc.tid[t].buf_q = << >> /\ ~sc.tid[t].sched /\ ~sc.tid[t].aggr
    BY <1>1, <1>2
  <2> QED BY <2>1 DEF Prompt, Half
<1> QED BY <1>3 DEF Brisk, AllPrompt, Idle

(* owl_tgt_tx_tasklet *)
LEMMA TxCompleteBrisk ==
    ASSUME Lone, IInv, SInv, Brisk(sc), TxComplete
    PROVE  Brisk(sc)'
<1>1. sc \in States /\ Even(sc) /\ SessOk(sc) /\ NoReinit(sc) /\ sc.axq # << >>
  BY DEF IInv, Good, SInv, Even, TxComplete
<1>2. PICK lim1 \in Limits, lim2 \in Limits : sc' = Schedule(Complete(sc, acked, lim1), lim2)
  BY DEF TxComplete
<1> DEFINE u == Complete(sc, acked, lim1)
           v == Schedule(u, lim2)
<1>3. u \in States /\ SessOk(u) BY <1>1, CompleteEven DEF Even
<1>4. AllPrompt(u) BY <1>1, CompletePrompt DEF Lone, Brisk
<1> HIDE DEF u
<1>5. AllPrompt(v) /\ Idle(v)
  <2>1. AllPrompt(v) BY <1>3, <1>4, SchedulePrompt
  <2>2. ASSUME v.axq = << >>, NEW t \in Tids
        PROVE  v.tid[t].buf_q = << >>
    BY <1>3, <1>4, <2>2, ScheduleIdle DEF Lone
  <2> HIDE DEF v
  <2> QED BY <2>1, <2>2 DEF Idle
<1> HIDE DEF v
<1>6. sc' = v BY <1>2 DEF v, u
<1> QED BY <1>5, <1>6 DEF Brisk

(* A chain added keeps everybody prompt. *)
LEMMA AddBrisk ==
    ASSUME NEW s \in States, AllPrompt(s), NEW c \in Chains
    PROVE  Brisk(TxqAdd(s, c))
<1> DEFINE v == TxqAdd(s, c)
<1>1. AllPrompt(v) BY TxqAddPrompt
<1>2. v.axq = Append(s.axq, c) BY DEF TxqAdd, States
<1>3. v.axq # << >> BY <1>2
<1> HIDE DEF v
<1> QED BY <1>1, <1>3 DEF Brisk, Idle, v

(* The state the handlers of a frame start from *)
LEMMA PreparedBeside ==
    ASSUME sc \in States, NEW t \in Tids
    PROVE  Beside(sc, Prepared(t), t)
<1> DEFINE u == Prepared(t)
<1>1. OnlyTid(sc, u, t) BY PreparedNumbers DEF Numbers
<1>2. u.tidq = sc.tidq BY DEF Prepared, States
<1> HIDE DEF u
<1> QED BY <1>1, <1>2 DEF Beside, OnlyTid, u

(* ath_tgt_handle_normal *)
LEMMA HandleNormalBrisk ==
    ASSUME NEW s \in States, AllPrompt(s), NEW t \in Tids, ~s.tid[t].aggr,
           NEW u \in States, Numbers(s, u, t), Beside(s, u, t),
           NEW f \in Frames, f.kind = "normal", f.tid = t
    PROVE  Brisk(HandleNormal(u, t, f))
<1> DEFINE r == s.tid[t]
           x == Started(r)
           w == [u EXCEPT !.tid[t] = x]
           c == <<f>>
           v == TxqAdd(w, c)
<1>1. r \in TidStates /\ u.tid[t] = Numbered(r) BY Types DEF Numbers
<1>2. HandleNormal(u, t, f) = v
  <2>1. u.tid \in [Tids -> TidStates] BY Types DEF TidMap
  <2>2. [u EXCEPT !.tid[t].seq_start = SeqPlus(@, 1)] = w
    BY <1>1, <2>1 DEF Started, States
  <2> QED BY <2>2 DEF HandleNormal
<1>3. c \in Chains
  <2>1. f \in Singles BY DEF Singles
  <2>2. c \in Seq(Frames) /\ c # << >> /\ Len(c) = 1 /\ c[1] = f OBVIOUS
  <2> QED BY <2>1, <2>2 DEF Chains
<1>4. Sets(w, u, t, x) BY DEF Sets
<1>5. /\ x \in TidStates /\ x.buf_q = u.tid[t].buf_q /\ x.reinit = u.tid[t].reinit
      /\ x.sched = u.tid[t].sched
  BY <1>1, StartedIs
<1>6. x.buf_q = r.buf_q /\ x.sched = r.sched /\ x.paused = r.paused /\ ~x.aggr
  BY <1>1, StartedIs DEF SameMode
<1>7. w \in States
  <2> HIDE DEF x, r
  <2> QED BY <1>5, FieldKeeps
<1> HIDE DEF w, c, x, r
<1>8. w.tid[t] = x /\ Beside(u, w, t) BY <1>4, SetsBeside
<1>9. Beside(s, w, t) BY <1>8 DEF Beside
<1>10. Prompt(x, s.tidq, t)
  <2>1. Prompt(r, s.tidq, t) BY DEF AllPrompt, r
  <2> QED BY <1>6, <2>1 DEF Prompt, Half
<1>11. AllPrompt(w) BY <1>8, <1>9, <1>10, AllBeside
<1>12. Brisk(v) BY <1>3, <1>7, <1>11, AddBrisk
<1> QED BY <1>2, <1>12

(* A frame more in the queue, and a number more. *)
LEMMA PushLead ==
    ASSUME NEW t \in Tids, NEW r, OwnQueue(r, t), Total(r) + 1 < SeqMax, Lead(r),
           NEW f \in OwnFrames(t), OwnQueue(Pushed(r, f), t)
    PROVE  Lead(Pushed(r, f))
<1> DEFINE q == r.buf_q
           L == Len(q)
           T == Total(r)
           u == Pushed(r, f)
           y == SeqPlus(r.seq_next, 1)
<1>1. /\ r \in TidStates /\ q \in Seq(OwnFrames(t)) /\ L \in Nat /\ T \in Nat
      /\ r.seq_start \in SeqNos /\ r.seq_next \in SeqNos /\ BawSize \in Nat /\ SeqMax \in Nat
  BY SessionNums
<1>2. Len(Append(q, f)) = L + 1 BY <1>1
<1>3. T + 1 \in 0..(SeqMax - 1) /\ T \in 0..(SeqMax - 1) /\ T + 1 < SeqMax /\ 1 \in Nat
  BY <1>1
<1>4. y = SeqPlus(r.seq_start, T + 1)
  <2>1. SeqPlus(r.seq_start, T) = r.seq_next BY <1>1, Places DEF Total
  <2>2. r.seq_start \in 0..(SeqMax - 1) /\ r.seq_start \in Int /\ r.seq_next \in Int
    BY <1>1, Rings
  <2> HIDE DEF T
  <2>3. RingPlus(SeqMax, RingPlus(SeqMax, r.seq_start, T), 1) = RingPlus(SeqMax, r.seq_start, T + 1)
    BY <1>1, <1>3, <2>2, Rings, RingSum
  <2>4. /\ SeqPlus(r.seq_start, T) = RingPlus(SeqMax, r.seq_start, T)
        /\ SeqPlus(r.seq_start, T + 1) = RingPlus(SeqMax, r.seq_start, T + 1)
        /\ SeqPlus(r.seq_next, 1) = RingPlus(SeqMax, r.seq_next, 1)
    <3>1. T \in Int /\ T + 1 \in Int /\ 1 \in Int BY <1>1
    <3> QED BY <2>2, <3>1, Rings
  <2> QED BY <2>1, <2>3, <2>4
<1>5. /\ u.seq_next = y /\ u.buf_q = Append(q, f) /\ u.seq_start = r.seq_start
      /\ u.baw_head = r.baw_head /\ u.baw_tail = r.baw_tail /\ u.bitmap = r.bitmap
  <2> DEFINE Q == Append(q, f)
             z == [r EXCEPT !.seq_next = y]
  <2> HIDE DEF y, q, Q
  <2>1. /\ z.seq_next = y /\ z.buf_q = r.buf_q /\ z.seq_start = r.seq_start
        /\ z.baw_head = r.baw_head /\ z.baw_tail = r.baw_tail /\ z.bitmap = r.bitmap
        /\ DOMAIN z = DOMAIN r /\ "buf_q" \in DOMAIN z
    BY <1>1 DEF TidStates
  <2>2. u = [z EXCEPT !.buf_q = Q] BY <1>1 DEF Pushed, Q, q, y, TidStates
  <2> HIDE DEF z, u
  <2> QED BY <2>1, <2>2 DEF Q
<1> HIDE DEF u, y
<1>6. Total(u) = T + 1
  <2>1. BaIndex(r.seq_start, SeqPlus(r.seq_start, T + 1)) = T + 1
    <3> HIDE DEF T
    <3> QED BY <1>1, <1>3, Places
  <2>2. Total(u) = BaIndex(r.seq_start, y) BY <1>5 DEF Total
  <2> QED BY <1>4, <2>1, <2>2
<1>7. Busy(u) = Busy(r) /\ Span(u) = Span(r) BY <1>5 DEF Busy, Span
<1>8. Len(u.buf_q) = L + 1 BY <1>2, <1>5
<1>9. Busy(r) = {} => Span(r) = 0 /\ T < BawSize + L BY DEF Lead
<1> HIDE DEF T, L
<1>10. T < BawSize + L => T + 1 < BawSize + (L + 1) BY <1>1
<1> QED BY <1>6, <1>7, <1>8, <1>9, <1>10 DEF Lead, u

(* A frame put behind the others of its identifier *)
LEMMA QueuePrompt ==
    ASSUME NEW s \in States, SessOk(s), AllPrompt(s), NEW t \in Tids, s.tid[t].aggr,
           Total(s.tid[t]) + 1 < SeqMax, NEW u \in States, Numbers(s, u, t), Beside(s, u, t),
           NEW f \in OwnFrames(t), f.seq = s.tid[t].seq_next, f.retries = 0
    PROVE  LET v == Enqueue([u EXCEPT !.tid[t].buf_q = Append(@, f)], t)
           IN  AllPrompt(v) /\ v.axq = s.axq
<1> DEFINE r == s.tid[t]
           x == Pushed(r, f)
           w == [u EXCEPT !.tid[t].buf_q = Append(@, f)]
<1>1. Joins(s, u, t, Flight(s.axq, t), w) /\ Behind(s, t, f, w) BY QueueIs
<1>2. Total(r) + 1 < SeqMax /\ f.seq = r.seq_next /\ r.aggr /\ OwnQueue(r, t) BY Types
<1>3. Half(r, s.tidq, t) BY DEF AllPrompt, Prompt
<1> HIDE DEF w, r, x
<1>4. OwnQueue(x, t) /\ w.tid[t] = x BY <1>1 DEF Behind, x, r
<1>5. Lead(x)
  <2>1. Lead(r) BY <1>2, <1>3 DEF Half
  <2> QED BY <1>2, <1>4, <2>1, PushLead DEF x
<1>6. w \in States /\ SameMode(x, r) /\ x.sched = r.sched /\ Beside(u, w, t) /\ w.axq = s.axq
  BY <1>1, <1>4 DEF Joins, OnlyTid, r
<1>7. Beside(s, w, t) BY <1>6 DEF Beside
<1>8. Half(w.tid[t], s.tidq, t) BY <1>3, <1>5, <1>6, <1>4 DEF Half, SameMode
<1>9. AllBut(w, t)
  <2>1. AllBut(s, t) BY ButAll
  <2> QED BY <1>7, <1>8, <2>1, ButBeside
<1>10. AllPrompt(Enqueue(w, t)) /\ Enqueue(w, t).axq = s.axq
  BY <1>6, <1>9, EnqueuePrompt, EnqueueAside DEF Aside
<1> QED BY <1>10 DEF w

(* A frame sent at once *)
LEMMA DirectBrisk ==
    ASSUME NEW s \in States, SessOk(s), AllPrompt(s), NEW t \in Tids, s.tid[t].aggr,
           Total(s.tid[t]) + 1 < SeqMax, NEW u \in States, Numbers(s, u, t), Beside(s, u, t),
           NEW f \in OwnFrames(t), f.seq = s.tid[t].seq_next, f.retries = 0,
           s.tid[t].buf_q = << >>, BawWithin(s.tid[t].seq_start, f.seq)
    PROVE  Brisk(TxqAdd([u EXCEPT !.tid[t] = AddToBaw(@, f.seq)], <<f>>))
<1> DEFINE r == s.tid[t]
           Z == Flight(s.axq, t) \cup {f.seq}
           w == [u EXCEPT !.tid[t] = AddToBaw(@, f.seq)]
           x == w.tid[t]
           c == <<f>>
<1>1. Joins(s, u, t, Z, w) /\ x.buf_q = << >> /\ c \in Chains BY DirectIs
<1>2. Half(r, s.tidq, t) BY DEF AllPrompt, Prompt
<1>3. Z # {} OBVIOUS
<1> HIDE DEF w, Z, r, c
<1>4. w \in States /\ SameMode(x, r) /\ x.sched = r.sched /\ Beside(u, w, t)
  BY <1>1 DEF Joins, r
<1>5. Lead(x)
  <2>1. PICK e \in Nat : InWindow(x, Z, e) BY <1>1 DEF Joins
  <2> QED BY <1>3, <2>1, WindowLead
<1>6. Prompt(x, s.tidq, t) BY <1>1, <1>2, <1>4, <1>5 DEF Prompt, Half
<1>7. Beside(s, w, t) BY <1>4 DEF Beside
<1>8. AllPrompt(w) BY <1>6, <1>7, AllBeside
<1>9. Brisk(TxqAdd(w, c)) BY <1>1, <1>4, <1>8, AddBrisk
<1> QED BY <1>9 DEF c, w

(* With nothing in flight a frame is sent at once. *)
LEMMA NoneWaits ==
    ASSUME Exactly, NEW s \in States, SessOk(s), Brisk(s), s.axq = << >>,
           NEW t \in Tids, s.tid[t].aggr
    PROVE  /\ s.tid[t].buf_q = << >> /\ ~s.tid[t].paused
           /\ BawWithin(s.tid[t].seq_start, s.tid[t].seq_next)
<1> DEFINE r == s.tid[t]
           X == Flight(s.axq, t)
           T == Total(r)
<1>1. r \in TidStates /\ OwnQueue(r, t) BY Types
<1>2. r.buf_q = << >> /\ Lead(r) BY DEF Brisk, Idle, AllPrompt, Prompt, Half
<1>3. ~r.paused
  <2>1. ~r.cleanup /\ Waits(r, s.axq, t) BY AggrSess
  <2> QED BY <2>1, FlightNone DEF Waits
<1>4. PICK m \in Nat : InWindow(r, X, m) BY AggrSess
<1>5. Busy(r) = {}
  <2>1. ToSet(r.buf_q) = {} BY <1>2 DEF ToSet
  <2>2. Again(r) = {} /\ X = {} BY <2>1, FlightNone DEF Again, Waiting
  <2>3. X \cup Again(r) = {} BY <2>2
  <2>4. Holds(r, {}) BY <1>4, <2>3 DEF InWindow
  <2> HIDE DEF r
  <2>5. Busy(r) = {BaIndex(r.seq_start, z) : z \in {}} BY <1>1, <2>4, BusyExact
  <2> QED BY <2>5
<1>6. T < BawSize
  <2>1. T < BawSize + Len(r.buf_q) BY <1>2, <1>5 DEF Lead
  <2>2. Len(r.buf_q) = 0 BY <1>2
  <2>3. BawSize \in Nat BY BawAssumption
  <2> HIDE DEF T
  <2> QED BY <2>1, <2>2, <2>3
<1> QED BY <1>2, <1>3, <1>6 DEF Total, BawWithin

(* ath_tgt_handle_aggr *)
LEMMA HandleAggrBrisk ==
    ASSUME Exactly, NEW s \in States, SessOk(s), Brisk(s), NEW t \in Tids, s.tid[t].aggr,
           Total(s.tid[t]) + 1 < SeqMax, NEW u \in States, Numbers(s, u, t), Beside(s, u, t),
           NEW f \in OwnFrames(t), f.seq = s.tid[t].seq_next, f.retries = 0
    PROVE  Brisk(HandleAggr(u, t, f))
<1> DEFINE B == \/ u.axq # << >>
                \/ u.tid[t].buf_q # << >>
                \/ u.tid[t].paused
                \/ ~BawWithin(u.tid[t].seq_start, f.seq)
           a == Enqueue([u EXCEPT !.tid[t].buf_q = Append(@, f)], t)
           d == TxqAdd([u EXCEPT !.tid[t] = AddToBaw(@, f.seq)], <<f>>)
<1>1. HandleAggr(u, t, f) = IF B THEN a ELSE d BY DEF HandleAggr
<1>2. s.tid[t] \in TidStates /\ u.tid[t] = Numbered(s.tid[t]) /\ u.axq = s.axq
  BY Types DEF Numbers, OnlyTid
<1>3. /\ u.tid[t].buf_q = s.tid[t].buf_q /\ u.tid[t].seq_start = s.tid[t].seq_start
      /\ u.tid[t].paused = s.tid[t].paused
  BY <1>2, StartedIs DEF SameMode
<1>4. AllPrompt(s) BY DEF Brisk
<1>5. CASE B
  <2>1. s.axq # << >>
    <3>1. ASSUME s.axq = << >>
          PROVE  FALSE
      <4>1. /\ s.tid[t].buf_q = << >> /\ ~s.tid[t].paused
            /\ BawWithin(s.tid[t].seq_start, s.tid[t].seq_next)
        BY <3>1, NoneWaits
      <4> QED BY <1>2, <1>3, <1>5, <3>1, <4>1
    <3> QED BY <3>1
  <2>2. AllPrompt(a) /\ a.axq = s.axq BY <1>4, QueuePrompt
  <2> HIDE DEF a, B, d
  <2>3. Brisk(a) BY <2>1, <2>2 DEF Brisk, Idle
  <2> QED BY <1>1, <1>5, <2>3
<1>6. CASE ~B
  <2>1. s.tid[t].buf_q = << >> /\ BawWithin(s.tid[t].seq_start, f.seq)
    BY <1>3, <1>6
  <2>2. Brisk(d) BY <1>4, <2>1, DirectBrisk
  <2> HIDE DEF a, B, d
  <2> QED BY <1>1, <1>6, <2>2
<1> QED BY <1>5, <1>6

(* tgt_HTCRecvMessageHandler *)
LEMMA RecvDataBrisk ==
    ASSUME Lone, IInv, SInv, Brisk(sc), NEW t \in Tids, RecvData(t)
    PROVE  Brisk(sc)'
<1> DEFINE u == Prepared(t)
           f == FrameOf(t, "aggr")
           g == FrameOf(t, "normal")
           a == HandleAggr(u, t, f)
           b == HandleNormal(u, t, g)
<1>1. sc' = (IF sc.tid[t].aggr THEN a ELSE b) /\ sc.held < NumBufs
  BY DEF RecvData, HasCredit
<1>2. sc \in States /\ Even(sc) /\ SessOk(sc) /\ AllPrompt(sc) /\ Exactly /\ Orderly
  BY DEF IInv, Good, SInv, Even, Brisk, Lone
<1>3. /\ f \in OwnFrames(t) /\ g \in Frames /\ g.kind = "normal" /\ g.tid = t
      /\ f.seq = sc.tid[t].seq_next /\ f.retries = 0
  <2>1. sc.tid[t].seq_next \in SeqNos BY <1>2, Types DEF TidStates
  <2> QED BY <2>1 DEF FrameOf, OwnFrames, Frames
<1> HIDE DEF f, g
<1>4. u \in States /\ Numbers(sc, u, t) /\ Beside(sc, u, t)
  BY <1>2, PreparedTakes, PreparedNumbers, PreparedBeside DEF Took
<1> HIDE DEF u
<1>5. CASE sc.tid[t].aggr
  <2>1. Total(sc.tid[t]) + 1 < SeqMax BY <1>1, <1>2, <1>5, NumberLeft
  <2>2. Brisk(a) BY <1>2, <1>3, <1>4, <1>5, <2>1, HandleAggrBrisk
  <2> HIDE DEF a, b
  <2>3. sc' = a BY <1>1, <1>5
  <2> QED BY <2>2, <2>3
<1>6. CASE ~sc.tid[t].aggr
  <2>1. Brisk(b) BY <1>2, <1>3, <1>4, <1>6, HandleNormalBrisk
  <2> HIDE DEF a, b
  <2>2. sc' = b BY <1>1, <1>6
  <2> QED BY <2>1, <2>2
<1> QED BY <1>5, <1>6

(* ath_tgt_send_mgt *)
LEMMA RecvMgtBrisk ==
    ASSUME Lone, IInv, SInv, Brisk(sc), RecvMgt
    PROVE  Brisk(sc)'
<1> DEFINE taken == [sc EXCEPT !.free = @ - 1]
           f == [kind |-> "mgt", tid |-> NoTid, seq |-> 0, retries |-> 0]
           c == <<f>>
           u == [taken EXCEPT !.held = @ + 1]
<1>1. sc' = TxqAdd(u, c) BY DEF RecvMgt, Lone, Orderly
<1>2. sc \in States /\ AllPrompt(sc) BY DEF IInv, Good, Brisk
<1>3. sc.free \in Int /\ sc.held \in Int /\ sc.free - 1 \in Int /\ sc.held + 1 \in Int
  BY <1>2, Nums
<1>4. taken \in States /\ taken.held = sc.held /\ taken.tid = sc.tid /\ taken.tidq = sc.tidq
  BY <1>2, <1>3 DEF States
<1> HIDE DEF taken
<1>5. u \in States /\ u.tid = sc.tid /\ u.tidq = sc.tidq
  BY <1>3, <1>4 DEF States
<1>6. c \in Chains
  <2>1. f \in Frames /\ f.kind = "mgt" BY RingTypes DEF Frames
  <2> HIDE DEF f
  <2> QED BY <2>1 DEF Chains, Singles
<1> HIDE DEF u, c
<1>7. AllPrompt(u) BY <1>2, <1>5, SamePrompt
<1>8. Brisk(TxqAdd(u, c)) BY <1>5, <1>6, <1>7, AddBrisk
<1> QED BY <1>1, <1>8

(* ath_enable_aggr_tgt: the host has waited until there is room. *)
LEMMA EnableAggrBrisk ==
    ASSUME Lone, IInv, SInv, Brisk(sc), NEW t \in Tids, EnableAggr(t)
    PROVE  Brisk(sc)'
<1> DEFINE r == sc.tid[t]
           v == [sc EXCEPT !.tid[t].aggr = TRUE]
           x == [r EXCEPT !.aggr = TRUE]
<1>1. sc' = v /\ ~r.aggr /\ QuietTid(t) BY DEF EnableAggr, Lone, Orderly
<1>2. sc \in States /\ SessOk(sc) /\ AllPrompt(sc) /\ Idle(sc)
  BY DEF IInv, Good, SInv, Even, Brisk
<1>3. r \in TidStates /\ sc.tid \in [Tids -> TidStates]
  BY <1>2, Types DEF TidMap
<1>4. Sets(v, sc, t, x)
  <2>1. v = [sc EXCEPT !.tid[t] = x] BY <1>2, <1>3 DEF States
  <2> QED BY <2>1 DEF Sets
<1> HIDE DEF v
<1>5. v.tid[t] = x /\ v.axq = sc.axq /\ Beside(sc, v, t)
  BY <1>2, <1>4, SetAs, SetsBeside
<1>6. r.buf_q = << >> /\ Span(r) = 0
  BY <1>1, <1>2 DEF SessOk, TidSess, TidOk, Ended
<1>7. Total(r) < BawSize BY <1>1 DEF QuietTid, BawWithin, Total
<1>8. /\ x.buf_q = r.buf_q /\ x.sched = r.sched /\ x.seq_start = r.seq_start
      /\ x.seq_next = r.seq_next /\ x.baw_head = r.baw_head /\ x.baw_tail = r.baw_tail
  BY <1>3 DEF TidStates
<1> HIDE DEF x
<1>9. Lead(x)
  <2>1. Span(x) = Span(r) /\ Total(x) = Total(r) BY <1>8 DEF Span, Total
  <2>2. Len(x.buf_q) = 0 /\ BawSize \in Nat BY <1>6, <1>8, BawAssumption
  <2>3. BawSize + 0 = BawSize BY <2>2
  <2> HIDE DEF r
  <2>4. Total(x) < BawSize + Len(x.buf_q) BY <1>7, <2>1, <2>2, <2>3
  <2> QED BY <1>6, <2>1, <2>4 DEF Lead
<1>10. Prompt(x, sc.tidq, t)
  <2>1. Half(r, sc.tidq, t) BY <1>2 DEF AllPrompt, Prompt
  <2> QED BY <1>6, <1>8, <1>9, <2>1 DEF Prompt, Half
<1>11. AllPrompt(v) BY <1>2, <1>5, <1>10, AllBeside
<1>12. Idle(v)
  <2>1. ASSUME v.axq = << >>, NEW o \in Tids
        PROVE  v.tid[o].buf_q = << >>
    <3>1. CASE o = t BY <1>5, <1>6, <1>8, <3>1
    <3>2. CASE o # t BY <1>2, <1>5, <2>1, <3>2 DEF Idle, Beside
    <3> QED BY <3>1, <3>2
  <2> QED BY <2>1 DEF Idle
<1> QED BY <1>1, <1>11, <1>12 DEF Brisk

(* The end of aggregation on the host's word *)
LEMMA DisableAggrBrisk ==
    ASSUME Lone, IInv, SInv, Brisk(sc), NEW t \in Tids, DisableAggr(t)
    PROVE  Brisk(sc)'
<1>1. PICK lim \in Limits : sc' = DelbaSend(sc, t, lim)
  BY DEF DisableAggr, DelbaSend
<1> DEFINE v == DelbaSend(sc, t, lim)
<1>2. sc \in States /\ SessOk(sc) /\ AllPrompt(sc) /\ Idle(sc)
  BY DEF IInv, Good, SInv, Even, Brisk
<1>3. Owes(sc, t, Flight(sc.axq, t)) /\ AllBut(sc, t) BY <1>2, OwesAll, ButAll
<1>4. /\ AllPrompt(v) /\ v.tid[t].buf_q = << >> /\ v.axq = sc.axq
      /\ \A o \in Tids \ {t} : v.tid[o] = sc.tid[o]
  BY <1>2, <1>3, DelbaPrompt, DelbaSess
<1>5. sc' = v BY <1>1
<1> HIDE DEF v
<1>6. Idle(v)
  <2>1. ASSUME v.axq = << >>, NEW o \in Tids
        PROVE  v.tid[o].buf_q = << >>
    <3>1. CASE o = t BY <1>4, <3>1
    <3>2. CASE o # t BY <1>2, <1>4, <2>1, <3>2 DEF Idle
    <3> QED BY <3>1, <3>2
  <2> QED BY <2>1 DEF Idle
<1> QED BY <1>4, <1>5, <1>6 DEF Brisk

(* ath_node_create_tgt: every identifier starts anew. *)
LEMMA NodeCreateBrisk ==
    ASSUME Lone, IInv, SInv, Brisk(sc), NodeCreate
    PROVE  Brisk(sc)'
<1> DEFINE map == [t \in Tids |-> NewTid(sc.tid[t])]
           v == [sc EXCEPT !.tid = map]
<1>1. sc' = v /\ ~valid BY DEF NodeCreate, NewTid
<1>2. sc \in States /\ SessOk(sc) /\ Gone(sc) /\ Orderly
  BY <1>1 DEF IInv, Good, SInv, Even, Lone
<1>3. sc.axq = << >> BY <1>1, <1>2, Absent
<1>4. ASSUME NEW t \in Tids
      PROVE  map[t].buf_q = << >> /\ ~map[t].sched /\ ~map[t].aggr
  <2> DEFINE r == sc.tid[t]
  <2>1. r \in TidStates BY <1>2, Types
  <2>2. Ended(r, {}) /\ Exactly
    BY <1>2, <1>3, FlightNone DEF SessOk, TidSess, TidOk, Gone, Lone
  <2>3. ~r.cleanup BY <2>2, EndedIdle
  <2>4. map[t] = TidInit(r) BY <2>3 DEF NewTid
  <2>5. TidInit(r).buf_q = << >> /\ ~TidInit(r).sched /\ ~TidInit(r).aggr
    BY <2>1 DEF TidStates, TidInit
  <2> QED BY <2>4, <2>5
<1> HIDE DEF map
<1>5. v.tid = map /\ v.tidq = sc.tidq BY <1>2 DEF States
<1> HIDE DEF v
<1>6. AllPrompt(v) /\ Idle(v) BY <1>4, <1>5 DEF AllPrompt, Prompt, Half, Idle
<1> QED BY <1>1, <1>6 DEF Brisk

(* Every step keeps the identifier prompt. *)
LEMMA NextBrisk ==
    ASSUME Lone, IInv, SInv, Brisk(sc), [Next]_vars
    PROVE  Brisk(sc)'
<1>1. CASE sc' = sc BY <1>1
<1>2. CASE TxComplete BY <1>2, TxCompleteBrisk
<1>3. ASSUME NEW t \in Tids, RecvData(t) \/ EnableAggr(t) \/ DisableAggr(t)
      PROVE  Brisk(sc)'
  BY <1>3, RecvDataBrisk, EnableAggrBrisk, DisableAggrBrisk
<1>4. CASE RecvMgt BY <1>4, RecvMgtBrisk
<1>5. CASE NodeCreate BY <1>5, NodeCreateBrisk
<1>6. CASE DrainNext \/ DrainEnd BY <1>6 DEF DrainNext, DrainEnd, SInv, Lone
<1>7. HwDone \/ NodeCleanup \/ DrainStart \/ UNCHANGED vars => sc' = sc
  BY DEF HwDone, NodeCleanup, DrainStart, vars
<1> QED BY <1>1, <1>2, <1>3, <1>4, <1>5, <1>6, <1>7 DEF Next

(* One identifier on the access category, a quiet host and no drain: frames
   never wait in the software queue unless the identifier is in axq_tidq and
   a completion that will schedule it is due, or it is paused
   (ath_tgt_txq_schedule is called from completions only). *)
THEOREM NoStuckOne ==
    ASSUME QuietHost, BawSize + NumBufs < SeqMax, "drain" \notin HostOps,
           \A a, b \in Tids : a = b
    PROVE  Spec => []NoStuckTid
<1>1. Lone /\ Orderly BY OrderlyHost DEF Exactly, Lone
<1>2. Spec => []SInv BY <1>1, SessInductive
<1> DEFINE P == Brisk(sc)
<1>3. Init => P BY BriskInit
<1>4. IInv /\ SInv /\ P /\ [Next]_vars => P' BY <1>1, NextBrisk
<1>5. P => NoStuckTid
  <2>1. ASSUME P, NEW t \in Tids, sc.tid[t].buf_q # << >>, ~sc.tid[t].paused
        PROVE  sc.tid[t].sched /\ sc.axq # << >>
    BY <2>1 DEF Brisk, AllPrompt, Prompt, Idle
  <2> QED BY <2>1 DEF NoStuckTid
<1> HIDE DEF P
<1> QED BY <1>2, <1>3, <1>4, <1>5, Inductive, PTL DEF Spec
=============================================================================
