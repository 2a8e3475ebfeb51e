----------------------------- MODULE WmiProofs -----------------------------
(* Proofs about Wmi for pools of every size, any number of places in an    *)
(* event and every finite set of frames.                                   *)
EXTENDS Wmi, FiniteSetTheorems, WellFoundedInduction, TLAPS

Entry == [cookie : Cookies, ack : BOOLEAN]
Messages == [class : {"reply", "event"}, body : Seq(Entry)]
PoolState == [reply : Nat, event : Nat, assert : BOOLEAN]
WireState == [msgs : Seq(Messages), fifo : Seq(Messages)]
StatusState == [list : Seq(Entry), old : [Places -> BOOLEAN]]
TxsState == [1..2 -> StatusState]
CmdStates == [st : {"sent"}, op : Ops]
             \cup [st : {"none", "handled", "dropped", "halted"}, op : {"none"}]

(* The type invariant.                                                     *)
TypeOK ==
    /\ wmi \in PoolState
    /\ wire \in WireState /\ Len(wire.fifo) <= 1
    /\ intr \in BOOLEAN
    /\ txs \in TxsState
    /\ frame \in [Cookies -> {"free"} \cup Fates]
    /\ cmd \in CmdStates
----------------------------------------------------------------------------
(* Induction over the natural numbers, for a set.                          *)

(* A set of naturals has a least element.                                  *)
LEMMA LeastOf ==
    ASSUME NEW T \in SUBSET Nat, T # {}
    PROVE  \E x \in T : \A y \in T : x <= y
<1> DEFINE R == OpToRel(<, Nat)
<1>1. IsWellFoundedOn(R, Nat)
  BY NatLessThanWellFounded
<1> HIDE DEF R
<1>2. T \subseteq Nat
  OBVIOUS
<1>3. \E x \in T : \A y \in T : ~(<<y, x>> \in R)
  BY <1>1, <1>2, WFMin
<1>4. PICK x \in T : \A y \in T : ~(<<y, x>> \in R)
  BY <1>3
<1>5. ASSUME NEW y \in T
      PROVE  x <= y
  <2>1. ~(<<y, x>> \in R)
    BY <1>4
  <2>2. ~(y < x)
    BY <2>1 DEF R, OpToRel
  <2> QED BY <2>2
<1> QED BY <1>4, <1>5

(* Induction over the naturals, for a set.                                 *)
LEMMA SetInduction ==
    ASSUME NEW M, 0 \in M, \A n \in Nat : n \in M => n + 1 \in M
    PROVE  \A n \in Nat : n \in M
<1> DEFINE T == {n \in Nat : n \notin M}
<1> SUFFICES ASSUME T # {} PROVE FALSE
  OBVIOUS
<1>1. PICK x \in T : \A y \in T : x <= y
  BY LeastOf
<1>2. x # 0 /\ x \in Nat /\ x \notin M
  OBVIOUS
<1>3. x - 1 \in Nat /\ x - 1 \notin T
  BY <1>1, <1>2
<1>4. x - 1 \in M
  BY <1>3
<1>5. (x - 1) + 1 \in M
  BY <1>3, <1>4
<1> QED BY <1>2, <1>5
----------------------------------------------------------------------------
(* The completions of a set of frames, one after another: the fold.        *)

Pick(s) == CHOOSE x \in s : TRUE
Folds(f, t, D, fate) ==
    [s \in SUBSET D |->
       IF s = {} THEN t ELSE StatusUpdate(f[s \ {Pick(s)}], Pick(s), fate[Pick(s)])]

(* The fold that StatusUpdates is, written as the choice it abbreviates.   *)
LEMMA UpdatesFold ==
    ASSUME NEW t, NEW D, NEW fate
    PROVE  StatusUpdates(t, D, fate) = (CHOOSE f : f = Folds(f, t, D, fate))[D]
BY DEF StatusUpdates, FoldSet, MapThenFoldSet, Folds, Pick

(* One element taken from a finite set leaves a smaller one.               *)
LEMMA Picked ==
    ASSUME NEW D, IsFiniteSet(D), NEW s \in SUBSET D, s # {}
    PROVE  /\ Pick(s) \in s /\ s \ {Pick(s)} \in SUBSET D
           /\ IsFiniteSet(s) /\ Cardinality(s) \in Nat
           /\ Cardinality(s \ {Pick(s)}) = Cardinality(s) - 1
<1>1. Pick(s) \in s
  BY DEF Pick
<1>2. IsFiniteSet(s)
  BY FS_Subset
<1> QED BY <1>1, <1>2, FS_RemoveElement, FS_CardinalityType

(* The subsets of D with at most n elements.                               *)
UpTo(D, n) == {s \in SUBSET D : Cardinality(s) <= n}

Step(f, s, t, fate) ==
    IF s = {} THEN t ELSE StatusUpdate(f[s \ {Pick(s)}], Pick(s), fate[Pick(s)])

(* The fold has a value for every set of cookies.                          *)
LEMMA FoldExists ==
    ASSUME NEW t, NEW D, IsFiniteSet(D), NEW fate
    PROVE  \E f : f = Folds(f, t, D, fate)
<1> DEFINE M == {n \in Nat : \E f : f = [s \in UpTo(D, n) |-> Step(f, s, t, fate)]}
<1>0. \A s \in SUBSET D : IsFiniteSet(s) /\ Cardinality(s) \in Nat /\ (Cardinality(s) = 0 <=> s = {})
  BY FS_Subset, FS_CardinalityType, FS_EmptySet
<1>1. 0 \in M
  <2> DEFINE f == [s \in UpTo(D, 0) |-> t]
  <2>1. \A s \in UpTo(D, 0) : s = {}
    BY <1>0 DEF UpTo
  <2>2. \A s \in UpTo(D, 0) : Step(f, s, t, fate) = t
    BY <2>1 DEF Step
  <2> HIDE DEF f
  <2>3. f = [s \in UpTo(D, 0) |-> Step(f, s, t, fate)]
    BY <2>2, Zenon DEF f
  <2> QED BY <2>3
<1>2. ASSUME NEW n \in Nat, n \in M
      PROVE  n + 1 \in M
  <2>1. PICK f : f = [s \in UpTo(D, n) |-> Step(f, s, t, fate)]
    BY <1>2
  <2> DEFINE g == [s \in UpTo(D, n + 1) |-> Step(f, s, t, fate)]
  <2>2. \A s \in UpTo(D, n) : s \in UpTo(D, n + 1) /\ g[s] = f[s]
    <3>1. UpTo(D, n) \subseteq UpTo(D, n + 1)
      BY <1>0 DEF UpTo
    <3>2. \A s \in UpTo(D, n) : f[s] = Step(f, s, t, fate)
      BY <2>1, Zenon
    <3> QED BY <3>1, <3>2
  <2> HIDE DEF g
  <2>3. ASSUME NEW s \in UpTo(D, n + 1)
        PROVE  Step(f, s, t, fate) = Step(g, s, t, fate)
    <3>1. CASE s = {}
      BY <3>1 DEF Step
    <3>2. CASE s # {}
      <4>1. s \in SUBSET D
        BY DEF UpTo
      <4>2. s \ {Pick(s)} \in SUBSET D /\ Cardinality(s) \in Nat
            /\ Cardinality(s \ {Pick(s)}) = Cardinality(s) - 1
        BY <3>2, <4>1, Picked
      <4>3. Cardinality(s) <= n + 1
        BY DEF UpTo
      <4>4. s \ {Pick(s)} \in UpTo(D, n)
        BY <4>2, <4>3 DEF UpTo
      <4> QED BY <2>2, <4>4 DEF Step
    <3> QED BY <3>1, <3>2
  <2>4. g = [s \in UpTo(D, n + 1) |-> Step(g, s, t, fate)]
    BY <2>3, Zenon DEF g
  <2> QED BY <2>4
<1> HIDE DEF M
<1>3. \A n \in Nat : n \in M
  BY <1>1, <1>2, SetInduction
<1>4. Cardinality(D) \in Nat /\ UpTo(D, Cardinality(D)) = SUBSET D
  BY FS_Subset, FS_CardinalityType DEF UpTo
<1>5. \E f : f = [s \in UpTo(D, Cardinality(D)) |-> Step(f, s, t, fate)]
  BY <1>3, <1>4 DEF M
<1> QED BY <1>4, <1>5, Zenon DEF Folds, Step
----------------------------------------------------------------------------
(* What the entries say.                                                   *)

(* The bounds are positive.                                                *)
LEMMA Bounds == MaxTxStatus \in Nat /\ MaxTxStatus >= 1 /\ IsFiniteSet(Cookies)
                /\ MaxCmdReply \in Nat /\ MaxCmdReply >= 1 /\ MaxEvents \in Nat
BY PoolAssumption

(* An entry is about one of the frames of D and says what became of it.    *)
TellsOf(e, D, fate) ==
    /\ e.cookie \in D
    /\ fate[e.cookie] = "acked" => e.ack
    /\ fate[e.cookie] = "failed" => ~e.ack

(* The two lists say so, each frame is in one of their places, and neither *)
(* is longer than an event.                                                *)
Right(t, D, fate) ==
    \A d, e \in 1..2 :
      /\ Len(t[d].list) <= MaxTxStatus
      /\ \A i \in DOMAIN t[d].list : TellsOf(t[d].list[i], D, fate)
      /\ \A i \in DOMAIN t[d].list, j \in DOMAIN t[e].list :
           t[d].list[i].cookie = t[e].list[j].cookie => d = e /\ i = j

(* The result of ath_tx_status_update and ath_tx_status_update_aggr.       *)
Written(t, e, c, ack) ==
    [list |-> Append(t[e].list, [cookie |-> c, ack |-> ack]),
     old |-> [t[e].old EXCEPT ![Len(t[e].list) + 1] = ack]]

(* ath_tx_status_update either writes one entry with the fate of the frame *)
(* or, both tables full, none.                                             *)
LEMMA UpdateCases ==
    ASSUME NEW t \in TxsState, NEW c \in Cookies, NEW fate
    PROVE  \/ StatusUpdate(t, c, fate) = t
           \/ \E e \in 1..2, ack \in BOOLEAN :
                /\ Len(t[e].list) < MaxTxStatus
                /\ fate = "acked" => ack
                /\ fate = "failed" => ~ack
                /\ StatusUpdate(t, c, fate) = [t EXCEPT ![e] = Written(t, e, c, ack)]
<1>1. CASE WithRoom(t) = {}
  BY <1>1 DEF StatusUpdate
<1>2. CASE WithRoom(t) # {}
  <2> DEFINE e == CHOOSE x \in WithRoom(t) : TRUE
             i == Len(t[e].list) + 1
             ack == fate = "acked" \/ (fate = "aggrfailed" /\ t[e].old[i])
  <2>1. e \in WithRoom(t)
    BY <1>2
  <2>2. StatusUpdate(t, c, fate) = [t EXCEPT ![e] = Written(t, e, c, ack)]
    BY <1>2, Zenon DEF StatusUpdate, Written
  <2> HIDE DEF e
  <2>3. e \in 1..2 /\ Len(t[e].list) < MaxTxStatus
    BY <2>1 DEF WithRoom
  <2>4. ack \in BOOLEAN /\ (fate = "acked" => ack) /\ (fate = "failed" => ~ack)
    OBVIOUS
  <2> HIDE DEF ack
  <2> QED BY <2>2, <2>3, <2>4
<1> QED BY <1>1, <1>2

(* The table after an entry is written.                                    *)
LEMMA WrittenFacts ==
    ASSUME NEW t \in TxsState, NEW c \in Cookies, NEW e \in 1..2, NEW ack \in BOOLEAN,
           Len(t[e].list) < MaxTxStatus
    PROVE  LET n == Len(t[e].list)
               u == [t EXCEPT ![e] = Written(t, e, c, ack)]
           IN  /\ n \in Nat /\ u \in TxsState
               /\ Len(u[e].list) = n + 1 /\ DOMAIN u[e].list = 1..(n + 1) /\ DOMAIN t[e].list = 1..n
               /\ u[e].list[n + 1] = [cookie |-> c, ack |-> ack]
               /\ \A i \in 1..n : u[e].list[i] = t[e].list[i]
               /\ \A d \in 1..2 : d # e => u[d] = t[d]
<1> DEFINE q == t[e].list
           n == Len(q)
           x == [cookie |-> c, ack |-> ack]
           w == Written(t, e, c, ack)
           o == t[e].old
<1>1. q \in Seq(Entry) /\ o \in [Places -> BOOLEAN] /\ x \in Entry
  BY DEF TxsState, StatusState, Entry
<1> HIDE DEF q, o, x
<1>2. n \in Nat /\ n + 1 \in Places
  <2>1. n \in Nat /\ n < MaxTxStatus
    BY <1>1 DEF q
  <2> QED BY <2>1, Bounds DEF Places
<1>3. w = [list |-> Append(q, x), old |-> [o EXCEPT ![n + 1] = ack]]
  BY Zenon DEF Written, q, o, x
<1>4. Append(q, x) \in Seq(Entry) /\ Len(Append(q, x)) = n + 1 /\ Append(q, x)[n + 1] = x
      /\ DOMAIN Append(q, x) = 1..(n + 1) /\ DOMAIN q = 1..n
      /\ \A i \in 1..n : Append(q, x)[i] = q[i]
  BY <1>1
<1>5. [o EXCEPT ![n + 1] = ack] \in [Places -> BOOLEAN]
  BY <1>1, <1>2
<1> DEFINE a == Append(q, x)
           b == [o EXCEPT ![n + 1] = ack]
<1> HIDE DEF a, b, w
<1>6. w \in StatusState /\ w.list = a
  <2>1. a \in Seq(Entry) /\ b \in [Places -> BOOLEAN] /\ w = [list |-> a, old |-> b]
    BY <1>3, <1>4, <1>5 DEF a, b
  <2> QED BY <2>1 DEF StatusState
<1> DEFINE u == [t EXCEPT ![e] = w]
<1>7. u \in TxsState /\ u[e] = w /\ \A d \in 1..2 : d # e => u[d] = t[d]
  BY <1>6 DEF TxsState
<1> HIDE DEF u
<1>8. u[e].list = a
  BY <1>6, <1>7
<1> QED BY <1>2, <1>4, <1>7, <1>8, Zenon DEF u, w, a, q, x

(* An update keeps the types of the tables.                                *)
LEMMA UpdateType ==
    ASSUME NEW t \in TxsState, NEW c \in Cookies, NEW fate
    PROVE  StatusUpdate(t, c, fate) \in TxsState
<1> DEFINE v == StatusUpdate(t, c, fate)
<1>1. \/ v = t
      \/ \E e \in 1..2, ack \in BOOLEAN :
           /\ Len(t[e].list) < MaxTxStatus
           /\ fate = "acked" => ack
           /\ fate = "failed" => ~ack
           /\ v = [t EXCEPT ![e] = Written(t, e, c, ack)]
  BY UpdateCases, SMT
<1> HIDE DEF v
<1>2. CASE v # t
  <2>1. PICK e \in 1..2, ack \in BOOLEAN :
           Len(t[e].list) < MaxTxStatus /\ v = [t EXCEPT ![e] = Written(t, e, c, ack)]
    BY <1>1, <1>2, Zenon
  <2>2. [t EXCEPT ![e] = Written(t, e, c, ack)] \in TxsState
    BY <2>1, WrittenFacts
  <2> QED BY <2>1, <2>2, Zenon DEF v
<1> QED BY <1>2 DEF v

(* An update keeps the tables right for one cookie more.                   *)
LEMMA UpdateRight ==
    ASSUME NEW t \in TxsState, NEW D \in SUBSET Cookies, NEW fate, NEW c \in Cookies, c \notin D,
           Right(t, D, fate)
    PROVE  Right(StatusUpdate(t, c, fate[c]), D \cup {c}, fate)
<1> DEFINE v == StatusUpdate(t, c, fate[c])
<1>1. CASE v = t
  <2>1. \A x : TellsOf(x, D, fate) => TellsOf(x, D \cup {c}, fate)
    BY DEF TellsOf
  <2>2. Right(t, D \cup {c}, fate)
    BY <2>1 DEF Right
  <2> QED BY <1>1, <2>2
<1>2. \/ v = t
      \/ \E e \in 1..2, ack \in BOOLEAN :
           /\ Len(t[e].list) < MaxTxStatus
           /\ fate[c] = "acked" => ack
           /\ fate[c] = "failed" => ~ack
           /\ v = [t EXCEPT ![e] = Written(t, e, c, ack)]
  BY UpdateCases, Zenon
<1> HIDE DEF v
<1>3. CASE v # t
  <2>0. PICK e \in 1..2, ack \in BOOLEAN :
           /\ Len(t[e].list) < MaxTxStatus
           /\ fate[c] = "acked" => ack
           /\ fate[c] = "failed" => ~ack
           /\ v = [t EXCEPT ![e] = Written(t, e, c, ack)]
    BY <1>2, <1>3, Zenon
  <2> DEFINE n == Len(t[e].list)
             x == [cookie |-> c, ack |-> ack]
  <2>1. /\ n \in Nat /\ Len(v[e].list) = n + 1
        /\ DOMAIN v[e].list = 1..(n + 1) /\ DOMAIN t[e].list = 1..n
        /\ v[e].list[n + 1] = x
        /\ \A i \in 1..n : v[e].list[i] = t[e].list[i]
        /\ \A d \in 1..2 : d # e => v[d] = t[d]
    BY <2>0, WrittenFacts
  <2>2. x.cookie = c /\ TellsOf(x, D \cup {c}, fate)
    BY <2>0, Zenon DEF TellsOf
  <2> HIDE DEF n, x
  <2>3. \A i \in 1..(n + 1) : i = n + 1 \/ i \in 1..n
    BY <2>1
  <2>4. \A d \in 1..2 : \A i \in DOMAIN t[d].list :
          TellsOf(t[d].list[i], D \cup {c}, fate) /\ t[d].list[i].cookie # c
    BY DEF Right, TellsOf
  (* A place of the new lists: the new entry, or one of the old.           *)
  <2>5. ASSUME NEW d \in 1..2, NEW i \in DOMAIN v[d].list
        PROVE  \/ d = e /\ i = n + 1 /\ v[d].list[i] = x
               \/ i \in DOMAIN t[d].list /\ v[d].list[i] = t[d].list[i]
    BY <2>1, <2>3
  <2>6. ASSUME NEW d \in 1..2
        PROVE  Len(v[d].list) <= MaxTxStatus
    <3>1. CASE d = e
      <4>1. n < MaxTxStatus
        BY <2>0 DEF n
      <4> QED BY <2>1, <3>1, <4>1, Bounds
    <3>2. CASE d # e
      BY <2>1, <3>2 DEF Right
    <3> QED BY <3>1, <3>2
  <2>7. ASSUME NEW d \in 1..2, NEW i \in DOMAIN v[d].list
        PROVE  TellsOf(v[d].list[i], D \cup {c}, fate)
    BY <2>2, <2>4, <2>5
  <2>8. ASSUME NEW d \in 1..2, NEW f \in 1..2, NEW i \in DOMAIN v[d].list, NEW j \in DOMAIN v[f].list,
               v[d].list[i].cookie = v[f].list[j].cookie
        PROVE  d = f /\ i = j
    <3>1. CASE i \in DOMAIN t[d].list /\ v[d].list[i] = t[d].list[i]
               /\ j \in DOMAIN t[f].list /\ v[f].list[j] = t[f].list[j]
      BY <2>8, <3>1 DEF Right
    <3>2. CASE d = e /\ i = n + 1 /\ v[d].list[i] = x /\ f = e /\ j = n + 1
      BY <3>2
    <3>3. CASE v[d].list[i] = x /\ j \in DOMAIN t[f].list /\ v[f].list[j] = t[f].list[j]
      BY <2>2, <2>4, <2>8, <3>3
    <3>4. CASE v[f].list[j] = x /\ i \in DOMAIN t[d].list /\ v[d].list[i] = t[d].list[i]
      BY <2>2, <2>4, <2>8, <3>4
    <3> QED BY <2>5, <3>1, <3>2, <3>3, <3>4
  <2>9. Right(v, D \cup {c}, fate)
    BY <2>6, <2>7, <2>8 DEF Right
  <2> QED BY <2>9 DEF v
<1> QED BY <1>1, <1>3 DEF v

(* owltgt_tx_processq: types, and from empty lists what the entries say.   *)
LEMMA UpdatesFacts ==
    ASSUME NEW t \in TxsState, NEW D \in SUBSET Cookies, NEW fate
    PROVE  /\ StatusUpdates(t, D, fate) \in TxsState
           /\ Right(t, {}, fate) => Right(StatusUpdates(t, D, fate), D, fate)
<1> DEFINE F == CHOOSE f : f = Folds(f, t, D, fate)
           ok(s) == F[s] \in TxsState /\ (Right(t, {}, fate) => Right(F[s], s, fate))
           M == {n \in Nat : \A s \in UpTo(D, n) : ok(s)}
<1>1. IsFiniteSet(D) /\ StatusUpdates(t, D, fate) = F[D]
  BY Bounds, FS_Subset, UpdatesFold
<1>2. F = Folds(F, t, D, fate)
  BY <1>1, FoldExists
<1> HIDE DEF F
<1>3. F[{}] = t
  BY <1>2 DEF Folds
<1>4. ASSUME NEW s \in SUBSET D, s # {}
      PROVE  F[s] = StatusUpdate(F[s \ {Pick(s)}], Pick(s), fate[Pick(s)])
  BY <1>2, <1>4, Zenon DEF Folds
<1>5. ASSUME NEW s \in SUBSET D, s # {}, ok(s \ {Pick(s)})
      PROVE  ok(s)
  <2> DEFINE r == s \ {Pick(s)}
             c == Pick(s)
  <2>1. c \in s /\ c \notin r /\ r \cup {c} = s /\ c \in Cookies /\ r \in SUBSET Cookies
    BY <1>1, <1>5, Picked
  <2>2. F[s] = StatusUpdate(F[r], c, fate[c])
    BY <1>4, <1>5
  <2>3. ok(r)
    BY <1>5
  <2> HIDE DEF c, r
  <2> QED BY <2>1, <2>2, <2>3, UpdateType, UpdateRight
<1>6. \A s \in SUBSET D : IsFiniteSet(s) /\ Cardinality(s) \in Nat /\ (Cardinality(s) = 0 <=> s = {})
  BY <1>1, FS_Subset, FS_CardinalityType, FS_EmptySet
<1>7. ok({})
  BY <1>3
<1> HIDE DEF ok
<1>8. 0 \in M
  <2>1. \A s \in UpTo(D, 0) : s = {}
    BY <1>6 DEF UpTo
  <2> QED BY <1>7, <2>1
<1>9. ASSUME NEW n \in Nat, n \in M
      PROVE  n + 1 \in M
  <2>1. ASSUME NEW s \in UpTo(D, n + 1), s # {}
        PROVE  ok(s)
    <3>1. s \in SUBSET D /\ Cardinality(s) <= n + 1
      BY DEF UpTo
    <3>2. s \ {Pick(s)} \in SUBSET D /\ Cardinality(s) \in Nat
          /\ Cardinality(s \ {Pick(s)}) = Cardinality(s) - 1
      BY <1>1, <2>1, <3>1, Picked
    <3>3. s \ {Pick(s)} \in UpTo(D, n)
      BY <3>1, <3>2 DEF UpTo
    <3>4. ok(s \ {Pick(s)})
      BY <1>9, <3>3
    <3> QED BY <1>5, <2>1, <3>1, <3>4
  <2> QED BY <1>7, <2>1
<1> HIDE DEF M
<1>10. \A n \in Nat : n \in M
  BY <1>8, <1>9, SetInduction
<1>11. Cardinality(D) \in Nat /\ D \in UpTo(D, Cardinality(D))
  BY <1>1, FS_CardinalityType DEF UpTo
<1>12. ok(D)
  BY <1>10, <1>11 DEF M
<1> QED BY <1>1, <1>12 DEF ok
----------------------------------------------------------------------------
(* The messages on their way, U, with what became of the frames, fr: each  *)
(* place of their lists is about a frame of its own.                       *)
MsgInv(U, fr) ==
    /\ \A i \in DOMAIN U : Len(U[i].body) <= MaxTxStatus
    /\ \A i, j \in DOMAIN U : \A k \in DOMAIN U[i].body, l \in DOMAIN U[j].body :
         U[i].body[k].cookie = U[j].body[l].cookie => i = j /\ k = l
    /\ \A i \in DOMAIN U : \A k \in DOMAIN U[i].body :
         /\ fr[U[i].body[k].cookie] \in {"acked", "failed", "aggrfailed"}
         /\ fr[U[i].body[k].cookie] = "acked" => U[i].body[k].ack
         /\ fr[U[i].body[k].cookie] = "failed" => ~U[i].body[k].ack

(* No message is about a frame of X.                                       *)
Avoids(U, X) == \A i \in DOMAIN U : \A k \in DOMAIN U[i].body : U[i].body[k].cookie \notin X

(* A list that may follow: it is right by itself and about other frames.   *)
ListRight(b, fr) ==
    /\ Len(b) <= MaxTxStatus
    /\ \A k, l \in DOMAIN b : b[k].cookie = b[l].cookie => k = l
    /\ \A k \in DOMAIN b :
         /\ fr[b[k].cookie] \in {"acked", "failed", "aggrfailed"}
         /\ fr[b[k].cookie] = "acked" => b[k].ack
         /\ fr[b[k].cookie] = "failed" => ~b[k].ack

UnreadOf(w) == w.fifo \o w.msgs
HasReply(q) == \E i \in DOMAIN q : q[i].class = "reply"

(* The buffers: those of messages that wait are not free, there is at most *)
(* one reply, and while there is one the host waits for it.                *)
PoolOK(s, c) ==
    /\ s.wmi.assert = TRUE
    /\ \A i \in DOMAIN UnreadOf(s.wire) : UnreadOf(s.wire)[i].class = "reply" => c.st = "handled"
    /\ \A i, j \in DOMAIN UnreadOf(s.wire) :
         UnreadOf(s.wire)[i].class = "reply" /\ UnreadOf(s.wire)[j].class = "reply" => i = j
    /\ s.wmi.reply = IF HasReply(s.wire.msgs) THEN MaxCmdReply - 1 ELSE MaxCmdReply
    /\ s.wmi.reply + s.wmi.event + Len(s.wire.msgs) = MaxCmdReply + MaxEvents

SendState == [wmi : PoolState, wire : WireState]

IInv == TypeOK /\ PoolOK(Now, cmd) /\ MsgInv(UnreadOf(wire), frame)

(* The messages carry cookies.                                             *)
LEMMA CookiesIn ==
    ASSUME NEW U \in Seq(Messages)
    PROVE  \A i \in DOMAIN U : \A k \in DOMAIN U[i].body : U[i].body[k].cookie \in Cookies
<1> TAKE i \in DOMAIN U
<1>1. U[i] \in Messages
  OBVIOUS
<1> DEFINE m == U[i]
           b == m.body
<1>2. m \in Messages
  BY <1>1
<1> HIDE DEF m
<1>3. b \in Seq(Entry)
  BY <1>2 DEF Messages
<1> HIDE DEF b
<1>4. \A k \in DOMAIN b : b[k] \in Entry
  BY <1>3
<1>5. \A k \in DOMAIN b : b[k].cookie \in Cookies
  BY <1>4 DEF Entry
<1> QED BY <1>5 DEF b, m

(* A right event may follow the messages that are unread.                  *)
LEMMA AppendMsg ==
    ASSUME NEW U \in Seq(Messages), NEW fr, MsgInv(U, fr), NEW b \in Seq(Entry), NEW c,
           ListRight(b, fr), \A k \in DOMAIN b : Avoids(U, {b[k].cookie})
    PROVE  MsgInv(Append(U, [class |-> c, body |-> b]), fr)
<1> DEFINE n == Len(U)
           m == [class |-> c, body |-> b]
           V == Append(U, m)
<1>1. n \in Nat /\ DOMAIN U = 1..n
  OBVIOUS
<1>2. m.body = b
  OBVIOUS
<1> HIDE DEF m
<1>3. DOMAIN V = 1..(n + 1) /\ V[n + 1] = m /\ \A i \in 1..n : V[i] = U[i]
  OBVIOUS
<1> HIDE DEF V, n
<1>4. \A i \in DOMAIN V : \/ i = n + 1 /\ V[i].body = b
                          \/ i \in DOMAIN U /\ V[i] = U[i]
  <2>1. \A i \in 1..(n + 1) : i = n + 1 \/ i \in 1..n
    BY <1>1
  <2> QED BY <1>1, <1>2, <1>3, <2>1
<1>5. ASSUME NEW i \in DOMAIN V
      PROVE  Len(V[i].body) <= MaxTxStatus
  BY <1>4 DEF MsgInv, ListRight
<1>6. ASSUME NEW i \in DOMAIN V, NEW j \in DOMAIN V, NEW k \in DOMAIN V[i].body,
             NEW l \in DOMAIN V[j].body, V[i].body[k].cookie = V[j].body[l].cookie
      PROVE  i = j /\ k = l
  <2>1. CASE i = n + 1 /\ V[i].body = b /\ j = n + 1 /\ V[j].body = b
    BY <1>6, <2>1 DEF ListRight
  <2>2. CASE i \in DOMAIN U /\ V[i] = U[i] /\ j \in DOMAIN U /\ V[j] = U[j]
    BY <1>6, <2>2 DEF MsgInv
  <2>3. CASE V[i].body = b /\ j \in DOMAIN U /\ V[j] = U[j]
    BY <1>6, <2>3 DEF Avoids
  <2>4. CASE V[j].body = b /\ i \in DOMAIN U /\ V[i] = U[i]
    BY <1>6, <2>4 DEF Avoids
  <2> QED BY <1>4, <2>1, <2>2, <2>3, <2>4
<1>7. ASSUME NEW i \in DOMAIN V, NEW k \in DOMAIN V[i].body
      PROVE  /\ fr[V[i].body[k].cookie] \in {"acked", "failed", "aggrfailed"}
             /\ fr[V[i].body[k].cookie] = "acked" => V[i].body[k].ack
             /\ fr[V[i].body[k].cookie] = "failed" => ~V[i].body[k].ack
  <2>1. CASE V[i].body = b
    BY <2>1, Zenon DEF ListRight
  <2>2. CASE i \in DOMAIN U /\ V[i] = U[i]
    BY <2>2, Zenon DEF MsgInv
  <2> QED BY <1>4, <2>1, <2>2
<1>8. MsgInv(V, fr)
  BY <1>5, <1>6, <1>7, Zenon DEF MsgInv
<1> QED BY <1>8 DEF V, m

(* A message without certain cookies leaves the messages without them.     *)
LEMMA AppendAvoids ==
    ASSUME NEW U \in Seq(Messages), NEW X, Avoids(U, X), NEW b \in Seq(Entry), NEW c,
           \A k \in DOMAIN b : b[k].cookie \notin X
    PROVE  Avoids(Append(U, [class |-> c, body |-> b]), X)
<1> DEFINE n == Len(U)
           m == [class |-> c, body |-> b]
           V == Append(U, m)
<1>1. n \in Nat /\ DOMAIN U = 1..n /\ m.body = b
  OBVIOUS
<1> HIDE DEF m
<1>3. DOMAIN V = 1..(n + 1) /\ V[n + 1] = m /\ \A i \in 1..n : V[i] = U[i]
  OBVIOUS
<1> HIDE DEF V, n
<1>4. \A i \in 1..(n + 1) : i = n + 1 \/ i \in 1..n
  BY <1>1
<1>5. Avoids(V, X)
  BY <1>1, <1>3, <1>4 DEF Avoids
<1> QED BY <1>5 DEF V, m

(* A message joins the queue, with its buffer.                             *)
LEMMA SendFacts ==
    ASSUME NEW s \in SendState, Len(s.wire.fifo) <= 1, NEW p \in {"reply", "event"}, NEW b \in Seq(Entry),
           s.wmi[p] > 0
    PROVE  /\ Send(s, p, b) \in SendState
           /\ Send(s, p, b).wire.fifo = s.wire.fifo
           /\ Send(s, p, b).wire.msgs = Append(s.wire.msgs, [class |-> p, body |-> b])
           /\ UnreadOf(Send(s, p, b).wire) = Append(UnreadOf(s.wire), [class |-> p, body |-> b])
           /\ UnreadOf(s.wire) \in Seq(Messages)
           /\ Send(s, p, b).wmi = [s.wmi EXCEPT ![p] = @ - 1]
<1> DEFINE f == s.wire.fifo
           q == s.wire.msgs
           m == [class |-> p, body |-> b]
           v == Send(s, p, b)
           w == [s.wmi EXCEPT ![p] = @ - 1]
           x == [s.wire EXCEPT !.msgs = Append(@, m)]
<1>1. s.wmi \in PoolState /\ s.wire \in WireState /\ m \in Messages
  BY DEF SendState, Messages
<1>2. w \in PoolState
  BY <1>1 DEF PoolState
<1>3. f \in Seq(Messages) /\ q \in Seq(Messages)
  BY <1>1 DEF WireState
<1> HIDE DEF m
<1>4. x = [s.wire EXCEPT !.msgs = Append(q, m)]
  OBVIOUS
<1>5. Append(q, m) \in Seq(Messages) /\ f \o Append(q, m) = Append(f \o q, m) /\ f \o q \in Seq(Messages)
  <2> HIDE DEF f, q
  <2> QED BY <1>1, <1>3
<1> DEFINE y == Append(q, m)
<1> HIDE DEF y, q
<1>6. x = [s.wire EXCEPT !.msgs = y] /\ y \in Seq(Messages)
  BY <1>4, <1>5 DEF y
<1> HIDE DEF x
<1>7. x \in WireState /\ x.fifo = f /\ x.msgs = y
  BY <1>1, <1>6 DEF WireState
<1>8. v = [wmi |-> w, wire |-> x]
  BY Zenon DEF Send, m, x
<1> HIDE DEF v, w
<1>9. v \in SendState /\ v.wmi = w /\ v.wire = x
  BY <1>2, <1>7, <1>8 DEF SendState
<1>10. UnreadOf(v.wire) = f \o y /\ UnreadOf(s.wire) = f \o q
  BY <1>7, <1>9 DEF UnreadOf, q
<1>11. UnreadOf(v.wire) = Append(UnreadOf(s.wire), m) /\ UnreadOf(s.wire) \in Seq(Messages)
  BY <1>5, <1>10 DEF y
<1>12. v.wire.fifo = f /\ v.wire.msgs = Append(q, m)
  BY <1>7, <1>9 DEF y
<1> QED BY <1>9, <1>11, <1>12 DEF v, w, q, m

(* A reply is in a queue that grew if it was there or is the new message.  *)
LEMMA HasReplyAppend ==
    ASSUME NEW q \in Seq(Messages), NEW m \in Messages
    PROVE  HasReply(Append(q, m)) <=> HasReply(q) \/ m.class = "reply"
<1>1. Len(q) \in Nat /\ DOMAIN q = 1..Len(q) /\ DOMAIN Append(q, m) = 1..(Len(q) + 1)
      /\ Append(q, m)[Len(q) + 1] = m /\ \A i \in 1..Len(q) : Append(q, m)[i] = q[i]
  OBVIOUS
<1> DEFINE n == Len(q)
           V == Append(q, m)
<1> HIDE DEF n, V
<1>2. n \in Nat /\ DOMAIN q = 1..n /\ DOMAIN V = 1..(n + 1) /\ V[n + 1] = m
      /\ \A i \in 1..n : V[i] = q[i] /\ i \in 1..(n + 1)
  <2>1. n \in Nat
    BY <1>1 DEF n
  <2>2. \A i \in 1..n : i \in 1..(n + 1)
    BY <2>1
  <2> QED BY <1>1, <2>1, <2>2 DEF n, V
<1>3. \A i \in 1..(n + 1) : i = n + 1 \/ i \in 1..n
  BY <1>2
<1>4. n + 1 \in 1..(n + 1)
  BY <1>2
<1>5. HasReply(V) <=> HasReply(q) \/ m.class = "reply"
  BY <1>2, <1>3, <1>4 DEF HasReply
<1> QED BY <1>5 DEF V

(* wmi_event keeps the pools in order, whether or not there is a buffer.   *)
LEMMA SendPool ==
    ASSUME NEW s \in SendState, Len(s.wire.fifo) <= 1, NEW c, PoolOK(s, c), NEW b \in Seq(Entry),
           NEW p \in {"reply", "event"}, s.wmi[p] > 0, NEW d,
           p = "event" => d.st = c.st,
           p = "reply" => d.st = "handled" /\ c.st # "handled"
    PROVE  PoolOK(Send(s, p, b), d)
<1> DEFINE v == Send(s, p, b)
           m == [class |-> p, body |-> b]
           U == UnreadOf(s.wire)
           n == Len(U)
           q == s.wire.msgs
           w == s.wmi
<1>1. /\ v \in SendState /\ v.wire.msgs = Append(q, m)
      /\ UnreadOf(v.wire) = Append(U, m) /\ U \in Seq(Messages)
      /\ v.wmi = [w EXCEPT ![p] = @ - 1]
  BY SendFacts, ZenonT(60)
<1>2. m \in Messages /\ m.class = p /\ q \in Seq(Messages) /\ w \in PoolState
  BY DEF Messages, SendState, WireState
<1>3. /\ w.assert = TRUE
      /\ \A i \in DOMAIN U : U[i].class = "reply" => c.st = "handled"
      /\ \A i, j \in DOMAIN U : U[i].class = "reply" /\ U[j].class = "reply" => i = j
      /\ w.reply = IF HasReply(q) THEN MaxCmdReply - 1 ELSE MaxCmdReply
      /\ w.reply + w.event + Len(q) = MaxCmdReply + MaxEvents
  BY DEF PoolOK
<1>4. Len(q) \in Nat /\ Len(v.wire.msgs) = Len(q) + 1
      /\ (HasReply(v.wire.msgs) <=> HasReply(q) \/ p = "reply")
  <2> HIDE DEF m, q
  <2>1. Len(q) \in Nat /\ Len(Append(q, m)) = Len(q) + 1
    BY <1>2
  <2>2. HasReply(Append(q, m)) <=> HasReply(q) \/ m.class = "reply"
    BY <1>2, HasReplyAppend
  <2> QED BY <1>1, <1>2, <2>1, <2>2
<1>5. n \in Nat /\ DOMAIN U = 1..n /\ DOMAIN Append(U, m) = 1..(n + 1)
      /\ Append(U, m)[n + 1] = m /\ \A i \in 1..n : Append(U, m)[i] = U[i]
  <2> HIDE DEF U, m
  <2> QED BY <1>1, <1>2
<1> DEFINE V == Append(U, m)
<1> HIDE DEF U, m, V, n, q, v, w
<1>6. \A i \in DOMAIN V : (i = n + 1 /\ V[i] = m) \/ (i \in DOMAIN U /\ V[i] = U[i])
  <2>1. \A i \in 1..(n + 1) : i = n + 1 \/ i \in 1..n
    BY <1>5
  <2>2. DOMAIN U = 1..n /\ DOMAIN V = 1..(n + 1) /\ V[n + 1] = m /\ \A i \in 1..n : V[i] = U[i]
    BY <1>5, Zenon DEF V
  <2> QED BY <2>1, <2>2
<1>7. p = "event" => (HasReply(v.wire.msgs) <=> HasReply(q))
  BY <1>4
<1>8. p = "reply" => ~HasReply(q) /\ \A i \in DOMAIN U : U[i].class # "reply"
  <2>1. p = "reply" => \A i \in DOMAIN U : U[i].class # "reply"
    BY <1>3
  <2>2. ASSUME HasReply(q) PROVE \E i \in DOMAIN U : U[i].class = "reply"
    <3> DEFINE f == s.wire.fifo
    <3>1. PICK j \in DOMAIN q : q[j].class = "reply"
      BY <2>2 DEF HasReply
    <3>2. f \in Seq(Messages) /\ U = f \o q
      BY DEF SendState, WireState, UnreadOf, U, q
    <3> HIDE DEF f
    <3>3. j + Len(f) \in DOMAIN U /\ U[j + Len(f)] = q[j]
      BY <1>2, <3>1, <3>2
    <3> QED BY <3>1, <3>3
  <2> QED BY <2>1, <2>2
<1>9. /\ \A i \in DOMAIN V : V[i].class = "reply" => d.st = "handled"
      /\ \A i, j \in DOMAIN V : V[i].class = "reply" /\ V[j].class = "reply" => i = j
  <2>1. CASE p = "event"
    BY <1>2, <1>3, <1>6, <2>1
  <2>2. CASE p = "reply"
    BY <1>2, <1>3, <1>6, <1>8, <2>2
  <2> QED BY <2>1, <2>2
<1>10. /\ v.wmi.assert = TRUE
       /\ v.wmi.reply = IF HasReply(v.wire.msgs) THEN MaxCmdReply - 1 ELSE MaxCmdReply
       /\ v.wmi.reply + v.wmi.event + Len(v.wire.msgs) = MaxCmdReply + MaxEvents
  <2>0. w.reply \in Nat /\ w.event \in Nat /\ v.wmi \in PoolState
    BY <1>1, <1>2 DEF PoolState, SendState
  <2> DEFINE a == v.wmi.reply
             e == v.wmi.event
             l == Len(q)
             g == w.reply
             h == w.event
  <2>1. CASE p = "event"
    <3>1. a = g /\ e = h - 1
      BY <1>1, <1>2, <2>1 DEF PoolState
    <3>2. v.wmi.assert = w.assert
      BY <1>1, <1>2, <2>1 DEF PoolState
    <3> HIDE DEF a, e, l, g, h
    <3>3. l \in Nat /\ g \in Nat /\ h \in Nat /\ g + h + l = MaxCmdReply + MaxEvents
      BY <1>3, <1>4, <2>0 DEF l, g, h
    <3>4. g + (h - 1) + (l + 1) = MaxCmdReply + MaxEvents
      BY <3>3, Bounds
    <3> QED BY <1>3, <1>4, <1>7, <2>1, <3>1, <3>2, <3>4 DEF a, e, l, g
  <2>2. CASE p = "reply"
    <3>1. a = g - 1 /\ e = h
      BY <1>1, <1>2, <2>2 DEF PoolState
    <3>2. v.wmi.assert = w.assert
      BY <1>1, <1>2, <2>2 DEF PoolState
    <3>3. HasReply(v.wire.msgs) /\ g = MaxCmdReply
      BY <1>3, <1>4, <1>8, <2>2
    <3> HIDE DEF a, e, l, g, h
    <3>4. l \in Nat /\ g \in Nat /\ h \in Nat /\ g + h + l = MaxCmdReply + MaxEvents
      BY <1>3, <1>4, <2>0 DEF l, g, h
    <3>5. (g - 1) + h + (l + 1) = MaxCmdReply + MaxEvents
      BY <3>4, Bounds
    <3> QED BY <1>3, <1>4, <2>2, <3>1, <3>2, <3>3, <3>5 DEF a, e, l
  <2> QED BY <2>1, <2>2
<1>11. UnreadOf(v.wire) = V
  BY <1>1 DEF V
<1>12. PoolOK(v, d)
  BY <1>9, <1>10, <1>11 DEF PoolOK
<1> QED BY <1>12 DEF v

(* Everything about a state of the pools and the wire while it is sent.    *)
Fine(s, c, fr) ==
    /\ s \in SendState /\ Len(s.wire.fifo) <= 1
    /\ PoolOK(s, c) /\ MsgInv(UnreadOf(s.wire), fr)

(* wmi_event sends an event with right entries or drops it, and the state  *)
(* is right in both cases.                                                 *)
LEMMA EventKeeps ==
    ASSUME NEW s, NEW c, NEW fr, Fine(s, c, fr), NEW b \in Seq(Entry), ListRight(b, fr),
           \A k \in DOMAIN b : Avoids(UnreadOf(s.wire), {b[k].cookie})
    PROVE  /\ Fine(Event(s, b), c, fr)
           /\ \A X : Avoids(UnreadOf(s.wire), X) /\ (\A k \in DOMAIN b : b[k].cookie \notin X)
                     => Avoids(UnreadOf(Event(s, b).wire), X)
<1>0. s \in SendState /\ Len(s.wire.fifo) <= 1 /\ PoolOK(s, c) /\ MsgInv(UnreadOf(s.wire), fr)
  BY DEF Fine
<1>1. CASE s.wmi.event = 0
  BY <1>1 DEF Event
<1>2. CASE s.wmi.event # 0
  <2> DEFINE v == Send(s, "event", b)
             m == [class |-> "event", body |-> b]
  <2>1. Event(s, b) = v
    BY <1>2 DEF Event
  <2>2. s.wmi["event"] > 0
    BY <1>0, <1>2 DEF SendState, PoolState
  <2>3. /\ v \in SendState /\ v.wire.fifo = s.wire.fifo
        /\ UnreadOf(v.wire) = Append(UnreadOf(s.wire), m) /\ UnreadOf(s.wire) \in Seq(Messages)
    BY <1>0, <2>2, SendFacts
  <2>4. PoolOK(v, c)
    BY <1>0, <2>2, SendPool
  <2>5. MsgInv(Append(UnreadOf(s.wire), m), fr)
    BY <1>0, <2>3, AppendMsg
  <2>6. \A X : Avoids(UnreadOf(s.wire), X) /\ (\A k \in DOMAIN b : b[k].cookie \notin X)
              => Avoids(Append(UnreadOf(s.wire), m), X)
    BY <2>3, AppendAvoids
  <2> HIDE DEF v, m
  <2> QED BY <1>0, <2>1, <2>3, <2>4, <2>5, <2>6 DEF Fine
<1> QED BY <1>1, <1>2

(* An alert has no list.                                                   *)
LEMMA AlertKeeps ==
    ASSUME NEW s, NEW c, NEW fr, Fine(s, c, fr)
    PROVE  /\ Fine(Event(s, Alert), c, fr)
           /\ \A X : Avoids(UnreadOf(s.wire), X) => Avoids(UnreadOf(Event(s, Alert).wire), X)
<1>1. Alert \in Seq(Entry) /\ DOMAIN Alert = {} /\ Len(Alert) = 0
  BY DEF Alert
<1>2. ListRight(Alert, fr)
  BY <1>1, Bounds DEF ListRight
<1> HIDE DEF Alert
<1> QED BY <1>1, <1>2, EventKeeps
----------------------------------------------------------------------------
(* The actions.                                                            *)

(* Cleared tables are empty, and right.                                    *)
LEMMA ClearFacts ==
    ASSUME NEW t \in TxsState
    PROVE  /\ StatusClear(t) \in TxsState
           /\ \A e \in 1..2 : StatusClear(t)[e].list = << >>
           /\ \A fate : Right(StatusClear(t), {}, fate)
<1> DEFINE z == << >>
           c == [e \in 1..2 |-> [t[e] EXCEPT !.list = z]]
<1>1. z \in Seq(Entry) /\ DOMAIN z = {} /\ Len(z) = 0
  OBVIOUS
<1>2. StatusClear(t) = c
  BY DEF StatusClear
<1>3. z = << >>
  OBVIOUS
<1> HIDE DEF z
<1>4. \A e \in 1..2 : [t[e] EXCEPT !.list = z] \in StatusState /\ [t[e] EXCEPT !.list = z].list = z
  BY <1>1 DEF TxsState, StatusState
<1>5. c \in TxsState /\ \A e \in 1..2 : c[e].list = z
  BY <1>4 DEF TxsState
<1> HIDE DEF c
<1>6. \A fate : Right(c, {}, fate)
  BY <1>1, <1>5, Bounds DEF Right
<1> QED BY <1>2, <1>3, <1>5, <1>6

(* Messages stay right when the frames they are about stay as they were.   *)
LEMMA MsgSame ==
    ASSUME NEW U, NEW fr, NEW g, MsgInv(U, fr),
           \A i \in DOMAIN U : \A k \in DOMAIN U[i].body : g[U[i].body[k].cookie] = fr[U[i].body[k].cookie]
    PROVE  MsgInv(U, g)
BY SMT DEF MsgInv

(* The cookies of the unread events are reported ones.                     *)
LEMMA ReportedFacts ==
    ASSUME NEW i \in DOMAIN Unread, NEW k \in DOMAIN Unread[i].body
    PROVE  Unread[i].body[k].cookie \in Reported
<1>1. Unread[i] \in ToSet(Unread) /\ Unread[i].body[k] \in ToSet(Unread[i].body)
  BY DEF ToSet
<1>2. Unread[i].body[k] \in Entries
  BY <1>1 DEF Entries
<1> QED BY <1>2 DEF Reported

(* The invariant, for the state as a value.                                *)
LEMMA NowFine == IInv => Fine(Now, cmd, frame)
<1> SUFFICES ASSUME IInv PROVE Fine(Now, cmd, frame)
  OBVIOUS
<1>1. Now \in SendState /\ Now.wire = wire /\ Now.wmi = wmi
  BY DEF IInv, TypeOK, Now, SendState
<1>2. Len(wire.fifo) <= 1
  BY DEF IInv, TypeOK
<1> HIDE DEF Now
<1> QED BY <1>1, <1>2 DEF Fine, IInv

(* What remains to be shown of a step that sends s.                        *)
LEMMA SentFine ==
    ASSUME NEW s, Sent(s), Fine(s, cmd', frame'), intr' \in BOOLEAN, txs' \in TxsState,
           frame' \in [Cookies -> {"free"} \cup Fates],
           cmd' \in CmdStates
    PROVE  IInv'
<1>1. wmi' = s.wmi /\ wire' = s.wire /\ s \in SendState /\ Len(s.wire.fifo) <= 1
      /\ PoolOK(s, cmd') /\ MsgInv(UnreadOf(s.wire), frame')
  BY DEF Sent, Fine
<1>2. TypeOK'
  BY <1>1 DEF TypeOK, SendState
<1>3. PoolOK(Now, cmd)'
  <2>1. Now'.wmi = s.wmi /\ Now'.wire = s.wire
    BY <1>1 DEF Now
  <2> HIDE DEF Now
  <2> QED BY <1>1, <2>1 DEF PoolOK
<1> QED BY <1>1, <1>2, <1>3 DEF IInv

(* A fatal interrupt sends an event of its own.                            *)
LEMMA FatalKeeps ==
    ASSUME IInv, FatalInterrupt
    PROVE  IInv'
<1>1. Sent(Event(Now, Alert)) /\ intr' = FALSE /\ UNCHANGED <<txs, frame, cmd>>
  BY DEF FatalInterrupt
<1>2. Fine(Event(Now, Alert), cmd, frame)
  BY NowFine, AlertKeeps
<1> QED BY <1>1, <1>2, SentFine DEF IInv, TypeOK

(* ath_tx_status_send after the completions of an interrupt.               *)
LEMMA StatusSendKeeps ==
    ASSUME NEW s, NEW c, NEW g, Fine(s, c, g), NEW t \in TxsState, NEW D \in SUBSET Cookies,
           NEW fate, Right(t, D, fate), Avoids(UnreadOf(s.wire), D),
           \A x \in D : g[x] = fate[x] /\ g[x] \in {"acked", "failed", "aggrfailed"}
    PROVE  Fine(StatusSend(s, t), c, g)
<1>1. \A e \in 1..2 : /\ t[e].list \in Seq(Entry) /\ ListRight(t[e].list, g)
                       /\ \A k \in DOMAIN t[e].list : t[e].list[k].cookie \in D
  <2>1. \A e \in 1..2 : t[e].list \in Seq(Entry)
    BY DEF TxsState, StatusState
  <2>2. ASSUME NEW e \in 1..2
        PROVE  /\ ListRight(t[e].list, g)
               /\ \A k \in DOMAIN t[e].list : t[e].list[k].cookie \in D
    <3>1. /\ Len(t[e].list) <= MaxTxStatus
          /\ \A k \in DOMAIN t[e].list : TellsOf(t[e].list[k], D, fate)
          /\ \A k, l \in DOMAIN t[e].list : t[e].list[k].cookie = t[e].list[l].cookie => k = l
      BY DEF Right
    <3>2. \A k \in DOMAIN t[e].list :
            /\ t[e].list[k].cookie \in D
            /\ g[t[e].list[k].cookie] \in {"acked", "failed", "aggrfailed"}
            /\ g[t[e].list[k].cookie] = "acked" => t[e].list[k].ack
            /\ g[t[e].list[k].cookie] = "failed" => ~t[e].list[k].ack
      BY <3>1, Zenon DEF TellsOf
    <3> QED BY <3>1, <3>2, Zenon DEF ListRight
  <2> QED BY <2>1, <2>2
<1>2. \A k \in DOMAIN t[1].list, l \in DOMAIN t[2].list : t[1].list[k].cookie # t[2].list[l].cookie
  <2>1. 1 \in 1..2 /\ 2 \in 1..2 /\ 1 # 2
    OBVIOUS
  <2> QED BY <2>1, Zenon DEF Right
<1> DEFINE a == t[1].list
           b == t[2].list
           u == IF a = << >> THEN s ELSE Event(s, a)
           v == IF b = << >> THEN u ELSE Event(u, b)
<1>3. StatusSend(s, t) = v
  BY DEF StatusSend
<1>4. a \in Seq(Entry) /\ ListRight(a, g) /\ (\A k \in DOMAIN a : a[k].cookie \in D)
      /\ b \in Seq(Entry) /\ ListRight(b, g) /\ (\A k \in DOMAIN b : b[k].cookie \in D)
      /\ \A k \in DOMAIN a, l \in DOMAIN b : a[k].cookie # b[l].cookie
  BY <1>1, <1>2
<1> HIDE DEF a, b
<1>5. \A x \in D : Avoids(UnreadOf(s.wire), {x})
  BY DEF Avoids
<1>6. Fine(u, c, g) /\ \A l \in DOMAIN b : Avoids(UnreadOf(u.wire), {b[l].cookie})
  <2>1. CASE a = << >>
    BY <1>4, <1>5, <2>1
  <2>2. CASE a # << >>
    <3>1. u = Event(s, a)
      BY <2>2
    <3>2. \A k \in DOMAIN a : Avoids(UnreadOf(s.wire), {a[k].cookie})
      BY <1>4, <1>5
    <3>3. /\ Fine(Event(s, a), c, g)
          /\ \A X : Avoids(UnreadOf(s.wire), X) /\ (\A k \in DOMAIN a : a[k].cookie \notin X)
                    => Avoids(UnreadOf(Event(s, a).wire), X)
      BY <1>4, <3>2, EventKeeps
    <3>4. \A l \in DOMAIN b : Avoids(UnreadOf(s.wire), {b[l].cookie})
                              /\ \A k \in DOMAIN a : a[k].cookie \notin {b[l].cookie}
      BY <1>4, <1>5
    <3> QED BY <3>1, <3>3, <3>4
  <2> QED BY <2>1, <2>2
<1> HIDE DEF u
<1>7. Fine(v, c, g)
  <2>1. CASE b = << >>
    BY <1>6, <2>1
  <2>2. CASE b # << >>
    <3>1. v = Event(u, b)
      BY <2>2
    <3>2. Fine(Event(u, b), c, g)
      BY <1>4, <1>6, EventKeeps
    <3> QED BY <3>1, <3>2
  <2> QED BY <2>1, <2>2
<1> QED BY <1>3, <1>7

(* ath_intr and its tasklets: entries of drained frames are discarded, an  *)
(* entry that is sent is about a frame that was queued.                    *)
LEMMA InterruptKeeps ==
    ASSUME IInv, NEW swba \in BOOLEAN, NEW bmiss \in BOOLEAN, NEW fate \in [Queued -> Fates],
           Interrupt(swba, bmiss, fate)
    PROVE  IInv'
<1> DEFINE Drained == {c \in DOMAIN fate : fate[c] \in {"drained"}}
           Done == {c \in DOMAIN fate : fate[c] \in {"acked", "failed", "aggrfailed"}}
           s0 == IF swba THEN Event(Now, Alert) ELSE Now
           s1 == IF bmiss THEN Event(s0, Alert) ELSE s0
           t0 == StatusDrain(txs, Drained)
           t1 == StatusUpdates(StatusClear(t0), Done, fate)
           g == [c \in Cookies |-> IF c \in Queued THEN fate[c] ELSE frame[c]]
           U == UnreadOf(wire)
<1>1. /\ Sent(StatusSend(s1, t1)) /\ txs' = StatusClear(t1) /\ frame' = Outcome(fate)
      /\ intr' = intr /\ cmd' = cmd
  BY Zenon DEF Interrupt
<1>2. Queued \subseteq Cookies /\ DOMAIN fate = Queued /\ Drained \in SUBSET Cookies /\ Done \in SUBSET Cookies
  BY DEF Queued
<1>3. Fine(Now, cmd, frame) /\ txs \in TxsState /\ UnreadOf(Now.wire) = U
      /\ frame \in [Cookies -> {"free"} \cup Fates] /\ MsgInv(U, frame)
  BY NowFine DEF IInv, TypeOK, Now
<1>4. t0 \in TxsState /\ StatusClear(t0) \in TxsState /\ t1 \in TxsState /\ Right(t1, Done, fate)
      /\ StatusClear(t1) \in TxsState
  <2>1. t0 \in TxsState
    BY <1>2, <1>3, UpdatesFacts DEF StatusDrain
  <2>2. StatusClear(t0) \in TxsState /\ Right(StatusClear(t0), {}, fate)
    BY <2>1, ClearFacts
  <2>3. t1 \in TxsState /\ Right(t1, Done, fate)
    BY <1>2, <2>2, UpdatesFacts
  <2> QED BY <2>1, <2>2, <2>3, ClearFacts
<1> HIDE DEF t1, t0
<1>5. \A i \in DOMAIN U : \A k \in DOMAIN U[i].body : U[i].body[k].cookie \notin Queued
                                                   /\ U[i].body[k].cookie \in Cookies
  <2>1. U \in Seq(Messages)
    <3>1. wire.fifo \in Seq(Messages) /\ wire.msgs \in Seq(Messages)
      BY DEF IInv, TypeOK, WireState
    <3> QED BY <3>1 DEF UnreadOf
  <2> HIDE DEF U
  <2>3. \A i \in DOMAIN U : \A k \in DOMAIN U[i].body : U[i].body[k].cookie \in Cookies
    BY <2>1, CookiesIn
  <2>4. \A i \in DOMAIN U : \A k \in DOMAIN U[i].body : frame[U[i].body[k].cookie] # "queued"
    BY <1>3 DEF MsgInv
  <2> QED BY <2>3, <2>4 DEF Queued
<1>6. Avoids(U, Done)
  BY <1>2, <1>5 DEF Avoids
<1>7. MsgInv(U, g)
  <2>1. \A i \in DOMAIN U : \A k \in DOMAIN U[i].body : g[U[i].body[k].cookie] = frame[U[i].body[k].cookie]
    BY <1>5
  <2> HIDE DEF U, g
  <2> QED BY <1>3, <2>1, MsgSame
<1>8. \A x \in Done : g[x] = fate[x] /\ g[x] \in {"acked", "failed", "aggrfailed"}
  BY <1>2
<1> HIDE DEF g, Done, U
<1>9. Fine(Now, cmd, g)
  BY <1>3, <1>7 DEF Fine
<1>10. Fine(s0, cmd, g) /\ Avoids(UnreadOf(s0.wire), Done)
  BY <1>3, <1>6, <1>9, AlertKeeps
<1> HIDE DEF s0
<1>11. Fine(s1, cmd, g) /\ Avoids(UnreadOf(s1.wire), Done)
  BY <1>10, AlertKeeps
<1> HIDE DEF s1
<1> DEFINE v == StatusSend(s1, t1)
<1>12. Fine(v, cmd, g)
  BY <1>2, <1>4, <1>8, <1>11, StatusSendKeeps
<1>13. frame' \in [Cookies -> {"free"} \cup Fates]
  <2>1. ASSUME NEW c \in Cookies
        PROVE  frame'[c] \in {"free"} \cup Fates
    <3>1. c \in DOMAIN fate => fate[c] \in Fates
      BY <1>2
    <3> QED BY <1>1, <1>3, <3>1 DEF Outcome
  <2>2. frame' = [c \in Cookies |-> frame'[c]]
    BY <1>1 DEF Outcome
  <2> QED BY <2>1, <2>2
<1>14. Unread' = UnreadOf(v.wire)
  BY <1>1 DEF Unread, UnreadOf, Sent
<1> HIDE DEF v
<1>15. MsgInv(UnreadOf(v.wire), frame')
  <2> DEFINE V == UnreadOf(v.wire)
  <2>1. MsgInv(V, g) /\ V \in Seq(Messages)
    <3>1. v.wire \in WireState /\ MsgInv(V, g)
      BY <1>12 DEF Fine, SendState
    <3>2. v.wire.fifo \in Seq(Messages) /\ v.wire.msgs \in Seq(Messages)
      BY <3>1 DEF WireState
    <3> QED BY <3>1, <3>2 DEF UnreadOf
  <2>2. V = Unread'
    BY <1>14
  <2> HIDE DEF V
  <2>3. \A i \in DOMAIN V : \A k \in DOMAIN V[i].body :
          V[i].body[k].cookie \in Reported' /\ V[i].body[k].cookie \in Cookies
    <3>1. ASSUME NEW i \in DOMAIN V, NEW k \in DOMAIN V[i].body
          PROVE  V[i].body[k].cookie \in Reported'
      <4>1. V[i] \in ToSet(V) /\ V[i].body[k] \in ToSet(V[i].body)
        BY DEF ToSet
      <4>2. V[i].body[k] \in Entries'
        BY <2>2, <4>1 DEF Entries
      <4> QED BY <4>2 DEF Reported
    <3>2. \A i \in DOMAIN V : \A k \in DOMAIN V[i].body : V[i].body[k].cookie \in Cookies
      BY <2>1, CookiesIn
    <3> QED BY <3>1, <3>2
  <2>4. \A c \in Cookies : c \in Reported' => frame'[c] = g[c]
    BY <1>1, <1>2 DEF Outcome, g
  <2>5. \A i \in DOMAIN V : \A k \in DOMAIN V[i].body : frame'[V[i].body[k].cookie] = g[V[i].body[k].cookie]
    BY <2>3, <2>4
  <2>6. MsgInv(V, frame')
    BY <2>1, <2>5, MsgSame
  <2> QED BY <2>6 DEF V
<1>16. Fine(v, cmd', frame')
  BY <1>1, <1>12, <1>15 DEF Fine
<1> QED BY <1>1, <1>4, <1>13, <1>16, SentFine DEF IInv, TypeOK, v

(* A frame that is freed has no entry on the way.                          *)
LEMMA FreedKeeps ==
    ASSUME IInv, NEW D \in SUBSET Queued
    PROVE  /\ MsgInv(UnreadOf(wire), [c \in Cookies |-> IF c \in D THEN "free" ELSE frame[c]])
           /\ [c \in Cookies |-> IF c \in D THEN "free" ELSE frame[c]] \in [Cookies -> {"free"} \cup Fates]
<1> DEFINE U == UnreadOf(wire)
           g == [c \in Cookies |-> IF c \in D THEN "free" ELSE frame[c]]
<1>1. U \in Seq(Messages) /\ MsgInv(U, frame) /\ frame \in [Cookies -> {"free"} \cup Fates]
  <2>1. wire.fifo \in Seq(Messages) /\ wire.msgs \in Seq(Messages)
    BY DEF IInv, TypeOK, WireState
  <2> QED BY <2>1 DEF UnreadOf, IInv, TypeOK
<1> HIDE DEF U
<1>3. \A i \in DOMAIN U : \A k \in DOMAIN U[i].body : U[i].body[k].cookie \in Cookies
  BY <1>1, CookiesIn
<1>4. \A i \in DOMAIN U : \A k \in DOMAIN U[i].body : frame[U[i].body[k].cookie] # "queued"
  BY <1>1 DEF MsgInv
<1>5. \A i \in DOMAIN U : \A k \in DOMAIN U[i].body : g[U[i].body[k].cookie] = frame[U[i].body[k].cookie]
  BY <1>3, <1>4 DEF Queued
<1>6. g \in [Cookies -> {"free"} \cup Fates]
  BY <1>1
<1> HIDE DEF g
<1>7. MsgInv(U, g)
  BY <1>1, <1>5, MsgSame
<1> QED BY <1>6, <1>7 DEF g, U

(* WMIRecvMessageHandler finds a buffer for the reply.                     *)
LEMMA RecvKeeps ==
    ASSUME IInv, RecvCommand
    PROVE  IInv'
<1>1. PICK D \in MayDrain(cmd.op) :
        /\ txs' = TxsAfter(cmd.op, D)
        /\ frame' = [c \in Cookies |-> IF c \in D THEN "free" ELSE frame[c]]
  BY DEF RecvCommand
<1>2. /\ cmd.st = "sent" /\ intr' = IntrAfter(cmd.op)
      /\ Sent(IF cmd.op \in Replying THEN CmdRsp(Now) ELSE Now)
      /\ cmd.op \in Ops
  <2>1. cmd.st = "sent" /\ cmd \in CmdStates
    BY DEF RecvCommand, IInv, TypeOK
  <2>2. cmd.op \in Ops
    BY <2>1 DEF CmdStates
  <2> QED BY <2>2 DEF RecvCommand
<1>3. Fine(Now, cmd, frame) /\ txs \in TxsState /\ intr \in BOOLEAN /\ Now.wire = wire
  BY NowFine DEF IInv, TypeOK, Now
<1>4. D \in SUBSET Queued
  BY <1>1 DEF MayDrain
<1>5. MsgInv(UnreadOf(wire), frame') /\ frame' \in [Cookies -> {"free"} \cup Fates]
  BY <1>1, <1>4, FreedKeeps
<1>6. txs' \in TxsState
  <2>1. D \in SUBSET Cookies
    BY <1>4 DEF Queued
  <2>2. StatusClear(txs) \in TxsState /\ StatusDrain(txs, D) \in TxsState
    BY <1>3, <2>1, ClearFacts, UpdatesFacts DEF StatusDrain
  <2> QED BY <1>1, <2>2 DEF TxsAfter
<1>7. intr' \in BOOLEAN
  BY <1>2, <1>3 DEF IntrAfter
<1>8. Fine(Now, cmd, frame')
  BY <1>3, <1>5 DEF Fine
<1>9. CASE cmd.op \notin Replying
  <2>1. cmd.op \in {"memory", "unknown"}
    BY <1>2, <1>9 DEF Replying
  <2>2. PICK st \in {"dropped", "halted"} : cmd' = [st |-> st, op |-> "none"]
    BY <2>1 DEF RecvCommand, StatesAfter, NoCommand, Replying
  <2>3. Sent(Now) /\ cmd' \in CmdStates /\ cmd'.st # "handled"
    BY <1>2, <1>9, <2>2 DEF CmdStates
  <2>4. Fine(Now, cmd', frame')
    <3>1. PoolOK(Now, cmd')
      BY <1>2, <1>8 DEF Fine, PoolOK
    <3> QED BY <1>8, <3>1 DEF Fine
  <2> QED BY <1>5, <1>6, <1>7, <2>3, <2>4, SentFine
<1>10. CASE cmd.op \in Replying
  <2> DEFINE v == Send(Now, "reply", << >>)
             z == << >>
             m == [class |-> "reply", body |-> z]
             U == UnreadOf(Now.wire)
  <2>1. /\ cmd' = [st |-> "handled", op |-> "none"] /\ Sent(CmdRsp(Now)) /\ cmd'.st = "handled"
        /\ cmd' \in CmdStates
    <3>1. cmd.op # "unknown" /\ cmd.op # "memory"
      BY <1>10 DEF Replying
    <3>2. StatesAfter(cmd.op) = {"handled"}
      BY <1>10, <3>1 DEF StatesAfter
    <3>3. cmd' = [st |-> "handled", op |-> "none"]
      BY <3>2 DEF RecvCommand, NoCommand
    <3> QED BY <1>2, <1>10, <3>3 DEF CmdStates
  <2>2. Now \in SendState /\ Len(Now.wire.fifo) <= 1 /\ PoolOK(Now, cmd)
    BY <1>3 DEF Fine
  <2>3. Now.wmi.reply = MaxCmdReply
    <3>1. Now.wmi.reply = IF HasReply(Now.wire.msgs) THEN MaxCmdReply - 1 ELSE MaxCmdReply
      BY <2>2 DEF PoolOK
    <3>2. \A i \in DOMAIN U : U[i].class # "reply"
      BY <1>2, <2>2 DEF PoolOK
    <3>3. ~HasReply(Now.wire.msgs)
      <4> DEFINE f == Now.wire.fifo
                 q == Now.wire.msgs
      <4>1. f \in Seq(Messages) /\ q \in Seq(Messages) /\ U = f \o q
        BY <2>2 DEF SendState, WireState, UnreadOf
      <4> HIDE DEF f, q, U
      <4>2. \A j \in DOMAIN q : j + Len(f) \in DOMAIN U /\ U[j + Len(f)] = q[j]
        BY <4>1
      <4>3. ~HasReply(q)
        BY <3>2, <4>2 DEF HasReply
      <4> QED BY <4>3 DEF q
    <3> QED BY <3>1, <3>3
  <2>4. Now.wmi["reply"] > 0 /\ CmdRsp(Now) = v
    <3>1. Now.wmi.reply # 0 /\ Now.wmi.reply > 0
      BY <2>3, Bounds
    <3>2. Now.wmi \in PoolState
      BY <2>2 DEF SendState
    <3>3. Now.wmi["reply"] > 0
      BY <3>1, <3>2 DEF PoolState
    <3> QED BY <3>1, <3>3 DEF CmdRsp
  <2>5. z \in Seq(Entry) /\ DOMAIN z = {} /\ Len(z) = 0
    OBVIOUS
  <2>6. /\ v \in SendState /\ v.wire.fifo = Now.wire.fifo
        /\ UnreadOf(v.wire) = Append(U, m) /\ U \in Seq(Messages)
    BY <2>2, <2>4, <2>5, SendFacts
  <2>7. PoolOK(v, cmd')
    BY <1>2, <2>1, <2>2, <2>4, <2>5, SendPool
  <2> HIDE DEF z, v, U
  <2>8. ListRight(z, frame')
    BY <2>5, Bounds DEF ListRight
  <2>9. MsgInv(U, frame')
    BY <1>3, <1>5 DEF U
  <2>10. MsgInv(Append(U, m), frame')
    BY <2>5, <2>6, <2>8, <2>9, AppendMsg
  <2>11. Fine(v, cmd', frame')
    BY <2>2, <2>6, <2>7, <2>10 DEF Fine
  <2> QED BY <1>5, <1>6, <1>7, <2>1, <2>4, <2>11, SentFine
<1> QED BY <1>9, <1>10

(* _WMI_SendCompleteHandler: the message is on its way still, the buffer   *)
(* goes back to the pool it is from.                                       *)
LEMMA SendCompleteKeeps ==
    ASSUME IInv, SendComplete
    PROVE  IInv'
<1> DEFINE q == wire.msgs
           h == Head(q)
           r == Tail(q)
<1>1. /\ q # << >> /\ wire.fifo = << >> /\ wmi' = [wmi EXCEPT ![h.class] = @ + 1]
      /\ wire' = [msgs |-> r, fifo |-> <<h>>] /\ UNCHANGED <<intr, txs, frame, cmd>>
  BY DEF SendComplete, FreeBuf
<1>2. q \in Seq(Messages) /\ wmi \in PoolState /\ PoolOK(Now, cmd) /\ MsgInv(UnreadOf(wire), frame)
  BY DEF IInv, TypeOK, WireState
<1>3. Len(q) \in Nat /\ Len(q) >= 1 /\ h = q[1] /\ h \in Messages /\ r \in Seq(Messages) /\ Len(r) = Len(q) - 1
      /\ DOMAIN q = 1..Len(q) /\ DOMAIN r = 1..(Len(q) - 1)
      /\ \A i \in 1..(Len(q) - 1) : r[i] = q[i + 1]
  BY <1>1, <1>2
<1>4. <<h>> \o r = q /\ << >> \o q = q /\ <<h>> \in Seq(Messages) /\ Len(<<h>>) = 1
  BY <1>1, <1>2, <1>3
<1>5. UnreadOf(wire) = q
  BY <1>1, <1>4 DEF UnreadOf
<1> DEFINE F == <<h>>
<1> HIDE DEF F
<1>6. wire' = [msgs |-> r, fifo |-> F] /\ F \in Seq(Messages) /\ Len(F) = 1 /\ F \o r = q
  BY <1>1, <1>4 DEF F
<1> HIDE DEF q, h, r
<1>7. UnreadOf(wire)' = q /\ wire' \in WireState /\ wire'.msgs = r /\ Len(wire'.fifo) <= 1
  <2>1. wire'.msgs = r /\ wire'.fifo = F /\ wire' \in WireState
    BY <1>3, <1>6 DEF WireState
  <2>2. UnreadOf(wire)' = F \o r
    BY <2>1 DEF UnreadOf
  <2>3. Len(F) <= 1
    <3> DEFINE l == Len(F)
    <3>1. l = 1
      BY <1>6
    <3> HIDE DEF l
    <3>2. l <= 1
      BY <3>1
    <3> QED BY <3>2 DEF l
  <2>4. UnreadOf(wire)' = q
    BY <1>6, <2>2, Zenon
  <2> QED BY <2>1, <2>3, <2>4, Zenon
<1>8. h.class \in {"reply", "event"}
  BY <1>3 DEF Messages
<1>9. /\ wmi.assert = TRUE
      /\ \A i \in DOMAIN q : q[i].class = "reply" => cmd.st = "handled"
      /\ \A i, j \in DOMAIN q : q[i].class = "reply" /\ q[j].class = "reply" => i = j
      /\ wmi.reply = IF HasReply(q) THEN MaxCmdReply - 1 ELSE MaxCmdReply
      /\ wmi.reply + wmi.event + Len(q) = MaxCmdReply + MaxEvents
  <2>1. Now.wmi = wmi /\ Now.wire = wire /\ wire.msgs = q
    BY DEF Now, q
  <2> QED BY <1>2, <1>5, <2>1 DEF PoolOK
<1> DEFINE n == Len(q)
<1> HIDE DEF n
<1>10. n \in Nat /\ n >= 1 /\ Len(r) = n - 1 /\ DOMAIN q = 1..n /\ DOMAIN r = 1..(n - 1)
       /\ \A i \in 1..(n - 1) : r[i] = q[i + 1] /\ i + 1 \in 1..n /\ i + 1 # 1
  <2>1. n \in Nat /\ n >= 1
    BY <1>3 DEF n
  <2>2. \A i \in 1..(n - 1) : i + 1 \in 1..n /\ i + 1 # 1
    BY <2>1
  <2>3. Len(r) = n - 1 /\ DOMAIN q = 1..n /\ DOMAIN r = 1..(n - 1)
    BY <1>3, Zenon DEF n
  <2>4. \A i \in 1..(n - 1) : r[i] = q[i + 1]
    BY <1>3, Zenon DEF n
  <2> QED BY <2>1, <2>2, <2>3, <2>4
<1>11. h.class = "reply" => HasReply(q) /\ ~HasReply(r)
  <2>1. 1 \in 1..n
    BY <1>10
  <2> QED BY <1>3, <1>9, <1>10, <2>1 DEF HasReply
<1>12. h.class = "event" => (HasReply(r) <=> HasReply(q))
  <2>1. \A i \in 1..n : i = 1 \/ (i - 1 \in 1..(n - 1) /\ (i - 1) + 1 = i)
    BY <1>10
  <2>2. HasReply(r) => HasReply(q)
    BY <1>10 DEF HasReply
  <2>3. ASSUME h.class = "event", HasReply(q) PROVE HasReply(r)
    <3>1. PICK i \in 1..n : q[i].class = "reply"
      BY <1>10, <2>3 DEF HasReply
    <3>2. i # 1
      BY <1>3, <2>3, <3>1
    <3>3. i - 1 \in DOMAIN r /\ r[i - 1] = q[(i - 1) + 1] /\ (i - 1) + 1 = i
      BY <1>10, <2>1, <3>2
    <3>4. r[i - 1].class = "reply"
      BY <3>1, <3>3
    <3> QED BY <3>3, <3>4 DEF HasReply
  <2> QED BY <2>2, <2>3
<1>13. /\ wmi' \in PoolState /\ wmi'.assert = TRUE
       /\ wmi'.reply = IF HasReply(r) THEN MaxCmdReply - 1 ELSE MaxCmdReply
       /\ wmi'.reply + wmi'.event + Len(r) = MaxCmdReply + MaxEvents
  <2> DEFINE a == wmi.reply
             e == wmi.event
  <2>0. a \in Nat /\ e \in Nat
    BY <1>2 DEF PoolState
  <2>1. CASE h.class = "reply"
    <3>1. wmi' = [wmi EXCEPT !["reply"] = @ + 1]
      BY <1>1, <2>1 DEF h, q
    <3>2. wmi' \in PoolState
      BY <1>2, <3>1 DEF PoolState
    <3>3. wmi'.reply = a + 1 /\ wmi'.event = e
      BY <1>2, <3>1 DEF PoolState
    <3>4. wmi'.assert = wmi.assert
      BY <1>2, <3>1 DEF PoolState
    <3> HIDE DEF a, e
    <3>5. a = MaxCmdReply - 1 /\ a + e + n = MaxCmdReply + MaxEvents
      BY <1>9, <1>11, <2>1 DEF a, e, n
    <3>6. a + 1 = MaxCmdReply /\ (a + 1) + e + (n - 1) = MaxCmdReply + MaxEvents
      BY <1>10, <2>0, <3>5, Bounds
    <3> QED BY <1>9, <1>10, <1>11, <2>1, <3>2, <3>3, <3>4, <3>6
  <2>2. CASE h.class = "event"
    <3>1. wmi' = [wmi EXCEPT !["event"] = @ + 1]
      BY <1>1, <2>2 DEF h, q
    <3>2. wmi' \in PoolState
      BY <1>2, <3>1 DEF PoolState
    <3>3. wmi'.reply = a /\ wmi'.event = e + 1
      BY <1>2, <3>1 DEF PoolState
    <3>4. wmi'.assert = wmi.assert
      BY <1>2, <3>1 DEF PoolState
    <3>5. a = IF HasReply(r) THEN MaxCmdReply - 1 ELSE MaxCmdReply
      BY <1>9, <1>12, <2>2
    <3> HIDE DEF a, e
    <3>6. a + e + n = MaxCmdReply + MaxEvents
      BY <1>9 DEF a, e, n
    <3>7. a + (e + 1) + (n - 1) = MaxCmdReply + MaxEvents
      BY <1>10, <2>0, <3>6, Bounds
    <3> QED BY <1>9, <1>10, <3>2, <3>3, <3>4, <3>5, <3>7
  <2> QED BY <1>8, <2>1, <2>2
<1>14. PoolOK(Now, cmd)'
  <2>1. Now'.wmi = wmi' /\ Now'.wire = wire'
    BY DEF Now
  <2>2. UnreadOf(Now'.wire) = q
    BY <1>7, <2>1 DEF UnreadOf
  <2> HIDE DEF Now
  <2> QED BY <1>1, <1>7, <1>9, <1>13, <2>1, <2>2 DEF PoolOK
<1>15. TypeOK'
  BY <1>1, <1>7, <1>13 DEF IInv, TypeOK
<1> QED BY <1>1, <1>2, <1>5, <1>7, <1>14, <1>15 DEF IInv

(* A sequence of at most one message, and the messages that follow it.     *)
LEMMA OneThen ==
    ASSUME NEW S, NEW f \in Seq(S), NEW q \in Seq(S), f # << >>, Len(f) <= 1
    PROVE  /\ Len(f) = 1 /\ Head(f) = f[1] /\ f[1] \in S
           /\ Len(q) \in Nat /\ DOMAIN q = 1..Len(q) /\ DOMAIN (f \o q) = 1..(Len(q) + 1)
           /\ (f \o q)[1] = f[1] /\ \A i \in 1..Len(q) : (f \o q)[i + 1] = q[i]
<1>1. Len(f) \in Nat /\ Len(f) >= 1 /\ Head(f) = f[1] /\ f[1] \in S
  OBVIOUS
<1>2. Len(f) = 1
  <2> DEFINE l == Len(f)
  <2>1. l \in Nat /\ l >= 1 /\ l <= 1
    BY <1>1
  <2> HIDE DEF l
  <2>2. l = 1
    BY <2>1
  <2> QED BY <2>2 DEF l
<1>3. Len(q) \in Nat /\ DOMAIN q = 1..Len(q)
  OBVIOUS
<1>4. DOMAIN (f \o q) = 1..(Len(q) + 1)
  <2>1. DOMAIN (f \o q) = 1..(Len(f) + Len(q))
    OBVIOUS
  <2> QED BY <1>2, <1>3, <2>1
<1>5. (f \o q)[1] = f[1]
  BY <1>2
<1>6. ASSUME NEW i \in 1..Len(q)
      PROVE  (f \o q)[i + 1] = q[i]
  <2>1. i \in Nat /\ i + 1 \in 1..(Len(f) + Len(q)) /\ ~(i + 1 <= Len(f)) /\ (i + 1) - Len(f) = i
    BY <1>2, <1>3
  <2>2. (f \o q)[i + 1] = q[(i + 1) - Len(f)]
    BY <2>1
  <2> QED BY <2>1, <2>2
<1> QED BY <1>1, <1>2, <1>3, <1>4, <1>5, <1>6

(* The host reads a message: what is left is about other frames, and no    *)
(* reply is left when it has read one.                                     *)
LEMMA HostReadKeeps ==
    ASSUME IInv, HostRead
    PROVE  IInv'
<1> DEFINE q == wire.msgs
           m == Head(wire.fifo)
           cs == {e.cookie : e \in ToSet(m.body)}
           U == UnreadOf(wire)
           z == << >>
<1>1. /\ wire.fifo # << >> /\ cmd' = (IF m.class = "reply" THEN NoCommand ELSE cmd)
      /\ frame' = [c \in Cookies |-> IF c \in cs THEN "free" ELSE frame[c]]
      /\ wire' = [wire EXCEPT !.fifo = z] /\ UNCHANGED <<wmi, intr, txs>>
  BY DEF HostRead
<1>2. /\ q \in Seq(Messages) /\ wire.fifo \in Seq(Messages) /\ wire \in WireState /\ Len(wire.fifo) <= 1
      /\ PoolOK(Now, cmd) /\ MsgInv(U, frame) /\ frame \in [Cookies -> {"free"} \cup Fates]
  BY DEF IInv, TypeOK, WireState
<1> DEFINE n == Len(q)
<1>3. U = wire.fifo \o q
  BY DEF UnreadOf
<1>4. /\ n \in Nat /\ DOMAIN q = 1..n /\ DOMAIN U = 1..(n + 1) /\ U[1] = m
      /\ \A i \in 1..n : U[i + 1] = q[i] /\ i + 1 \in 1..(n + 1) /\ i + 1 # 1
  <2> DEFINE f == wire.fifo
  <2>0. f \in Seq(Messages) /\ q \in Seq(Messages) /\ f # << >> /\ Len(f) <= 1 /\ U = f \o q
    BY <1>1, <1>2, <1>3
  <2> HIDE DEF f, q, U
  <2>1. /\ n \in Nat /\ DOMAIN q = 1..n /\ DOMAIN U = 1..(n + 1) /\ U[1] = Head(f)
        /\ \A i \in 1..n : U[i + 1] = q[i]
    BY <2>0, OneThen
  <2> HIDE DEF n
  <2>2. \A i \in 1..n : i + 1 \in 1..(n + 1) /\ i + 1 # 1
    BY <2>1
  <2> QED BY <2>1, <2>2 DEF f
<1>5. z \in Seq(Messages) /\ Len(z) = 0 /\ z \o q = q
  BY <1>2
<1> HIDE DEF z
<1>6. wire' \in WireState /\ wire'.fifo = z /\ wire'.msgs = q
  BY <1>1, <1>2, <1>5 DEF WireState
<1>7. UnreadOf(wire)' = q /\ Len(wire'.fifo) <= 1
  BY <1>5, <1>6 DEF UnreadOf
<1> HIDE DEF q, m, U, n
<1>8. frame' \in [Cookies -> {"free"} \cup Fates]
  BY <1>1, <1>2
<1>9. cmd' \in CmdStates
  BY <1>1 DEF IInv, TypeOK, NoCommand, CmdStates
<1>10. \A i \in 1..n : \A k \in DOMAIN q[i].body : q[i].body[k].cookie \notin cs
  <2> SUFFICES ASSUME NEW i \in 1..n, NEW k \in DOMAIN q[i].body, q[i].body[k].cookie \in cs
               PROVE  FALSE
    OBVIOUS
  <2>1. PICK l \in DOMAIN m.body : m.body[l].cookie = q[i].body[k].cookie
    BY DEF ToSet
  <2>2. U[i + 1] = q[i] /\ i + 1 \in DOMAIN U /\ 1 \in DOMAIN U /\ i + 1 # 1
    BY <1>4
  <2>3. U[1].body[l].cookie = U[i + 1].body[k].cookie /\ l \in DOMAIN U[1].body /\ k \in DOMAIN U[i + 1].body
    BY <1>4, <2>1, <2>2
  <2>4. 1 = i + 1
    BY <1>2, <2>2, <2>3 DEF MsgInv
  <2> QED BY <2>2, <2>4
<1>11. MsgInv(q, frame')
  <2>1. MsgInv(q, frame)
    <3>1. \A i \in DOMAIN q : i + 1 \in DOMAIN U /\ U[i + 1] = q[i]
      BY <1>4
    <3>2. \A i \in DOMAIN q : Len(q[i].body) <= MaxTxStatus
      BY <1>2, <3>1 DEF MsgInv
    <3>3. ASSUME NEW i \in DOMAIN q, NEW j \in DOMAIN q, NEW k \in DOMAIN q[i].body,
                 NEW l \in DOMAIN q[j].body, q[i].body[k].cookie = q[j].body[l].cookie
          PROVE  i = j /\ k = l
      <4> DEFINE a == i + 1
                 b == j + 1
      <4>0. /\ a \in DOMAIN U /\ b \in DOMAIN U /\ k \in DOMAIN U[a].body /\ l \in DOMAIN U[b].body
            /\ U[a].body[k].cookie = U[b].body[l].cookie
        BY <3>1, <3>3
      <4> HIDE DEF a, b
      <4>1. a = b /\ k = l
        BY <1>2, <4>0 DEF MsgInv
      <4> USE DEF a, b
      <4> QED BY <1>4, <4>1
    <3>4. \A i \in DOMAIN q : \A k \in DOMAIN q[i].body :
           /\ frame[q[i].body[k].cookie] \in {"acked", "failed", "aggrfailed"}
           /\ frame[q[i].body[k].cookie] = "acked" => q[i].body[k].ack
           /\ frame[q[i].body[k].cookie] = "failed" => ~q[i].body[k].ack
      BY <1>2, <3>1, SMT DEF MsgInv
    <3> QED BY <3>2, <3>3, <3>4, Zenon DEF MsgInv
  <2>2. \A i \in DOMAIN q : \A k \in DOMAIN q[i].body : q[i].body[k].cookie \in Cookies
    BY <1>2, CookiesIn
  <2>3. \A i \in DOMAIN q : \A k \in DOMAIN q[i].body :
          frame'[q[i].body[k].cookie] = frame[q[i].body[k].cookie]
    BY <1>1, <1>4, <1>10, <2>2
  <2> QED BY <2>1, <2>3, MsgSame
<1>12. PoolOK(Now, cmd)'
  <2>1. /\ wmi.assert = TRUE
        /\ \A i \in DOMAIN U : U[i].class = "reply" => cmd.st = "handled"
        /\ \A i, j \in DOMAIN U : U[i].class = "reply" /\ U[j].class = "reply" => i = j
        /\ wmi.reply = IF HasReply(q) THEN MaxCmdReply - 1 ELSE MaxCmdReply
        /\ wmi.reply + wmi.event + Len(q) = MaxCmdReply + MaxEvents
    <3>1. Now.wmi = wmi /\ Now.wire = wire
      BY DEF Now
    <3> QED BY <1>2, <3>1 DEF PoolOK, U, q
  <2>2. \A i \in DOMAIN q : i + 1 \in DOMAIN U /\ U[i + 1] = q[i] /\ 1 \in DOMAIN U /\ i + 1 # 1
    BY <1>4
  <2>3. \A i \in DOMAIN q : q[i].class = "reply" => cmd'.st = "handled"
    BY <1>1, <1>4, <2>1, <2>2
  <2>4. \A i, j \in DOMAIN q : q[i].class = "reply" /\ q[j].class = "reply" => i = j
    <3>1. \A i, j \in DOMAIN q : q[i].class = "reply" /\ q[j].class = "reply" => i + 1 = j + 1
      BY <2>1, <2>2
    <3> QED BY <1>4, <3>1
  <2>5. Now'.wmi = wmi /\ Now'.wire.msgs = q /\ UnreadOf(Now'.wire) = q
    BY <1>1, <1>6, <1>7 DEF Now, UnreadOf
  <2> HIDE DEF Now
  <2> QED BY <2>1, <2>3, <2>4, <2>5 DEF PoolOK
<1>13. TypeOK'
  BY <1>1, <1>6, <1>7, <1>8, <1>9 DEF IInv, TypeOK
<1> QED BY <1>7, <1>11, <1>12, <1>13 DEF IInv

(* The host gives a command while it waits for none.                       *)
LEMMA HostCommandKeeps ==
    ASSUME IInv, NEW op \in Ops, HostCommand(op)
    PROVE  IInv'
<1>1. cmd = NoCommand /\ cmd' = [st |-> "sent", op |-> op] /\ UNCHANGED <<wmi, wire, intr, txs, frame>>
  BY DEF HostCommand, NoCommand
<1>2. Now' = Now /\ cmd.st = "none"
  BY <1>1 DEF Now, NoCommand
<1>3. PoolOK(Now, cmd')
  BY <1>2 DEF IInv, PoolOK
<1>4. PoolOK(Now, cmd)'
  BY <1>2, <1>3
<1>5. TypeOK'
  BY <1>1 DEF IInv, TypeOK, CmdStates
<1> QED BY <1>1, <1>4, <1>5 DEF IInv

(* A dropped command: the host gives up, and no reply is on its way.       *)
LEMMA HostTimeoutKeeps ==
    ASSUME IInv, HostTimeout
    PROVE  IInv'
<1>1. cmd.st = "dropped" /\ cmd' = NoCommand /\ UNCHANGED <<wmi, wire, intr, txs, frame>>
  BY DEF HostTimeout
<1>2. Now' = Now
  BY <1>1 DEF Now
<1>3. PoolOK(Now, cmd')
  BY <1>1 DEF IInv, PoolOK
<1>4. PoolOK(Now, cmd)'
  BY <1>2, <1>3
<1>5. TypeOK'
  BY <1>1 DEF IInv, TypeOK, NoCommand, CmdStates
<1> QED BY <1>1, <1>4, <1>5 DEF IInv

(* The host queues a frame under a cookie that no message names.           *)
LEMMA HostFrameKeeps ==
    ASSUME IInv, NEW c \in Cookies, HostFrame(c)
    PROVE  IInv'
<1> DEFINE U == UnreadOf(wire)
<1>1. frame[c] = "free" /\ frame' = [frame EXCEPT ![c] = "queued"] /\ UNCHANGED <<wmi, wire, intr, txs, cmd>>
  BY DEF HostFrame
<1>2. MsgInv(U, frame) /\ wire \in WireState /\ frame \in [Cookies -> {"free"} \cup Fates]
  BY DEF IInv, TypeOK
<1>3. U \in Seq(Messages)
  BY <1>2 DEF UnreadOf, WireState
<1> HIDE DEF U
<1>4. \A i \in DOMAIN U : \A k \in DOMAIN U[i].body :
        U[i].body[k].cookie \in Cookies /\ frame[U[i].body[k].cookie] # "free"
  BY <1>2, <1>3, CookiesIn DEF MsgInv
<1>5. \A i \in DOMAIN U : \A k \in DOMAIN U[i].body : frame'[U[i].body[k].cookie] = frame[U[i].body[k].cookie]
  BY <1>1, <1>2, <1>4
<1>6. MsgInv(U, frame')
  BY <1>2, <1>5, MsgSame
<1>7. frame' \in [Cookies -> {"free"} \cup Fates]
  BY <1>1, <1>2 DEF Fates
<1>8. TypeOK'
  BY <1>1, <1>7 DEF IInv, TypeOK
<1>9. Now' = Now
  BY <1>1 DEF Now
<1>10. PoolOK(Now, cmd)'
  BY <1>1, <1>9 DEF IInv
<1>11. MsgInv(UnreadOf(wire), frame)'
  BY <1>1, <1>6 DEF U
<1> QED BY <1>8, <1>10, <1>11 DEF IInv

(* At the start both pools are full and nothing is on its way.             *)
LEMMA InitIInv == Init => IInv
<1> SUFFICES ASSUME Init PROVE IInv
  OBVIOUS
<1> DEFINE z == << >>
           w == [reply |-> MaxCmdReply, event |-> MaxEvents, assert |-> TRUE]
<1>1. z \in Seq(Messages) /\ z \in Seq(Entry) /\ Len(z) = 0 /\ DOMAIN z = {} /\ z \o z = z
  OBVIOUS
<1>2. wmi = w /\ wire = [msgs |-> z, fifo |-> z] /\ intr = FALSE
      /\ txs = [e \in 1..2 |-> [list |-> z, old |-> [i \in Places |-> FALSE]]]
      /\ frame = [c \in Cookies |-> "free"] /\ cmd = [st |-> "none", op |-> "none"]
  BY DEF Init, NoCommand
<1> HIDE DEF z
<1>3. wire \in WireState /\ wire.fifo = z /\ wire.msgs = z
  BY <1>1, <1>2 DEF WireState
<1>4. w \in PoolState /\ w.assert = TRUE /\ w.reply = MaxCmdReply /\ w.event = MaxEvents
  BY Bounds DEF PoolState
<1> HIDE DEF w
<1>5. txs \in TxsState
  BY <1>1, <1>2 DEF TxsState, StatusState
<1>6. Len(wire.fifo) <= 1
  BY <1>1, <1>3
<1>7. TypeOK
  BY <1>2, <1>3, <1>4, <1>5, <1>6 DEF TypeOK, CmdStates
<1>8. UnreadOf(wire) = z
  BY <1>1, <1>3 DEF UnreadOf
<1>9. MsgInv(UnreadOf(wire), frame)
  BY <1>1, <1>8 DEF MsgInv
<1>10. PoolOK(Now, cmd)
  <2>1. Now.wmi = w /\ Now.wire = wire
    BY <1>2 DEF Now
  <2>2. w.reply + w.event + Len(z) = MaxCmdReply + MaxEvents
    BY <1>1, <1>4, Bounds
  <2>3. ~HasReply(z)
    BY <1>1 DEF HasReply
  <2> QED BY <1>1, <1>3, <1>4, <1>8, <2>1, <2>2, <2>3 DEF PoolOK
<1> QED BY <1>7, <1>9, <1>10 DEF IInv

(* Every step keeps the invariant.                                         *)
LEMMA StepIInv == IInv /\ [Next]_vars => IInv'
<1> SUFFICES ASSUME IInv, [Next]_vars PROVE IInv'
  OBVIOUS
<1>1. CASE SendComplete
  BY <1>1, SendCompleteKeeps
<1>2. CASE FatalInterrupt
  BY <1>2, FatalKeeps
<1>3. CASE RecvCommand
  BY <1>3, RecvKeeps
<1>4. ASSUME NEW swba \in BOOLEAN, NEW bmiss \in BOOLEAN, NEW fate \in [Queued -> Fates],
             Interrupt(swba, bmiss, fate)
      PROVE  IInv'
  BY <1>4, InterruptKeeps
<1>5. ASSUME NEW op \in Ops, HostCommand(op) PROVE IInv'
  BY <1>5, HostCommandKeeps
<1>6. ASSUME NEW c \in Cookies, HostFrame(c) PROVE IInv'
  BY <1>6, HostFrameKeeps
<1>7. CASE HostRead
  BY <1>7, HostReadKeeps
<1>8. CASE HostTimeout
  BY <1>8, HostTimeoutKeeps
<1>9. CASE UNCHANGED vars
  <2>1. Now' = Now /\ cmd' = cmd /\ frame' = frame /\ wire' = wire
    BY <1>9 DEF vars, Now
  <2>2. TypeOK'
    BY <1>9 DEF vars, IInv, TypeOK
  <2>3. PoolOK(Now, cmd)' /\ MsgInv(UnreadOf(wire), frame)'
    BY <2>1 DEF IInv
  <2> QED BY <2>2, <2>3 DEF IInv
<1> QED BY <1>1, <1>2, <1>3, <1>4, <1>5, <1>6, <1>7, <1>8, <1>9 DEF Next, Running, Target

(* The invariant: each buffer is free or holds a message that waits, and   *)
(* what the messages say of frames is right.                               *)
THEOREM Invariance == Spec => []IInv
BY InitIInv, StepIInv, PTL DEF Spec

(* wmi_cmd_rsp always finds a buffer for its reply: its assertion holds.   *)
THEOREM AssertionHolds == Spec => [](wmi.assert = TRUE)
<1>1. IInv => wmi.assert = TRUE
  BY DEF IInv, PoolOK, Now
<1> QED BY <1>1, Invariance, PTL

(* Every event tells of each frame at most once what became of it, as      *)
(* ath_tx_status_update and ath_tx_status_send make it.                    *)
THEOREM StatusRightAlways == Spec => []StatusRight
<1>1. IInv => StatusRight
  <2> SUFFICES ASSUME IInv PROVE StatusRight
    OBVIOUS
  <2> DEFINE U == Unread
  <2>1. MsgInv(U, frame)
    BY DEF IInv, Unread, UnreadOf
  <2> HIDE DEF U
  <2>2. ASSUME NEW i \in DOMAIN U, NEW j \in DOMAIN U
        PROVE  /\ Len(U[i].body) <= MaxTxStatus
               /\ \A k, l \in DOMAIN U[i].body : U[i].body[k].cookie = U[i].body[l].cookie => k = l
               /\ i # j => {e.cookie : e \in ToSet(U[i].body)} \cap {e.cookie : e \in ToSet(U[j].body)} = {}
    <3>1. Len(U[i].body) <= MaxTxStatus
      BY <2>1 DEF MsgInv
    <3>2. ASSUME NEW k \in DOMAIN U[i].body, NEW l \in DOMAIN U[i].body,
                 U[i].body[k].cookie = U[i].body[l].cookie
          PROVE  k = l
      BY <2>1, <3>2 DEF MsgInv
    <3>3. ASSUME i # j, NEW x \in {e.cookie : e \in ToSet(U[i].body)} \cap {e.cookie : e \in ToSet(U[j].body)}
          PROVE  FALSE
      <4>1. PICK k \in DOMAIN U[i].body : x = U[i].body[k].cookie
        BY DEF ToSet
      <4>2. PICK l \in DOMAIN U[j].body : x = U[j].body[l].cookie
        BY DEF ToSet
      <4>3. U[i].body[k].cookie = U[j].body[l].cookie
        BY <4>1, <4>2
      <4>4. i = j
        BY <2>1, <4>3, Zenon DEF MsgInv
      <4> QED BY <3>3, <4>4
    <3> QED BY <3>1, <3>2, <3>3, Zenon
  <2>3. ASSUME NEW e \in Entries
        PROVE  /\ frame[e.cookie] \in {"acked", "failed", "aggrfailed"}
               /\ frame[e.cookie] = "acked" => e.ack
               /\ frame[e.cookie] = "failed" => ~e.ack
    <3>1. PICK i \in DOMAIN U : e \in ToSet(U[i].body)
      BY DEF Entries, ToSet, U
    <3>2. PICK k \in DOMAIN U[i].body : e = U[i].body[k]
      BY <3>1 DEF ToSet
    <3> QED BY <2>1, <3>2, Zenon DEF MsgInv
  <2> QED BY <2>2, <2>3, Zenon DEF StatusRight, U
<1> QED BY <1>1, Invariance, PTL
=============================================================================
