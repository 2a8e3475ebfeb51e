--------------------------- MODULE UpQueueProofs ---------------------------
(* Proofs about UpQueue for every set of VBUFs and packets of any length.  *)
EXTENDS UpQueue, FiniteSetTheorems, WellFoundedInduction, TLAPS

(* The descriptor that carries each buffer, and so each segment of a VBUF. *)
HolderOf(vdesc) == [b \in Bufs |-> CHOOSE d \in Descs : vdesc[d] = b]
Holder == HolderOf(vd)
At(h, v, i) == h[<<v, i>>]

(* The descriptors of the packet of a VBUF.                                *)
ChainOf(h, v) == [i \in 1..PktLen[v] |-> At(h, v, i)]

(* A put is under way, and its packet is not in the queue yet; the put has *)
(* exchanged the buffers.                                                  *)
Putting == pc \in {"link", "copy", "own"}
Swapped == pc \in {"copy", "own"}

(* The packets in the queue: those of the first VBUFs of the list.         *)
Entered == IF Putting THEN Len(xmited) - 1 ELSE Len(xmited)

(* Where packet j of the n packets of the VBUFs of x begins.               *)
Begin(h, x, n, t, j) == IF j <= n THEN At(h, x[j], 1) ELSE t

(* The hardware descriptor m is that of segment i of v, and e follows the  *)
(* packet.                                                                 *)
Segment(m, h, v, i, e) ==
    /\ m.data = <<v, i>>
    /\ m.ls <=> i = PktLen[v]
    /\ m.next = IF i < PktLen[v] THEN At(h, v, i + 1) ELSE e
    /\ i = 1 => m.last = At(h, v, PktLen[v])

TypeInv ==
    /\ QueueTypeOK(Descs, Bufs)
    /\ hw \in [cur : Descs, got : Seq(Descs), start : BOOLEAN]
    /\ xmited \in Seq(Vbufs) /\ IsInjective(xmited)
    /\ vb \in [Vbufs -> Seq(Descs)]
    /\ ndone \in Nat /\ ndone <= Entered
    /\ Putting => Len(xmited) >= 1

(* Every buffer is carried by one descriptor, and the spare one by none.   *)
Carried(vdesc, spare) ==
    /\ \A b \in Bufs : \E d \in Descs : vdesc[d] = b
    /\ \A d, e \in Descs : vdesc[d] = vdesc[e] => d = e
    /\ vdesc[spare] = NULL

(* Without a buffer is the terminator, or the terminator to be.            *)
Spare == IF Swapped THEN put.first ELSE term

(* The packets of the queue are linked, and the engine has those it has    *)
(* not sent.                                                               *)
QueueLinked(m, h, x, n, t, done) ==
    /\ m[t].own = "SW"
    /\ \A j \in 1..n : \A i \in 1..PktLen[x[j]] :
         /\ Segment(m[At(h, x[j], i)], h, x[j], i, Begin(h, x, n, t, j + 1))
         /\ m[At(h, x[j], i)].own = IF j <= done THEN "SW" ELSE "HW"

(* The packet being put, whose first descriptor the copy has when the      *)
(* buffers are exchanged.                                                  *)
LinkedPut(m, h, v, first) ==
    /\ first = At(h, v, 1)
    /\ \A i \in 1..PktLen[v] : Segment(m[At(h, v, i)], h, v, i, NULL) /\ m[At(h, v, i)].own = "HW"

SwappedPut(m, h, v, p, t) ==
    /\ t = At(h, v, 1) /\ m[p.first].own = "SW"
    /\ Segment(p.tdesc, h, v, 1, p.first) /\ p.tdesc.own = "SW"
    /\ \A i \in 2..PktLen[v] : Segment(m[At(h, v, i)], h, v, i, p.first) /\ m[At(h, v, i)].own = "HW"

PutLinked ==
    /\ pc = "link" => LinkedPut(mem, Holder, Last(xmited), put.first)
    /\ Swapped => SwappedPut(mem, Holder, Last(xmited), put, term)
    /\ pc = "own" => mem[term] = put.tdesc

(* The engine is in the first packet it has not sent, or at the            *)
(* terminator.                                                             *)
EngineAt(e, r, h, x, n, t, done) ==
    IF done < n
    THEN LET v == x[done + 1]
             k == Len(e.got)
         IN  /\ k < PktLen[v] /\ e.cur = At(h, v, k + 1)
             /\ e.got = [i \in 1..k |-> At(h, v, i)]
             /\ r = [i \in 1..k |-> <<v, i>>]
    ELSE e.cur = t /\ e.got = << >> /\ r = << >>

(* A VBUF that is not queued has the descriptors that carry its buffers.   *)
IdleWhole == \A v \in Vbufs : Idle(v) => vb[v] = ChainOf(Holder, v)

IInv ==
    /\ TypeInv
    /\ Carried(vd, Spare)
    /\ head = Begin(Holder, xmited, Entered, term, 1)
    /\ QueueLinked(mem, Holder, xmited, Entered, term, ndone)
    /\ PutLinked
    /\ EngineAt(hw, read, Holder, xmited, Entered, term, ndone)
    /\ IdleWhole
----------------------------------------------------------------------------
(* Descriptors and the buffers they carry.                                 *)

(* The segments of the VBUFs are buffers, and none is the null address.    *)
LEMMA SegmentFacts ==
    ASSUME NEW v \in Vbufs
    PROVE  /\ PktLen[v] \in Nat /\ PktLen[v] >= 1
           /\ \A i \in 1..PktLen[v] : <<v, i>> \in Bufs /\ <<v, i>> # NULL
<1>1. PktLen[v] \in Nat \ {0}
  BY UpAssumption
<1>2. ASSUME NEW i \in 1..PktLen[v]
      PROVE  <<v, i>> \in Bufs /\ <<v, i>> # NULL
  <2>1. <<v, i>> \in Segments
    BY DEF Segments
  <2>2. <<v, i>> \in Descs /\ <<v, i>> \in Bufs
    BY <2>1 DEF Descs, Bufs
  <2> QED BY <2>2, DescAssumption
<1> QED BY <1>1, <1>2

(* Each buffer has its descriptor and each descriptor its buffer.          *)
LEMMA HolderFacts ==
    ASSUME NEW w \in [Descs -> Bufs], NEW s \in Descs, Carried(w, s)
    PROVE  /\ \A b \in Bufs : HolderOf(w)[b] \in Descs /\ w[HolderOf(w)[b]] = b
           /\ \A d \in Descs : HolderOf(w)[w[d]] = d
<1>1. ASSUME NEW b \in Bufs
      PROVE  HolderOf(w)[b] \in Descs /\ w[HolderOf(w)[b]] = b
  <2>1. \E d \in Descs : w[d] = b
    BY DEF Carried
  <2>2. HolderOf(w)[b] = CHOOSE d \in Descs : w[d] = b
    BY DEF HolderOf
  <2> QED BY <2>1, <2>2
<1>2. ASSUME NEW d \in Descs
      PROVE  HolderOf(w)[w[d]] = d
  BY <1>1 DEF Carried
<1> QED BY <1>1, <1>2

(* The descriptors of the segments: each is one segment's, none is spare.  *)
LEMMA AtFacts ==
    ASSUME NEW w \in [Descs -> Bufs], NEW s \in Descs, Carried(w, s)
    PROVE  /\ \A v \in Vbufs : \A i \in 1..PktLen[v] :
                /\ At(HolderOf(w), v, i) \in Descs
                /\ At(HolderOf(w), v, i) # s
                /\ w[At(HolderOf(w), v, i)] = <<v, i>>
           /\ \A u, v \in Vbufs : \A i \in 1..PktLen[u], k \in 1..PktLen[v] :
                At(HolderOf(w), u, i) = At(HolderOf(w), v, k) => u = v /\ i = k
<1>1. ASSUME NEW v \in Vbufs, NEW i \in 1..PktLen[v]
      PROVE  /\ At(HolderOf(w), v, i) \in Descs
             /\ At(HolderOf(w), v, i) # s
             /\ w[At(HolderOf(w), v, i)] = <<v, i>>
  <2>1. <<v, i>> \in Bufs /\ <<v, i>> # NULL
    BY SegmentFacts
  <2>2. At(HolderOf(w), v, i) \in Descs /\ w[At(HolderOf(w), v, i)] = <<v, i>>
    BY <2>1, HolderFacts DEF At
  <2>3. w[s] = NULL
    BY DEF Carried
  <2> QED BY <2>1, <2>2, <2>3
<1>2. ASSUME NEW u \in Vbufs, NEW v \in Vbufs, NEW i \in 1..PktLen[u], NEW k \in 1..PktLen[v],
             At(HolderOf(w), u, i) = At(HolderOf(w), v, k)
      PROVE  u = v /\ i = k
  <2>1. <<u, i>> = <<v, k>>
    BY <1>1, <1>2
  <2> QED BY <2>1
<1> QED BY <1>1, <1>2

(* The same for the state.                                                 *)
LEMMA Basics ==
    ASSUME IInv
    PROVE  /\ vd \in [Descs -> Bufs] /\ Spare \in Descs /\ Carried(vd, Spare)
           /\ mem \in [Descs -> HwDescs(Descs, Bufs)] /\ head \in Descs /\ term \in Descs
           /\ put \in [first : Descs, tdesc : HwDescs(Descs, Bufs)]
           /\ hw \in [cur : Descs, got : Seq(Descs), start : BOOLEAN]
           /\ xmited \in Seq(Vbufs) /\ Len(xmited) \in Nat /\ ndone \in Nat
           /\ Entered \in Nat /\ ndone <= Entered /\ Entered <= Len(xmited)
           /\ \A j \in 1..Len(xmited) : xmited[j] \in Vbufs
           /\ \A j, k \in 1..Len(xmited) : xmited[j] = xmited[k] => j = k
<1>1. TypeInv /\ Carried(vd, Spare)
  BY DEF IInv
<1>2. /\ vd \in [Descs -> Bufs] /\ Spare \in Descs
      /\ mem \in [Descs -> HwDescs(Descs, Bufs)] /\ head \in Descs /\ term \in Descs
      /\ put \in [first : Descs, tdesc : HwDescs(Descs, Bufs)]
      /\ hw \in [cur : Descs, got : Seq(Descs), start : BOOLEAN]
  BY <1>1 DEF TypeInv, QueueTypeOK, Spare
<1>3. xmited \in Seq(Vbufs) /\ Len(xmited) \in Nat /\ ndone \in Nat /\ ndone <= Entered
  BY <1>1 DEF TypeInv
<1>4. Entered \in Nat /\ Entered <= Len(xmited)
  BY <1>1, <1>3 DEF TypeInv, Entered
<1>5. \A j \in 1..Len(xmited) : xmited[j] \in Vbufs
  BY <1>3
<1>6. \A j, k \in 1..Len(xmited) : xmited[j] = xmited[k] => j = k
  BY <1>1, <1>3 DEF TypeInv, IsInjective
<1> QED BY <1>1, <1>2, <1>3, <1>4, <1>5, <1>6

(* The descriptors of the segments in the present state.                   *)
LEMMA Places ==
    ASSUME IInv
    PROVE  /\ \A v \in Vbufs : \A i \in 1..PktLen[v] :
                /\ At(Holder, v, i) \in Descs
                /\ At(Holder, v, i) # Spare
                /\ vd[At(Holder, v, i)] = <<v, i>>
           /\ \A u, v \in Vbufs : \A i \in 1..PktLen[u], k \in 1..PktLen[v] :
                At(Holder, u, i) = At(Holder, v, k) => u = v /\ i = k
<1>1. vd \in [Descs -> Bufs] /\ Spare \in Descs /\ Carried(vd, Spare)
  BY Basics
<1> QED BY <1>1, AtFacts DEF Holder

(* Writes to descriptors of no packet of the queue leave it linked.        *)
LEMMA QueueSame ==
    ASSUME NEW m, NEW m2, NEW h, NEW x, NEW n, NEW t, NEW done, QueueLinked(m, h, x, n, t, done),
           m2[t].own = "SW",
           \A j \in 1..n : \A i \in 1..PktLen[x[j]] : m2[At(h, x[j], i)] = m[At(h, x[j], i)]
    PROVE  QueueLinked(m2, h, x, n, t, done)
BY DEF QueueLinked
----------------------------------------------------------------------------
(* Steps that change neither the descriptors nor the list.                 *)

(* What leaves the descriptors, the list and the engine's place alone keeps*)
(* the invariant.                                                          *)
LEMMA QuietKeeps ==
    ASSUME IInv, UNCHANGED <<mem, vd, head, term, xmited, vb, read, ndone>>,
           hw' \in [cur : Descs, got : Seq(Descs), start : BOOLEAN], hw'.cur = hw.cur, hw'.got = hw.got,
           isr' \in BOOLEAN, intr' \in BOOLEAN,
           \/ UNCHANGED <<pc, put>>
           \/ pc = "trigger" /\ pc' = "run" /\ put' \in [first : Descs, tdesc : HwDescs(Descs, Bufs)]
    PROVE  IInv'
<1>1. Holder' = Holder /\ Entered' = Entered /\ Spare' = Spare /\ Putting' = Putting
  BY DEF Holder, Entered, Spare, Putting, Swapped
<1>2. TypeInv'
  <2>1. QueueTypeOK(Descs, Bufs)'
    <3>1. ToSet(hw'.got) \subseteq Descs /\ hw'.cur \in Descs /\ hw'.start \in BOOLEAN
      BY DEF ToSet
    <3> QED BY <3>1 DEF IInv, TypeInv, QueueTypeOK
  <2> QED BY <1>1, <2>1 DEF IInv, TypeInv
<1>3. Carried(vd, Spare)'
  BY <1>1 DEF IInv, Carried
<1>4. (head = Begin(Holder, xmited, Entered, term, 1))'
  BY <1>1 DEF IInv
<1>5. QueueLinked(mem, Holder, xmited, Entered, term, ndone)'
  BY <1>1 DEF IInv
<1>6. PutLinked'
  <2>1. CASE UNCHANGED <<pc, put>>
    BY <1>1, <2>1 DEF IInv, PutLinked, Swapped
  <2>2. CASE pc' = "run"
    BY <2>2 DEF PutLinked, Swapped
  <2> QED BY <2>1, <2>2
<1>7. EngineAt(hw, read, Holder, xmited, Entered, term, ndone)'
  BY <1>1 DEF IInv, EngineAt
<1>8. IdleWhole'
  BY <1>1 DEF IInv, IdleWhole, Idle
<1> QED BY <1>2, <1>3, <1>4, <1>5, <1>6, <1>7, <1>8 DEF IInv

(* Starting the engine keeps the invariant.                                *)
LEMMA TriggerKeeps ==
    ASSUME IInv, Trigger, UNCHANGED upVars
    PROVE  IInv'
<1>1. hw \in [cur : Descs, got : Seq(Descs), start : BOOLEAN] /\ isr \in BOOLEAN /\ intr \in BOOLEAN
  BY DEF IInv, TypeInv, QueueTypeOK
<1>2. hw' \in [cur : Descs, got : Seq(Descs), start : BOOLEAN] /\ hw'.cur = hw.cur /\ hw'.got = hw.got
  BY <1>1 DEF Trigger
<1>3. put' \in [first : Descs, tdesc : HwDescs(Descs, Bufs)]
  <2>1. put' = NoPut
    BY DEF Trigger
  <2>2. Terminator \in Descs /\ NULL \in Bufs
    BY DEF Descs, Bufs
  <2>3. InitDesc(NULL) \in HwDescs(Descs, Bufs)
    BY <2>2 DEF InitDesc, HwDescs, Owners
  <2> QED BY <2>1, <2>2, <2>3 DEF NoPut
<1> QED BY <1>1, <1>2, <1>3, QuietKeeps DEF Trigger, upVars

(* Entering and leaving the handler, and the engine's stop, keep it.       *)
LEMMA IsrKeeps ==
    ASSUME IInv, HandlerEnter \/ HandlerEnd \/ HwIdle
    PROVE  IInv'
<1>1. hw \in [cur : Descs, got : Seq(Descs), start : BOOLEAN] /\ isr \in BOOLEAN /\ intr \in BOOLEAN
  BY DEF IInv, TypeInv, QueueTypeOK
<1>2. CASE HandlerEnter \/ HandlerEnd
  BY <1>1, <1>2, QuietKeeps DEF HandlerEnter, HandlerEnd, IsrEnter, IsrEnd, upVars
<1>3. CASE HwIdle
  <2>1. hw' \in [cur : Descs, got : Seq(Descs), start : BOOLEAN] /\ hw'.cur = hw.cur /\ hw'.got = hw.got
    BY <1>1, <1>3 DEF HwIdle, HwStop
  <2> QED BY <1>1, <1>3, <2>1, QuietKeeps DEF HwIdle, HwStop, upVars
<1> QED BY <1>2, <1>3

(* So does a step of anything else.                                        *)
LEMMA StutterKeeps ==
    ASSUME IInv, UNCHANGED vars
    PROVE  IInv'
<1>1. hw \in [cur : Descs, got : Seq(Descs), start : BOOLEAN] /\ isr \in BOOLEAN /\ intr \in BOOLEAN
  BY DEF IInv, TypeInv, QueueTypeOK
<1> QED BY <1>1, QuietKeeps DEF vars, queueVars, upVars
----------------------------------------------------------------------------
(* The steps of the put.                                                   *)

(* The packet being put is that of the last VBUF of the list.              *)
LEMMA PutFacts ==
    ASSUME IInv, Putting
    PROVE  /\ Last(xmited) \in Vbufs /\ Last(xmited) = xmited[Entered + 1] /\ Entered + 1 = Len(xmited)
           /\ \A j \in 1..Entered : xmited[j] \in Vbufs /\ xmited[j] # Last(xmited)
<1>1. Entered = Len(xmited) - 1 /\ Len(xmited) >= 1
  BY DEF IInv, TypeInv, Entered
<1>2. Last(xmited) = xmited[Len(xmited)]
  BY DEF Last
<1> DEFINE l == Len(xmited)
<1>3. l \in Nat /\ (\A j \in 1..l : xmited[j] \in Vbufs) /\ \A j, k \in 1..l : xmited[j] = xmited[k] => j = k
  BY Basics
<1>4. Entered = l - 1 /\ l >= 1
  BY <1>1
<1> HIDE DEF l
<1>5. l \in 1..l /\ Entered + 1 = l /\ \A j \in 1..Entered : j \in 1..l /\ j # l
  BY <1>3, <1>4
<1>6. Last(xmited) = xmited[l]
  BY <1>2 DEF l
<1>7. Last(xmited) \in Vbufs /\ \A j \in 1..Entered : xmited[j] \in Vbufs /\ xmited[j] # xmited[l]
  BY <1>3, <1>5, <1>6
<1> QED BY <1>5, <1>6, <1>7 DEF l

(* The first descriptor is copied over the terminator.                     *)
LEMMA PutCopyKeeps ==
    ASSUME IInv, PutCopy, UNCHANGED upVars
    PROVE  IInv'
<1> DEFINE v == Last(xmited)
           h == Holder
           n == Entered
<1>1. /\ pc = "copy" /\ pc' = "own" /\ mem' = [mem EXCEPT ![term] = put.tdesc]
      /\ UNCHANGED <<vd, head, term, put, isr, hw, intr, xmited, vb, read, ndone, wire>>
  BY DEF PutCopy, upVars
<1>2. Putting /\ Swapped /\ Putting' /\ Swapped'
  BY <1>1 DEF Putting, Swapped
<1>3. Holder' = h /\ Entered' = n /\ Spare' = Spare
  BY <1>1, <1>2 DEF Holder, Entered, Spare
<1>4. SwappedPut(mem, h, v, put, term) /\ Spare = put.first
  BY <1>2 DEF IInv, PutLinked, Spare
<1>5. v \in Vbufs /\ \A j \in 1..n : xmited[j] \in Vbufs /\ xmited[j] # v
  BY <1>2, PutFacts
<1>6. /\ mem \in [Descs -> HwDescs(Descs, Bufs)] /\ term \in Descs
      /\ put \in [first : Descs, tdesc : HwDescs(Descs, Bufs)]
  BY Basics
<1>7. PktLen[v] \in Nat /\ PktLen[v] >= 1
  BY <1>5, SegmentFacts
<1>8. /\ term = At(h, v, 1) /\ term # put.first /\ put.tdesc.own = "SW"
      /\ \A i \in 2..PktLen[v] : At(h, v, i) \in Descs /\ At(h, v, i) # term
      /\ \A j \in 1..n : \A i \in 1..PktLen[xmited[j]] : At(h, xmited[j], i) \in Descs /\ At(h, xmited[j], i) # term
  <2> HIDE DEF v, h, n
  <2>1. term = At(h, v, 1) /\ put.tdesc.own = "SW"
    BY <1>4 DEF SwappedPut
  <2>2. 1 \in 1..PktLen[v] /\ \A i \in 2..PktLen[v] : i \in 1..PktLen[v] /\ i # 1
    BY <1>7
  <2>3. /\ \A u \in Vbufs : \A i \in 1..PktLen[u] : At(h, u, i) \in Descs /\ At(h, u, i) # Spare
        /\ \A u, w \in Vbufs : \A i \in 1..PktLen[u], k \in 1..PktLen[w] :
             At(h, u, i) = At(h, w, k) => u = w /\ i = k
    BY Places DEF h
  <2> QED BY <1>4, <1>5, <2>1, <2>2, <2>3
<1> HIDE DEF v, h, n
<1>9. mem'[term] = put.tdesc /\ \A d \in Descs : d # term => mem'[d] = mem[d]
  BY <1>1, <1>6
<1>10. mem' \in [Descs -> HwDescs(Descs, Bufs)]
  BY <1>1, <1>6
<1>11. TypeInv'
  <2>1. QueueTypeOK(Descs, Bufs)'
    BY <1>1, <1>10 DEF IInv, TypeInv, QueueTypeOK
  <2> QED BY <1>1, <1>2, <1>3, <2>1 DEF IInv, TypeInv, n
<1>12. Carried(vd, Spare)' /\ (head = Begin(Holder, xmited, Entered, term, 1))'
       /\ EngineAt(hw, read, Holder, xmited, Entered, term, ndone)'
  BY <1>1, <1>3 DEF IInv, h, n
<1>13. QueueLinked(mem, Holder, xmited, Entered, term, ndone)'
  <2>1. QueueLinked(mem, h, xmited, n, term, ndone)
    BY DEF IInv, h, n
  <2>2. QueueLinked(mem', h, xmited, n, term, ndone)
    BY <1>8, <1>9, <2>1, QueueSame
  <2> QED BY <1>1, <1>3, <2>2
<1>14. PutLinked'
  <2>1. SwappedPut(mem', h, v, put, term)
    <3>1. mem'[put.first] = mem[put.first] /\ \A i \in 2..PktLen[v] : mem'[At(h, v, i)] = mem[At(h, v, i)]
      BY <1>6, <1>8, <1>9
    <3> QED BY <1>4, <3>1 DEF SwappedPut
  <2> QED BY <1>1, <1>3, <1>9, <2>1 DEF PutLinked, v, h
<1>15. IdleWhole'
  BY <1>1, <1>3 DEF IInv, IdleWhole, Idle, h
<1> QED BY <1>11, <1>12, <1>13, <1>14, <1>15 DEF IInv

(* The old terminator goes to the hardware: the packet is in the queue.    *)
LEMMA PutOwnKeeps ==
    ASSUME IInv, PutOwn, UNCHANGED upVars
    PROVE  IInv'
<1> DEFINE v == Last(xmited)
           h == Holder
           n == Entered
           f == put.first
<1>1. /\ pc = "own" /\ pc' = "trigger" /\ mem' = [mem EXCEPT ![term].own = "HW"] /\ term' = f
      /\ UNCHANGED <<vd, head, put, isr, hw, intr, xmited, vb, read, ndone, wire>>
  BY DEF PutOwn, upVars
<1>2. Putting /\ Swapped /\ ~Putting' /\ ~Swapped'
  BY <1>1 DEF Putting, Swapped
<1>3. v \in Vbufs /\ v = xmited[n + 1] /\ n + 1 = Len(xmited)
      /\ \A j \in 1..n : xmited[j] \in Vbufs /\ xmited[j] # v
  BY <1>2, PutFacts
<1>4. Holder' = h /\ Entered' = n + 1 /\ Spare' = Spare
  BY <1>1, <1>2, <1>3 DEF Holder, Entered, Spare
<1>5. SwappedPut(mem, h, v, put, term) /\ Spare = f /\ mem[term] = put.tdesc
  BY <1>1, <1>2 DEF IInv, PutLinked, Spare
<1>6. /\ mem \in [Descs -> HwDescs(Descs, Bufs)] /\ term \in Descs /\ f \in Descs
      /\ put \in [first : Descs, tdesc : HwDescs(Descs, Bufs)] /\ n \in Nat /\ ndone \in Nat /\ ndone <= n
  BY Basics
<1>7. PktLen[v] \in Nat /\ PktLen[v] >= 1
  BY <1>3, SegmentFacts
<1>8. /\ term = At(h, v, 1) /\ term # f
      /\ \A i \in 2..PktLen[v] : At(h, v, i) \in Descs /\ At(h, v, i) # term
      /\ \A j \in 1..n : \A i \in 1..PktLen[xmited[j]] : At(h, xmited[j], i) \in Descs /\ At(h, xmited[j], i) # term
  <2> HIDE DEF v, h, n, f
  <2>1. term = At(h, v, 1)
    BY <1>5 DEF SwappedPut
  <2>2. 1 \in 1..PktLen[v] /\ \A i \in 2..PktLen[v] : i \in 1..PktLen[v] /\ i # 1
    BY <1>7
  <2>3. /\ \A u \in Vbufs : \A i \in 1..PktLen[u] : At(h, u, i) \in Descs /\ At(h, u, i) # Spare
        /\ \A u, w \in Vbufs : \A i \in 1..PktLen[u], k \in 1..PktLen[w] :
             At(h, u, i) = At(h, w, k) => u = w /\ i = k
    BY Places DEF h
  <2> QED BY <1>3, <1>5, <2>1, <2>2, <2>3
<1>9. /\ \A d \in Descs : d # term => mem'[d] = mem[d]
      /\ mem'[term] = [mem[term] EXCEPT !.own = "HW"] /\ mem' \in [Descs -> HwDescs(Descs, Bufs)]
  BY <1>1, <1>6 DEF HwDescs, Owners
<1>10. TypeInv'
  <2>1. QueueTypeOK(Descs, Bufs)'
    BY <1>1, <1>6, <1>9 DEF IInv, TypeInv, QueueTypeOK
  <2>2. ndone <= n + 1
    BY <1>6
  <2> QED BY <1>1, <1>2, <1>4, <2>1, <2>2 DEF IInv, TypeInv
<1>11. Carried(vd, Spare)'
  BY <1>1, <1>4 DEF IInv
<1> HIDE DEF v, h, n, f
(* The packets begin where they did; the new one is the last.              *)
<1>12. /\ \A j \in 1..(n + 1) : Begin(h, xmited, n + 1, f, j) = Begin(h, xmited, n, term, j)
       /\ Begin(h, xmited, n + 1, f, n + 2) = f
  <2>1. \A j \in 1..(n + 1) : j <= n + 1 /\ (j <= n \/ j = n + 1) /\ ~(n + 1 <= n) /\ ~(n + 2 <= n + 1)
    BY <1>6
  <2> QED BY <1>3, <1>6, <1>8, <2>1 DEF Begin
<1>13. (head = Begin(Holder, xmited, Entered, term, 1))'
  <2>1. 1 \in 1..(n + 1)
    BY <1>6
  <2>2. head = Begin(h, xmited, n, term, 1)
    BY DEF IInv, h, n
  <2>3. head = Begin(h, xmited, n + 1, f, 1)
    BY <1>12, <2>1, <2>2
  <2> QED BY <1>1, <1>4, <2>3
<1>14. QueueLinked(mem, Holder, xmited, Entered, term, ndone)'
  <2>0. QueueLinked(mem, h, xmited, n, term, ndone)
    BY DEF IInv, h, n
  <2>1. mem'[f].own = "SW"
    BY <1>5, <1>6, <1>8, <1>9 DEF SwappedPut, f
  <2>2. ASSUME NEW j \in 1..n, NEW i \in 1..PktLen[xmited[j]]
        PROVE  /\ Segment(mem'[At(h, xmited[j], i)], h, xmited[j], i, Begin(h, xmited, n + 1, f, j + 1))
               /\ mem'[At(h, xmited[j], i)].own = IF j <= ndone THEN "SW" ELSE "HW"
    <3>1. mem'[At(h, xmited[j], i)] = mem[At(h, xmited[j], i)]
      BY <1>8, <1>9
    <3>2. j + 1 \in 1..(n + 1)
      BY <1>6
    <3>3. Begin(h, xmited, n + 1, f, j + 1) = Begin(h, xmited, n, term, j + 1)
      BY <1>12, <3>2
    <3> QED BY <2>0, <3>1, <3>3 DEF QueueLinked
  <2>3. ASSUME NEW i \in 1..PktLen[v]
        PROVE  /\ Segment(mem'[At(h, v, i)], h, v, i, f)
               /\ mem'[At(h, v, i)].own = "HW"
    <3>1. CASE i = 1
      <4>1. Segment(mem[term], h, v, 1, f)
        BY <1>5 DEF SwappedPut, f
      <4>2. mem[term] \in HwDescs(Descs, Bufs)
        BY <1>6
      <4> DEFINE a == mem[term]
                 b == mem'[term]
      <4>3. b = [a EXCEPT !.own = "HW"]
        BY <1>9
      <4> HIDE DEF a, b
      <4>4. b.own = "HW" /\ b.ls = a.ls /\ b.data = a.data /\ b.next = a.next /\ b.last = a.last
        BY <4>2, <4>3 DEF HwDescs, a
      <4>5. Segment(b, h, v, 1, f)
        BY <4>1, <4>4, Zenon DEF Segment, a
      <4> QED BY <1>8, <3>1, <4>4, <4>5 DEF b
    <3>2. CASE i # 1
      <4>1. i \in 2..PktLen[v]
        BY <1>7, <3>2
      <4>2. mem'[At(h, v, i)] = mem[At(h, v, i)]
        BY <1>8, <1>9, <4>1
      <4> QED BY <1>5, <4>1, <4>2 DEF SwappedPut, f
    <3> QED BY <3>1, <3>2
  <2>4. ASSUME NEW j \in 1..(n + 1), NEW i \in 1..PktLen[xmited[j]]
        PROVE  /\ Segment(mem'[At(h, xmited[j], i)], h, xmited[j], i, Begin(h, xmited, n + 1, f, j + 1))
               /\ mem'[At(h, xmited[j], i)].own = IF j <= ndone THEN "SW" ELSE "HW"
    <3>1. CASE j \in 1..n
      BY <2>2, <3>1
    <3>2. CASE j = n + 1
      <4>1. Begin(h, xmited, n + 1, f, j + 1) = f /\ ~(j <= ndone)
        <5>1. j + 1 = n + 2 /\ ~(j <= ndone)
          BY <1>6, <3>2
        <5> QED BY <1>12, <5>1
      <4> QED BY <1>3, <2>3, <3>2, <4>1
    <3>3. j \in 1..n \/ j = n + 1
      BY <1>6
    <3> QED BY <3>1, <3>2, <3>3
  <2>5. QueueLinked(mem', h, xmited, n + 1, f, ndone)
    BY <2>1, <2>4 DEF QueueLinked
  <2> QED BY <1>1, <1>4, <2>5
<1>15. PutLinked'
  BY <1>1, <1>2 DEF PutLinked
<1>16. EngineAt(hw, read, Holder, xmited, Entered, term, ndone)'
  <2>0. EngineAt(hw, read, h, xmited, n, term, ndone)
    BY DEF IInv, h, n
  <2>1. ndone < n + 1
    BY <1>6
  <2>2. CASE ndone < n
    BY <1>1, <1>4, <2>0, <2>1, <2>2 DEF EngineAt
  <2>3. CASE ~(ndone < n)
    <3>1. ndone = n /\ xmited[ndone + 1] = v
      BY <1>3, <1>6, <2>3
    <3> DEFINE z == << >>
    <3>2. hw.cur = term /\ hw.got = z /\ read = z
      BY <2>0, <2>3 DEF EngineAt
    <3>3. Len(z) = 0 /\ Len(z) + 1 = 1 /\ z = [i \in 1..0 |-> At(h, v, i)] /\ z = [i \in 1..0 |-> <<v, i>>]
      OBVIOUS
    <3> HIDE DEF z
    <3>4. EngineAt(hw, read, h, xmited, n + 1, f, ndone)
      BY <1>7, <1>8, <2>1, <3>1, <3>2, <3>3 DEF EngineAt
    <3> QED BY <1>1, <1>4, <3>4
  <2> QED BY <2>2, <2>3
<1>17. IdleWhole'
  BY <1>1, <1>4 DEF IInv, IdleWhole, Idle, h
<1> QED BY <1>10, <1>11, <1>13, <1>14, <1>15, <1>16, <1>17 DEF IInv
----------------------------------------------------------------------------
(* The engine.                                                             *)

(* A descriptor of its own is one of the first packet it has not sent.     *)
LEMMA EngineFacts ==
    ASSUME IInv, mem[hw.cur].own = "HW"
    PROVE  LET v == xmited[ndone + 1]
               k == Len(hw.got)
               e == Begin(Holder, xmited, Entered, term, ndone + 2)
           IN  /\ ndone < Entered /\ ndone + 1 \in 1..Entered /\ v \in Vbufs
               /\ k \in Nat /\ k + 1 \in 1..PktLen[v] /\ hw.cur = At(Holder, v, k + 1)
               /\ hw.got = [i \in 1..k |-> At(Holder, v, i)] /\ read = [i \in 1..k |-> <<v, i>>]
               /\ Segment(mem[hw.cur], Holder, v, k + 1, e)
<1> DEFINE v == xmited[ndone + 1]
           k == Len(hw.got)
           h == Holder
           n == Entered
           e == Begin(h, xmited, n, term, ndone + 2)
<1>1. EngineAt(hw, read, h, xmited, n, term, ndone) /\ QueueLinked(mem, h, xmited, n, term, ndone)
  BY DEF IInv
<1>2. /\ n \in Nat /\ ndone \in Nat /\ n <= Len(xmited) /\ Len(xmited) \in Nat
      /\ \A j \in 1..Len(xmited) : xmited[j] \in Vbufs
  BY Basics
<1>3. k \in Nat
  <2>1. hw \in [cur : Descs, got : Seq(Descs), start : BOOLEAN]
    BY Basics
  <2> QED BY <2>1
<1>4. ndone < n
  <2> SUFFICES ASSUME ~(ndone < n) PROVE FALSE
    OBVIOUS
  <2>1. hw.cur = term
    BY <1>1 DEF EngineAt
  <2>2. mem[term].own = "SW"
    BY <1>1 DEF QueueLinked
  <2> QED BY <2>1, <2>2
<1>5. k < PktLen[v] /\ hw.cur = At(h, v, k + 1)
      /\ hw.got = [i \in 1..k |-> At(h, v, i)] /\ read = [i \in 1..k |-> <<v, i>>]
  BY <1>1, <1>4 DEF EngineAt
<1> HIDE DEF k, h, n
<1>6. ndone + 1 \in 1..n /\ ndone + 1 \in 1..Len(xmited) /\ (ndone + 1) + 1 = ndone + 2
  BY <1>2, <1>4
<1>7. v \in Vbufs
  BY <1>2, <1>6
<1>8. PktLen[v] \in Nat
  BY <1>7, SegmentFacts
<1>9. k + 1 \in 1..PktLen[v]
  BY <1>3, <1>5, <1>8
<1>10. Segment(mem[At(h, v, k + 1)], h, v, k + 1, Begin(h, xmited, n, term, (ndone + 1) + 1))
  BY <1>1, <1>6, <1>9 DEF QueueLinked
<1>11. Segment(mem[hw.cur], h, v, k + 1, e)
  BY <1>5, <1>6, <1>10
<1> QED BY <1>3, <1>4, <1>5, <1>6, <1>7, <1>9, <1>11 DEF k, h, n

(* A function of 1..k, by one longer.                                      *)
LEMMA AppendTo ==
    ASSUME NEW S, NEW k \in Nat, NEW F \in [1..(k + 1) -> S]
    PROVE  /\ Append([i \in 1..k |-> F[i]], F[k + 1]) = [i \in 1..(k + 1) |-> F[i]]
           /\ Len([i \in 1..k |-> F[i]]) = k /\ Len([i \in 1..(k + 1) |-> F[i]]) = k + 1
           /\ [i \in 1..(k + 1) |-> F[i]] \in Seq(S) /\ [i \in 1..k |-> F[i]] \in Seq(S)
<1>1. \A i \in 1..k : i \in 1..(k + 1)
  OBVIOUS
<1>2. [i \in 1..k |-> F[i]] \in Seq(S) /\ [i \in 1..(k + 1) |-> F[i]] \in Seq(S)
  BY <1>1
<1>3. Len([i \in 1..k |-> F[i]]) = k /\ Len([i \in 1..(k + 1) |-> F[i]]) = k + 1
  BY <1>2
<1> QED BY <1>1, <1>2, <1>3

(* What the engine has of a packet, one descriptor on.                     *)
LEMMA OneMore ==
    ASSUME IInv, NEW v \in Vbufs, NEW k \in Nat, k + 1 \in 1..PktLen[v]
    PROVE  /\ Append([i \in 1..k |-> At(Holder, v, i)], At(Holder, v, k + 1)) = [i \in 1..(k + 1) |-> At(Holder, v, i)]
           /\ Append([i \in 1..k |-> <<v, i>>], <<v, k + 1>>) = [i \in 1..(k + 1) |-> <<v, i>>]
           /\ Len([i \in 1..(k + 1) |-> At(Holder, v, i)]) = k + 1
           /\ [i \in 1..(k + 1) |-> At(Holder, v, i)] \in Seq(Descs)
           /\ ToSet([i \in 1..(k + 1) |-> At(Holder, v, i)]) = {At(Holder, v, i) : i \in 1..(k + 1)}
<1> DEFINE F == [i \in 1..(k + 1) |-> At(Holder, v, i)]
           G == [i \in 1..(k + 1) |-> <<v, i>>]
<1>1. PktLen[v] \in Nat
  BY SegmentFacts
<1>2. \A i \in 1..(k + 1) : i \in 1..PktLen[v]
  BY <1>1
<1>3. \A i \in 1..(k + 1) : At(Holder, v, i) \in Descs /\ <<v, i>> \in Bufs
  BY <1>2, Places, SegmentFacts
<1>4. F \in [1..(k + 1) -> Descs] /\ G \in [1..(k + 1) -> Bufs]
  BY <1>3
<1>5. \A i \in 1..(k + 1) : F[i] = At(Holder, v, i) /\ G[i] = <<v, i>>
  OBVIOUS
<1>6. k + 1 \in 1..(k + 1) /\ \A i \in 1..k : i \in 1..(k + 1)
  OBVIOUS
<1>7. [i \in 1..k |-> F[i]] = [i \in 1..k |-> At(Holder, v, i)] /\ F[k + 1] = At(Holder, v, k + 1)
      /\ [i \in 1..k |-> G[i]] = [i \in 1..k |-> <<v, i>>] /\ G[k + 1] = <<v, k + 1>>
  BY <1>5, <1>6
<1>8. [i \in 1..(k + 1) |-> F[i]] = F /\ [i \in 1..(k + 1) |-> G[i]] = G
  OBVIOUS
<1>9. ToSet(F) = {At(Holder, v, i) : i \in 1..(k + 1)}
  BY DEF ToSet
<1> HIDE DEF F, G
<1>10. Append([i \in 1..k |-> F[i]], F[k + 1]) = F /\ Len(F) = k + 1 /\ F \in Seq(Descs)
  BY <1>4, <1>8, AppendTo
<1>11. Append([i \in 1..k |-> G[i]], G[k + 1]) = G
  BY <1>4, <1>8, AppendTo
<1> QED BY <1>7, <1>9, <1>10, <1>11 DEF F, G

(* The engine goes on to the next descriptor of the packet.                *)
LEMMA HwReadKeeps ==
    ASSUME IInv, HwRead
    PROVE  IInv'
<1> DEFINE v == xmited[ndone + 1]
           k == Len(hw.got)
           h == Holder
           n == Entered
           e == Begin(h, xmited, n, term, ndone + 2)
           c == mem[hw.cur]
<1>1. /\ ~c.ls /\ c.own = "HW" /\ hw' = [hw EXCEPT !.cur = c.next, !.got = Append(@, hw.cur)]
      /\ read' = Append(read, c.data)
      /\ UNCHANGED <<mem, vd, head, term, pc, put, isr, intr, xmited, vb, ndone, wire>>
  BY DEF HwRead, HwFetch, HwOwns
<1>2. /\ ndone < n /\ v \in Vbufs /\ k \in Nat /\ k + 1 \in 1..PktLen[v] /\ hw.cur = At(h, v, k + 1)
      /\ hw.got = [i \in 1..k |-> At(h, v, i)] /\ read = [i \in 1..k |-> <<v, i>>]
      /\ Segment(c, h, v, k + 1, e)
  BY <1>1, EngineFacts
<1>3. Holder' = h /\ Entered' = n /\ Spare' = Spare /\ Putting' = Putting /\ Swapped' = Swapped
  BY <1>1 DEF Holder, Entered, Spare, Putting, Swapped
<1>4. hw \in [cur : Descs, got : Seq(Descs), start : BOOLEAN]
  BY Basics
<1> DEFINE G == [i \in 1..(k + 1) |-> At(h, v, i)]
           R == [i \in 1..(k + 1) |-> <<v, i>>]
<1>5. /\ Append(hw.got, hw.cur) = G /\ Append(read, <<v, k + 1>>) = R /\ Len(G) = k + 1 /\ G \in Seq(Descs)
  BY <1>2, OneMore
<1> HIDE DEF v, k, h, n, e, c, G, R
<1>6. PktLen[v] \in Nat
  BY <1>2, SegmentFacts
<1>7. c.data = <<v, k + 1>> /\ k + 1 # PktLen[v]
  BY <1>1, <1>2 DEF Segment
<1>8. k + 1 < PktLen[v] /\ (k + 1) + 1 \in 1..PktLen[v]
  BY <1>2, <1>6, <1>7
<1>9. c.next = At(h, v, (k + 1) + 1)
  BY <1>2, <1>8 DEF Segment
<1>10. At(h, v, (k + 1) + 1) \in Descs
  BY <1>2, <1>8, Places DEF h
<1>11. hw' = [cur |-> At(h, v, (k + 1) + 1), got |-> G, start |-> hw.start]
  BY <1>1, <1>4, <1>5, <1>9 DEF c
<1>12. hw' \in [cur : Descs, got : Seq(Descs), start : BOOLEAN]
       /\ hw'.cur = At(h, v, (k + 1) + 1) /\ hw'.got = G
  BY <1>4, <1>5, <1>10, <1>11
<1>13. EngineAt(hw', R, h, xmited, n, term, ndone)
  <2>1. Len(hw'.got) = k + 1
    BY <1>5, <1>12
  <2> QED BY <1>2, <1>8, <1>12, <2>1, Zenon DEF EngineAt, G, R, v
<1>14. EngineAt(hw, read, Holder, xmited, Entered, term, ndone)'
  BY <1>1, <1>3, <1>5, <1>7, <1>13
<1>15. TypeInv'
  <2>1. ToSet(hw'.got) \subseteq Descs
    BY <1>12 DEF ToSet
  <2>2. QueueTypeOK(Descs, Bufs)'
    BY <1>1, <1>12, <2>1 DEF IInv, TypeInv, QueueTypeOK
  <2> QED BY <1>1, <1>3, <1>12, <2>2 DEF IInv, TypeInv, n
<1>16. Carried(vd, Spare)' /\ (head = Begin(Holder, xmited, Entered, term, 1))'
       /\ QueueLinked(mem, Holder, xmited, Entered, term, ndone)'
  BY <1>1, <1>3 DEF IInv, h, n
<1>17. PutLinked'
  BY <1>1, <1>3 DEF IInv, PutLinked, h
<1>18. IdleWhole'
  BY <1>1, <1>3 DEF IInv, IdleWhole, Idle, h
<1> QED BY <1>14, <1>15, <1>16, <1>17, <1>18 DEF IInv

(* The packets of the queue keep away from the terminator and from the     *)
(* packet being put.                                                       *)
LEMMA QueueApart ==
    ASSUME IInv, NEW j \in 1..Entered, NEW i \in 1..PktLen[xmited[j]]
    PROVE  /\ xmited[j] \in Vbufs /\ At(Holder, xmited[j], i) \in Descs
           /\ At(Holder, xmited[j], i) # term
           /\ Swapped => At(Holder, xmited[j], i) # put.first
           /\ Putting => \A k \in 1..PktLen[Last(xmited)] : At(Holder, xmited[j], i) # At(Holder, Last(xmited), k)
<1> DEFINE v == xmited[j]
           h == Holder
<1>1. v \in Vbufs
  <2>1. Entered \in Nat /\ Len(xmited) \in Nat /\ Entered <= Len(xmited) /\ \A k \in 1..Len(xmited) : xmited[k] \in Vbufs
    BY Basics
  <2> QED BY <2>1
<1>2. /\ \A u \in Vbufs : \A k \in 1..PktLen[u] : At(h, u, k) \in Descs /\ At(h, u, k) # Spare
      /\ \A u, w \in Vbufs : \A l \in 1..PktLen[u], k \in 1..PktLen[w] :
           At(h, u, l) = At(h, w, k) => u = w /\ l = k
  BY Places
<1>3. Putting => Last(xmited) \in Vbufs /\ v # Last(xmited)
  BY PutFacts
<1> HIDE DEF v, h
<1>4. Putting => \A k \in 1..PktLen[Last(xmited)] : At(h, v, i) # At(h, Last(xmited), k)
  BY <1>1, <1>2, <1>3 DEF v
<1>5. Swapped => At(h, v, i) # put.first
  BY <1>1, <1>2 DEF Spare, v
<1>6. At(h, v, i) # term
  <2>1. CASE Swapped
    <3>1. Putting /\ term = At(h, Last(xmited), 1)
      BY <2>1 DEF IInv, PutLinked, SwappedPut, Swapped, Putting, h
    <3>2. 1 \in 1..PktLen[Last(xmited)]
      BY <1>3, <3>1, SegmentFacts
    <3> QED BY <1>4, <3>1, <3>2
  <2>2. CASE ~Swapped
    BY <1>1, <1>2, <2>2 DEF Spare, v
  <2> QED BY <2>1, <2>2
<1> QED BY <1>1, <1>2, <1>4, <1>5, <1>6 DEF v, h

(* A descriptor the engine gives back: all but the ownership stays.        *)
LEMMA GivenBack ==
    ASSUME NEW m \in HwDescs(Descs, Bufs)
    PROVE  LET w == [m EXCEPT !.own = "SW"]
           IN  /\ w \in HwDescs(Descs, Bufs) /\ w.own = "SW"
               /\ \A h, v, i, e : Segment(m, h, v, i, e) => Segment(w, h, v, i, e)
<1> DEFINE w == [m EXCEPT !.own = "SW"]
<1>1. w \in HwDescs(Descs, Bufs) /\ w.own = "SW" /\ w.ls = m.ls /\ w.data = m.data /\ w.next = m.next /\ w.last = m.last
  BY DEF HwDescs, Owners
<1> HIDE DEF w
<1>2. \A h, v, i, e : Segment(m, h, v, i, e) => Segment(w, h, v, i, e)
  BY <1>1, SMT DEF Segment
<1>3. /\ w \in HwDescs(Descs, Bufs) /\ w.own = "SW"
      /\ \A h, v, i, e : Segment(m, h, v, i, e) => Segment(w, h, v, i, e)
  BY <1>1, <1>2
<1> QED BY <1>3 DEF w

(* With its last descriptor the packet is sent, and the engine is at the   *)
(* beginning of the next or at the terminator.                             *)
LEMMA HwSendFacts ==
    ASSUME IInv, HwSend
    PROVE  LET v == xmited[ndone + 1]
               D == {At(Holder, v, i) : i \in 1..PktLen[v]}
           IN  /\ ndone < Entered /\ ndone + 1 \in 1..Entered /\ v \in Vbufs
               /\ mem' = [d \in Descs |-> IF d \in D THEN [mem[d] EXCEPT !.own = "SW"] ELSE mem[d]]
               /\ hw' = [cur |-> Begin(Holder, xmited, Entered, term, ndone + 2), got |-> << >>, start |-> hw.start]
               /\ wire' = [i \in 1..PktLen[v] |-> <<v, i>>] /\ read' = << >> /\ ndone' = ndone + 1
               /\ intr' = TRUE /\ UNCHANGED <<vd, head, term, pc, put, isr, xmited, vb>>
<1> DEFINE v == xmited[ndone + 1]
           k == Len(hw.got)
           h == Holder
           n == Entered
           e == Begin(h, xmited, n, term, ndone + 2)
           c == mem[hw.cur]
           S == ToSet(hw.got) \cup {hw.cur}
           D == {At(h, v, i) : i \in 1..PktLen[v]}
           z == << >>
<1>1. /\ c.ls /\ c.own = "HW"
      /\ mem' = [d \in DOMAIN mem |-> IF d \in S THEN [mem[d] EXCEPT !.own = "SW"] ELSE mem[d]]
      /\ hw' = [hw EXCEPT !.cur = c.next, !.got = z] /\ intr' = TRUE
      /\ wire' = Append(read, c.data) /\ read' = z /\ ndone' = ndone + 1
      /\ UNCHANGED <<vd, head, term, pc, put, isr, xmited, vb>>
  BY DEF HwSend, HwFinish, HwOwns
<1>2. /\ ndone < n /\ ndone + 1 \in 1..n /\ v \in Vbufs /\ k \in Nat /\ k + 1 \in 1..PktLen[v] /\ hw.cur = At(h, v, k + 1)
      /\ hw.got = [i \in 1..k |-> At(h, v, i)] /\ read = [i \in 1..k |-> <<v, i>>]
      /\ Segment(c, h, v, k + 1, e)
  BY <1>1, EngineFacts
<1>3. hw \in [cur : Descs, got : Seq(Descs), start : BOOLEAN] /\ DOMAIN mem = Descs
  BY Basics
<1> HIDE DEF v, k, h, n, e, c, z
<1>4. c.data = <<v, k + 1>> /\ k + 1 = PktLen[v] /\ c.next = e
  <2>1. c.data = <<v, k + 1>> /\ k + 1 = PktLen[v]
    BY <1>1, <1>2 DEF Segment
  <2>2. ~(k + 1 < PktLen[v])
    BY <1>2, <2>1
  <2> QED BY <1>2, <2>1, <2>2 DEF Segment
<1>5. wire' = [i \in 1..PktLen[v] |-> <<v, i>>]
  <2>1. Append(read, <<v, k + 1>>) = [i \in 1..(k + 1) |-> <<v, i>>]
    BY <1>2, OneMore
  <2> QED BY <1>1, <1>4, <2>1
<1>6. S = D
  <2>1. \A i \in 1..(k + 1) : i \in 1..k \/ i = k + 1
    BY <1>2
  <2>2. \A i \in 1..k : i \in 1..(k + 1)
    BY <1>2
  <2>3. ToSet(hw.got) = {At(h, v, i) : i \in 1..k}
    BY <1>2 DEF ToSet
  <2> QED BY <1>2, <1>4, <2>1, <2>2, <2>3
<1>7. hw' = [cur |-> e, got |-> z, start |-> hw.start]
  BY <1>1, <1>3, <1>4
<1>8. mem' = [d \in Descs |-> IF d \in D THEN [mem[d] EXCEPT !.own = "SW"] ELSE mem[d]]
  BY <1>1, <1>3, <1>6
<1> QED BY <1>1, <1>2, <1>5, <1>7, <1>8, Zenon DEF v, h, n, e, z

(* The end of a transmission keeps the invariant.                          *)
LEMMA HwSendKeeps ==
    ASSUME IInv, HwSend
    PROVE  IInv'
<1> DEFINE v == xmited[ndone + 1]
           h == Holder
           n == Entered
           e == Begin(h, xmited, n, term, ndone + 2)
           D == {At(h, v, i) : i \in 1..PktLen[v]}
           z == << >>
<1>1. /\ ndone < n /\ ndone + 1 \in 1..n /\ v \in Vbufs
      /\ mem' = [d \in Descs |-> IF d \in D THEN [mem[d] EXCEPT !.own = "SW"] ELSE mem[d]]
      /\ hw' = [cur |-> e, got |-> z, start |-> hw.start]
      /\ read' = z /\ ndone' = ndone + 1
      /\ intr' = TRUE /\ UNCHANGED <<vd, head, term, pc, put, isr, xmited, vb>>
  BY HwSendFacts, Zenon
<1>2. Holder' = h /\ Entered' = n /\ Spare' = Spare /\ Putting' = Putting /\ Swapped' = Swapped
  BY <1>1 DEF Holder, Entered, Spare, Putting, Swapped
<1>3. /\ hw \in [cur : Descs, got : Seq(Descs), start : BOOLEAN] /\ n \in Nat /\ ndone \in Nat
      /\ mem \in [Descs -> HwDescs(Descs, Bufs)] /\ term \in Descs /\ Len(xmited) \in Nat /\ n <= Len(xmited)
      /\ \A j \in 1..Len(xmited) : xmited[j] \in Vbufs
      /\ \A j, l \in 1..Len(xmited) : xmited[j] = xmited[l] => j = l
  BY Basics
<1>4. z \in Seq(Descs) /\ Len(z) = 0 /\ ToSet(z) \subseteq Descs
      /\ \A u : z = [i \in 1..0 |-> At(h, u, i)] /\ z = [i \in 1..0 |-> <<u, i>>]
  BY DEF ToSet
<1>5. (\A d \in Descs : d \notin D => mem'[d] = mem[d])
      /\ (\A d \in D : d \in Descs => mem'[d] = [mem[d] EXCEPT !.own = "SW"])
  BY <1>1
<1>6. \A j \in 1..n : xmited[j] \in Vbufs /\ (xmited[j] = v => j = ndone + 1)
  <2>1. \A j \in 1..n : j \in 1..Len(xmited)
    BY <1>3
  <2> QED BY <1>1, <1>3, <2>1
<1>7. \A u \in Vbufs : u # v => \A i \in 1..PktLen[u] : At(h, u, i) \in Descs /\ At(h, u, i) \notin D
  BY <1>1, Places
<1>8. term \notin D /\ (Swapped => put.first \notin D)
      /\ (Putting => Last(xmited) \in Vbufs /\ Last(xmited) # v)
  <2>1. \A i \in 1..PktLen[v] : At(h, v, i) # term /\ (Swapped => At(h, v, i) # put.first)
    BY <1>1, QueueApart
  <2>2. Putting => Last(xmited) \in Vbufs /\ Last(xmited) # v
    BY <1>1, PutFacts
  <2> QED BY <2>1, <2>2
<1> HIDE DEF v, h, n, e, z, D
<1>9. mem' \in [Descs -> HwDescs(Descs, Bufs)]
  <2>1. ASSUME NEW d \in Descs
        PROVE  mem'[d] \in HwDescs(Descs, Bufs)
    <3>1. mem[d] \in HwDescs(Descs, Bufs)
      BY <1>3
    <3>2. [mem[d] EXCEPT !.own = "SW"] \in HwDescs(Descs, Bufs)
      BY <3>1, GivenBack
    <3>3. mem'[d] = IF d \in D THEN [mem[d] EXCEPT !.own = "SW"] ELSE mem[d]
      BY <1>1, Zenon
    <3> QED BY <3>1, <3>2, <3>3
  <2>2. DOMAIN mem' = Descs /\ mem' = [d \in Descs |-> mem'[d]]
    BY <1>1
  <2> QED BY <2>1, <2>2
<1>10. e \in Descs
  <2>1. CASE ndone + 2 <= n
    <3>1. ndone + 2 \in 1..n
      BY <1>3, <2>1
    <3>2. xmited[ndone + 2] \in Vbufs
      BY <1>6, <3>1
    <3>3. 1 \in 1..PktLen[xmited[ndone + 2]]
      BY <3>2, SegmentFacts
    <3>4. At(h, xmited[ndone + 2], 1) \in Descs
      BY <3>2, <3>3, Places DEF h
    <3> QED BY <2>1, <3>4 DEF Begin, e
  <2>2. CASE ~(ndone + 2 <= n)
    BY <1>3, <2>2 DEF Begin, e
  <2> QED BY <2>1, <2>2
<1>11. hw' \in [cur : Descs, got : Seq(Descs), start : BOOLEAN] /\ hw'.cur = e /\ hw'.got = z
  BY <1>1, <1>3, <1>4, <1>10
<1>12. TypeInv'
  <2>1. QueueTypeOK(Descs, Bufs)'
    BY <1>1, <1>4, <1>9, <1>11 DEF IInv, TypeInv, QueueTypeOK
  <2>2. ndone' \in Nat /\ ndone' <= n
    BY <1>1, <1>3
  <2> QED BY <1>1, <1>2, <1>11, <2>1, <2>2 DEF IInv, TypeInv
<1>13. Carried(vd, Spare)' /\ (head = Begin(Holder, xmited, Entered, term, 1))'
  BY <1>1, <1>2 DEF IInv, h, n
<1>14. QueueLinked(mem, Holder, xmited, Entered, term, ndone)'
  <2>0. QueueLinked(mem, h, xmited, n, term, ndone)
    BY DEF IInv, h, n
  <2>1. mem'[term].own = "SW"
    BY <1>3, <1>5, <1>8, <2>0 DEF QueueLinked
  <2>2. ASSUME NEW j \in 1..n, NEW i \in 1..PktLen[xmited[j]]
        PROVE  /\ Segment(mem'[At(h, xmited[j], i)], h, xmited[j], i, Begin(h, xmited, n, term, j + 1))
               /\ mem'[At(h, xmited[j], i)].own = IF j <= ndone + 1 THEN "SW" ELSE "HW"
    <3> DEFINE d == At(h, xmited[j], i)
    <3>0. d \in Descs
      BY <1>6, Places DEF h
    <3>1. Segment(mem[d], h, xmited[j], i, Begin(h, xmited, n, term, j + 1))
          /\ mem[d].own = IF j <= ndone THEN "SW" ELSE "HW"
      BY <2>0 DEF QueueLinked
    <3>2. CASE j = ndone + 1
      <4>1. d \in D /\ j <= ndone + 1
        BY <1>3, <3>2 DEF D, v
      <4>2. mem'[d] = [mem[d] EXCEPT !.own = "SW"]
        BY <1>5, <3>0, <4>1
      <4> HIDE DEF d
      <4>3. mem[d] \in HwDescs(Descs, Bufs)
        BY <1>3, <3>0
      <4>4. mem'[d].own = "SW" /\ Segment(mem'[d], h, xmited[j], i, Begin(h, xmited, n, term, j + 1))
        BY <3>1, <4>2, <4>3, GivenBack
      <4> QED BY <4>1, <4>4 DEF d
    <3>3. CASE j # ndone + 1
      <4>1. d \notin D
        BY <1>6, <1>7, <3>3
      <4>2. mem'[d] = mem[d]
        BY <1>5, <3>0, <4>1
      <4>3. j <= ndone <=> j <= ndone + 1
        BY <1>3, <3>3
      <4> QED BY <3>1, <4>2, <4>3
    <3> QED BY <3>2, <3>3
  <2>3. QueueLinked(mem', h, xmited, n, term, ndone + 1)
    BY <2>1, <2>2 DEF QueueLinked
  <2> QED BY <1>1, <1>2, <2>3
<1>15. PutLinked'
  <2> DEFINE u == Last(xmited)
  <2>1. Putting => \A i \in 1..PktLen[u] : mem'[At(h, u, i)] = mem[At(h, u, i)]
    BY <1>5, <1>7, <1>8
  <2>2. mem'[term] = mem[term]
    BY <1>3, <1>5, <1>8
  <2>3. pc = "link" => LinkedPut(mem', h, u, put.first)
    <3> SUFFICES ASSUME pc = "link" PROVE LinkedPut(mem', h, u, put.first)
      OBVIOUS
    <3>1. LinkedPut(mem, h, u, put.first) /\ Putting
      BY DEF IInv, PutLinked, h, Putting
    <3> QED BY <2>1, <3>1 DEF LinkedPut
  <2>4. Swapped => SwappedPut(mem', h, u, put, term)
    <3> SUFFICES ASSUME Swapped PROVE SwappedPut(mem', h, u, put, term)
      OBVIOUS
    <3>1. SwappedPut(mem, h, u, put, term) /\ Putting
      BY DEF IInv, PutLinked, h, Swapped, Putting
    <3>2. put.first \in Descs
      BY Basics
    <3>3. mem'[put.first] = mem[put.first]
      BY <1>5, <1>8, <3>2
    <3>4. PktLen[u] \in Nat
      BY <1>8, <3>1, SegmentFacts
    <3>5. \A i \in 2..PktLen[u] : mem'[At(h, u, i)] = mem[At(h, u, i)]
      BY <2>1, <3>1, <3>4
    <3> QED BY <3>1, <3>3, <3>5 DEF SwappedPut
  <2>5. pc = "own" => mem'[term] = put.tdesc
    BY <2>2 DEF IInv, PutLinked
  <2> QED BY <1>1, <1>2, <2>3, <2>4, <2>5 DEF PutLinked
<1>16. EngineAt(hw, read, Holder, xmited, Entered, term, ndone)'
  <2>1. EngineAt(hw', z, h, xmited, n, term, ndone + 1)
    <3>1. CASE ndone + 1 < n
      <4>1. ndone + 2 <= n /\ ndone + 2 \in 1..n /\ (ndone + 1) + 1 = ndone + 2
        BY <1>3, <3>1
      <4> DEFINE u == xmited[ndone + 2]
      <4>2. hw'.cur = At(h, u, 1)
        BY <1>11, <4>1 DEF Begin, e
      <4>3. PktLen[u] \in Nat /\ PktLen[u] >= 1
        BY <1>6, <4>1, SegmentFacts
      <4>4. 0 < PktLen[u] /\ Len(hw'.got) = 0 /\ 0 + 1 = 1
        BY <1>4, <1>11, <4>3
      <4>5. hw'.got = [i \in 1..0 |-> At(h, u, i)] /\ z = [i \in 1..0 |-> <<u, i>>]
        BY <1>4, <1>11
      <4> QED BY <3>1, <4>1, <4>2, <4>4, <4>5 DEF EngineAt
    <3>2. CASE ~(ndone + 1 < n)
      <4>1. ~(ndone + 2 <= n)
        BY <1>3, <3>2
      <4>2. e = term
        BY <4>1 DEF Begin, e
      <4> QED BY <1>11, <3>2, <4>2 DEF EngineAt, z
    <3> QED BY <3>1, <3>2
  <2> QED BY <1>1, <1>2, <2>1
<1>17. IdleWhole'
  BY <1>1, <1>2 DEF IInv, IdleWhole, Idle, h
<1> QED BY <1>12, <1>13, <1>14, <1>15, <1>16, <1>17 DEF IInv
----------------------------------------------------------------------------
(* The put begins.                                                         *)

(* Descriptor i of a chain that is linked and given to the hardware.       *)
Given(w, c, ls, i) ==
    [own |-> "HW", ls |-> ls /\ i = Len(c),
     last |-> IF i = 1 THEN Last(c) ELSE NULL,
     next |-> IF i < Len(c) THEN c[i + 1] ELSE NULL,
     data |-> w[c[i]]]

(* A chain linked and given to the hardware, and nothing else written.     *)
LEMMA GivenFacts ==
    ASSUME NEW m \in [Descs -> HwDescs(Descs, Bufs)], NEW w \in [Descs -> Bufs],
           NEW c \in Seq(Descs), IsInjective(c), NEW ls \in BOOLEAN
    PROVE  LET g == GiveToHw(Linked(m, w, c, ls), c)
           IN  /\ g \in [Descs -> HwDescs(Descs, Bufs)]
               /\ \A d \in Descs : d \notin ToSet(c) => g[d] = m[d]
               /\ \A i \in 1..Len(c) : g[c[i]] = Given(w, c, ls, i)
<1> DEFINE l == Linked(m, w, c, ls)
           g == GiveToHw(l, c)
<1>1. DOMAIN m = Descs /\ Len(c) \in Nat /\ DOMAIN c = 1..Len(c)
  OBVIOUS
<1>2. DOMAIN l = Descs
  BY <1>1 DEF Linked
<1>3. g = [d \in Descs |-> IF d \in ToSet(c) THEN [l[d] EXCEPT !.own = "HW"] ELSE l[d]]
  BY <1>2 DEF GiveToHw
<1>4. ASSUME NEW d \in Descs, d \notin ToSet(c)
      PROVE  g[d] = m[d]
  <2>1. l[d] = m[d]
    BY <1>1, <1>4, Zenon DEF Linked
  <2> HIDE DEF l
  <2> QED BY <1>3, <1>4, <2>1
<1>5. ASSUME NEW i \in 1..Len(c)
      PROVE  g[c[i]] = Given(w, c, ls, i) /\ Given(w, c, ls, i) \in HwDescs(Descs, Bufs)
  <2> DEFINE d == c[i]
             k == CHOOSE j \in DOMAIN c : c[j] = d
             a == (ls /\ i = Len(c))
             b == IF i = 1 THEN Last(c) ELSE NULL
             x == IF i < Len(c) THEN c[i + 1] ELSE NULL
             y == w[d]
  <2>1. d \in Descs /\ d \in ToSet(c)
    BY <1>1 DEF ToSet
  <2>2. k = i
    <3>1. k \in DOMAIN c /\ c[k] = c[i]
      BY <1>1
    <3> QED BY <1>1, <3>1 DEF IsInjective
  <2>3. l[d] = [own |-> "SW", ls |-> (ls /\ k = Len(c)), last |-> IF k = 1 THEN Last(c) ELSE NULL,
                next |-> IF k < Len(c) THEN c[k + 1] ELSE NULL, data |-> w[d]]
    BY <1>1, <2>1, Zenon DEF Linked
  <2> HIDE DEF k
  <2>4. l[d] = [own |-> "SW", ls |-> a, last |-> b, next |-> x, data |-> y]
    BY <2>2, <2>3, Zenon
  <2>5. b \in Descs \cup {NULL} /\ x \in Descs \cup {NULL} /\ y \in Bufs /\ a \in BOOLEAN
    <3>1. i < Len(c) => i + 1 \in 1..Len(c)
      BY <1>1
    <3>2. Len(c) \in 1..Len(c)
      BY <1>1
    <3> QED BY <2>1, <3>1, <3>2 DEF Last
  <2> HIDE DEF a, b, x, y, l
  <2>6. g[d] = [l[d] EXCEPT !.own = "HW"]
    BY <1>3, <2>1
  <2> HIDE DEF g
  <2>7. g[d] = [own |-> "HW", ls |-> a, last |-> b, next |-> x, data |-> y]
    BY <2>4, <2>6
  <2>8. [own |-> "HW", ls |-> a, last |-> b, next |-> x, data |-> y] \in HwDescs(Descs, Bufs)
    BY <2>5 DEF HwDescs, Owners
  <2>9. Given(w, c, ls, i) = [own |-> "HW", ls |-> a, last |-> b, next |-> x, data |-> y]
    BY Zenon DEF Given, a, b, x, y, d
  <2> QED BY <2>7, <2>8, <2>9
<1>6. g \in [Descs -> HwDescs(Descs, Bufs)]
  <2>1. \A d \in Descs : g[d] \in HwDescs(Descs, Bufs)
    <3> TAKE d \in Descs
    <3>1. CASE d \in ToSet(c)
      <4>1. PICK i \in 1..Len(c) : d = c[i]
        BY <1>1, <3>1 DEF ToSet
      <4> QED BY <1>5, <4>1
    <3>2. CASE d \notin ToSet(c)
      BY <1>4, <3>2
    <3> QED BY <3>1, <3>2
  <2>2. g = [d \in Descs |-> g[d]]
    BY <1>3
  <2> QED BY <2>1, <2>2
<1> HIDE DEF g
<1>7. /\ g \in [Descs -> HwDescs(Descs, Bufs)]
      /\ \A d \in Descs : d \notin ToSet(c) => g[d] = m[d]
      /\ \A i \in 1..Len(c) : g[c[i]] = Given(w, c, ls, i)
  BY <1>4, <1>5, <1>6
<1> QED BY <1>7 DEF g, l

(* The descriptors of a packet are a chain of different ones.              *)
LEMMA ChainFacts ==
    ASSUME IInv, NEW v \in Vbufs
    PROVE  /\ ChainOf(Holder, v) \in Seq(Descs) /\ IsInjective(ChainOf(Holder, v))
           /\ Len(ChainOf(Holder, v)) = PktLen[v] /\ DOMAIN ChainOf(Holder, v) = 1..PktLen[v]
           /\ \A i \in 1..PktLen[v] : ChainOf(Holder, v)[i] = At(Holder, v, i)
           /\ ToSet(ChainOf(Holder, v)) = {At(Holder, v, i) : i \in 1..PktLen[v]}
<1> DEFINE c == ChainOf(Holder, v)
<1>1. PktLen[v] \in Nat
  BY SegmentFacts
<1>2. \A i \in 1..PktLen[v] : At(Holder, v, i) \in Descs
  BY Places
<1>3. c = [i \in 1..PktLen[v] |-> At(Holder, v, i)]
  BY DEF ChainOf
<1>4. c \in Seq(Descs) /\ DOMAIN c = 1..PktLen[v]
  BY <1>1, <1>2, <1>3
<1>5. \A i \in 1..PktLen[v] : c[i] = At(Holder, v, i)
  BY <1>3
<1> HIDE DEF c
<1>6. Len(c) = PktLen[v]
  BY <1>1, <1>4
<1>7. IsInjective(c)
  BY <1>4, <1>5, Places DEF IsInjective
<1>8. ToSet(c) = {At(Holder, v, i) : i \in 1..PktLen[v]}
  BY <1>4, <1>5 DEF ToSet
<1> QED BY <1>4, <1>5, <1>6, <1>7, <1>8 DEF c

(* A VBUF that is not queued is linked and goes to the hardware, while the *)
(* queue and the terminator stay as they are.                              *)
LEMMA XmitKeeps ==
    ASSUME IInv, NEW v \in Vbufs, Xmit(v)
    PROVE  IInv'
<1> DEFINE h == Holder
           n == Entered
           c == ChainOf(h, v)
           L == PktLen[v]
           g == GiveToHw(Linked(mem, vd, c, TRUE), c)
<1>1. /\ Idle(v) /\ pc = "run" /\ pc' = "link" /\ xmited' = Append(xmited, v)
      /\ mem' = GiveToHw(Linked(mem, vd, vb[v], TRUE), vb[v]) /\ put' = [put EXCEPT !.first = vb[v][1]]
      /\ UNCHANGED <<vd, head, term, isr, hw, intr, vb, read, ndone>>
  BY DEF Xmit, PutBegin
<1>2. vb[v] = c
  BY <1>1 DEF IInv, IdleWhole
<1>3. mem' = g /\ put' = [put EXCEPT !.first = c[1]]
  BY <1>1, <1>2
<1>4. /\ vd \in [Descs -> Bufs] /\ mem \in [Descs -> HwDescs(Descs, Bufs)] /\ term \in Descs
      /\ put \in [first : Descs, tdesc : HwDescs(Descs, Bufs)] /\ xmited \in Seq(Vbufs) /\ Len(xmited) \in Nat
      /\ \A j \in 1..Len(xmited) : xmited[j] \in Vbufs
      /\ \A j, k \in 1..Len(xmited) : xmited[j] = xmited[k] => j = k
  BY Basics
<1>5. /\ c \in Seq(Descs) /\ IsInjective(c) /\ Len(c) = L
      /\ (\A i \in 1..L : c[i] = At(h, v, i)) /\ ToSet(c) = {At(h, v, i) : i \in 1..L}
  BY ChainFacts
<1>6. L \in Nat /\ L >= 1 /\ 1 \in 1..L /\ L \in 1..L
  BY SegmentFacts
<1> HIDE DEF c
<1>7. /\ g \in [Descs -> HwDescs(Descs, Bufs)]
      /\ \A d \in Descs : d \notin ToSet(c) => g[d] = mem[d]
      /\ \A i \in 1..Len(c) : g[c[i]] = Given(vd, c, TRUE, i)
  BY <1>4, <1>5, GivenFacts, ZenonT(60)
<1>8. n = Len(xmited) /\ Spare = term /\ ~Swapped
  BY <1>1 DEF Entered, Putting, Swapped, Spare
<1> HIDE DEF g
<1> DEFINE x == Append(xmited, v)
<1>9. /\ x \in Seq(Vbufs) /\ Len(x) = n + 1 /\ x[n + 1] = v /\ DOMAIN x = 1..(n + 1)
      /\ \A j \in 1..n : x[j] = xmited[j]
  BY <1>4, <1>8
<1>10. \A j \in 1..n : xmited[j] \in Vbufs /\ xmited[j] # v
  <2>1. DOMAIN xmited = 1..n
    BY <1>4, <1>8
  <2> QED BY <1>1, <1>4, <1>8, <2>1 DEF Idle, ToSet
<1> HIDE DEF x
<1>11. /\ Putting' /\ ~Swapped' /\ Holder' = h /\ Entered' = n /\ Spare' = Spare /\ xmited' = x
       /\ Last(xmited)' = v
  <2>1. Putting' /\ ~Swapped' /\ Holder' = h /\ Spare' = Spare /\ xmited' = x
    BY <1>1, <1>8 DEF Putting, Swapped, Holder, Spare, x
  <2>2. Len(x) - 1 = n /\ Last(x) = v
    BY <1>4, <1>8, <1>9 DEF Last
  <2> QED BY <2>1, <2>2 DEF Entered, Last
<1>12. n \in Nat /\ ndone \in Nat /\ ndone <= n
  BY Basics
<1> HIDE DEF h, n
(* No write meets the queue or the terminator.                             *)
<1>13. /\ \A u \in Vbufs : u # v => \A i \in 1..PktLen[u] : At(h, u, i) \in Descs /\ At(h, u, i) \notin ToSet(c)
       /\ term \notin ToSet(c) /\ \A i \in 1..L : At(h, v, i) \in Descs
  <2>1. /\ \A u \in Vbufs : \A k \in 1..PktLen[u] : At(h, u, k) \in Descs /\ At(h, u, k) # Spare
        /\ \A u, w \in Vbufs : \A l \in 1..PktLen[u], k \in 1..PktLen[w] :
             At(h, u, l) = At(h, w, k) => u = w /\ l = k
    BY Places DEF h
  <2> QED BY <1>5, <1>8, <2>1
<1>14. TypeInv'
  <2>1. put' \in [first : Descs, tdesc : HwDescs(Descs, Bufs)]
    BY <1>3, <1>4, <1>5, <1>6, <1>13
  <2>2. QueueTypeOK(Descs, Bufs)'
    BY <1>1, <1>3, <1>7, <2>1 DEF IInv, TypeInv, QueueTypeOK
  <2>3. IsInjective(x)
    <3>1. ASSUME NEW j \in 1..(n + 1), NEW k \in 1..(n + 1), x[j] = x[k]
          PROVE  j = k
      <4>1. (j \in 1..n \/ j = n + 1) /\ (k \in 1..n \/ k = n + 1)
        BY <1>12
      <4>2. \A i, l \in 1..n : xmited[i] = xmited[l] => i = l
        BY <1>4, <1>8 DEF n
      <4> QED BY <1>9, <1>10, <3>1, <4>1, <4>2
    <3> QED BY <1>9, <3>1 DEF IsInjective
  <2>4. Len(x) >= 1
    BY <1>9, <1>12
  <2> QED BY <1>1, <1>9, <1>11, <1>12, <2>2, <2>3, <2>4 DEF IInv, TypeInv
<1>15. Carried(vd, Spare)'
  BY <1>1, <1>11 DEF IInv
<1>16. \A j : j \in 1..(n + 1) => Begin(h, x, n, term, j) = Begin(h, xmited, n, term, j)
  <2>1. \A j \in 1..(n + 1) : j <= n => j \in 1..n
    BY <1>12
  <2> QED BY <1>9, <2>1 DEF Begin
<1>17. (head = Begin(Holder, xmited, Entered, term, 1))'
  <2>1. head = Begin(h, xmited, n, term, 1)
    BY DEF IInv, h, n
  <2>2. 1 \in 1..(n + 1)
    BY <1>12
  <2>3. head = Begin(h, x, n, term, 1)
    BY <1>16, <2>1, <2>2
  <2> QED BY <1>1, <1>11, <2>3
<1>18. QueueLinked(mem, Holder, xmited, Entered, term, ndone)'
  <2>0. QueueLinked(mem, h, xmited, n, term, ndone)
    BY DEF IInv, h, n
  <2>1. g[term].own = "SW"
    BY <1>4, <1>7, <1>13, <2>0 DEF QueueLinked
  <2>2. ASSUME NEW j \in 1..n, NEW i \in 1..PktLen[x[j]]
        PROVE  /\ Segment(g[At(h, x[j], i)], h, x[j], i, Begin(h, x, n, term, j + 1))
               /\ g[At(h, x[j], i)].own = IF j <= ndone THEN "SW" ELSE "HW"
    <3>1. x[j] = xmited[j] /\ xmited[j] \in Vbufs /\ xmited[j] # v
      BY <1>9, <1>10
    <3>2. g[At(h, xmited[j], i)] = mem[At(h, xmited[j], i)]
      BY <1>7, <1>13, <3>1
    <3>3. j + 1 \in 1..(n + 1)
      BY <1>12
    <3>4. Begin(h, x, n, term, j + 1) = Begin(h, xmited, n, term, j + 1)
      BY <1>16, <3>3
    <3> QED BY <2>0, <3>1, <3>2, <3>4 DEF QueueLinked
  <2>3. QueueLinked(g, h, x, n, term, ndone)
    BY <2>1, <2>2 DEF QueueLinked
  <2> QED BY <1>1, <1>3, <1>11, <2>3
<1>19. PutLinked'
  <2>1. ASSUME NEW i \in 1..L
        PROVE  Segment(g[At(h, v, i)], h, v, i, NULL) /\ g[At(h, v, i)].own = "HW"
    <3> DEFINE r == Given(vd, c, TRUE, i)
    <3>1. g[At(h, v, i)] = r
      BY <1>5, <1>7
    <3>2. r.own = "HW" /\ r.data = vd[c[i]]
      BY DEF Given
    <3>3. r.ls <=> i = Len(c)
      BY Zenon DEF Given
    <3>4. r.last = IF i = 1 THEN Last(c) ELSE NULL
      BY DEF Given
    <3>5. r.next = IF i < Len(c) THEN c[i + 1] ELSE NULL
      BY DEF Given
    <3> HIDE DEF r
    <3>6. r.data = <<v, i>>
      BY <1>5, <3>2, Places DEF h
    <3>7. i < L => i + 1 \in 1..L
      BY <1>6
    <3>8. r.next = IF i < L THEN At(h, v, i + 1) ELSE NULL
      BY <1>5, <3>5, <3>7
    <3>9. i = 1 => r.last = At(h, v, L)
      BY <1>5, <1>6, <3>4 DEF Last
    <3>10. r.ls <=> i = L
      BY <1>5, <3>3
    <3>11. Segment(r, h, v, i, NULL)
      BY <3>6, <3>8, <3>9, <3>10, Zenon DEF Segment
    <3> QED BY <3>1, <3>2, <3>11
  <2>2. put'.first = At(h, v, 1)
    BY <1>3, <1>4, <1>5, <1>6
  <2>3. LinkedPut(g, h, v, put'.first)
    BY <2>1, <2>2 DEF LinkedPut
  <2> QED BY <1>1, <1>3, <1>11, <2>3 DEF PutLinked
<1>20. EngineAt(hw, read, Holder, xmited, Entered, term, ndone)'
  <2>0. EngineAt(hw, read, h, xmited, n, term, ndone)
    BY DEF IInv, h, n
  <2>1. ndone < n => x[ndone + 1] = xmited[ndone + 1]
    BY <1>9, <1>12
  <2>2. EngineAt(hw, read, h, x, n, term, ndone)
    BY <2>0, <2>1, Zenon DEF EngineAt
  <2> QED BY <1>1, <1>11, <2>2
<1>21. IdleWhole'
  <2>1. \A u : u \notin ToSet(x) => u \notin ToSet(xmited)
    <3>1. DOMAIN xmited = 1..n /\ \A j \in 1..n : j \in 1..(n + 1)
      BY <1>4, <1>8, <1>12 DEF n
    <3> QED BY <1>9, <3>1 DEF ToSet
  <2> QED BY <1>1, <1>11, <2>1 DEF IInv, IdleWhole, Idle, h
<1> QED BY <1>14, <1>15, <1>17, <1>18, <1>19, <1>20, <1>21 DEF IInv
----------------------------------------------------------------------------
(* The exchange of the first descriptor with the terminator.               *)

(* VBUFs whose descriptors the exchange leaves alone.                      *)
LEMMA Elsewhere ==
    ASSUME NEW h, NEW h2, NEW u \in Vbufs, \A i \in 1..PktLen[u] : At(h2, u, i) = At(h, u, i)
    PROVE  /\ \A m, e : \A i \in 1..PktLen[u] : Segment(m, h, u, i, e) => Segment(m, h2, u, i, e)
           /\ ChainOf(h2, u) = ChainOf(h, u)
           /\ \A k \in Nat : k < PktLen[u] => [i \in 1..k |-> At(h2, u, i)] = [i \in 1..k |-> At(h, u, i)]
<1>1. PktLen[u] \in Nat /\ PktLen[u] >= 1
  BY SegmentFacts
<1>2. ASSUME NEW m, NEW e, NEW i \in 1..PktLen[u], Segment(m, h, u, i, e)
      PROVE  Segment(m, h2, u, i, e)
  <2>1. i < PktLen[u] => At(h2, u, i + 1) = At(h, u, i + 1)
    BY <1>1
  <2>2. At(h2, u, PktLen[u]) = At(h, u, PktLen[u])
    BY <1>1
  <2> QED BY <1>2, <2>1, <2>2, Zenon DEF Segment
<1>3. ChainOf(h2, u) = ChainOf(h, u)
  BY DEF ChainOf
<1>4. ASSUME NEW k \in Nat, k < PktLen[u]
      PROVE  [i \in 1..k |-> At(h2, u, i)] = [i \in 1..k |-> At(h, u, i)]
  <2>1. \A i \in 1..k : i \in 1..PktLen[u]
    BY <1>1, <1>4
  <2> QED BY <2>1
<1> QED BY <1>2, <1>3, <1>4

(* Two descriptors exchange what they carry.                               *)
LEMMA SwapFacts ==
    ASSUME NEW w \in [Descs -> Bufs], NEW t \in Descs, NEW f \in Descs, t # f, Carried(w, t)
    PROVE  /\ Swap(w, t, f) \in [Descs -> Bufs]
           /\ Swap(w, t, f)[t] = w[f] /\ Swap(w, t, f)[f] = NULL
           /\ \A d \in Descs : d # t /\ d # f => Swap(w, t, f)[d] = w[d]
           /\ Carried(Swap(w, t, f), f)
<1> DEFINE w2 == Swap(w, t, f)
<1>1. /\ w2 \in [Descs -> Bufs] /\ w2[t] = w[f] /\ w2[f] = w[t]
      /\ \A d \in Descs : d # t /\ d # f => w2[d] = w[d]
  BY DEF Swap
<1> HIDE DEF w2
<1>2. w[t] = NULL /\ \A d, e \in Descs : w[d] = w[e] => d = e
  BY DEF Carried
<1>3. \A b \in Bufs : \E d \in Descs : w2[d] = b
  <2> TAKE b \in Bufs
  <2>1. PICK d \in Descs : w[d] = b
    BY DEF Carried
  <2> QED BY <1>1, <2>1
<1>4. \A d, e \in Descs : w2[d] = w2[e] => d = e
  BY <1>1, <1>2
<1>5. Carried(w2, f)
  BY <1>1, <1>2, <1>3, <1>4 DEF Carried
<1> QED BY <1>1, <1>2, <1>5 DEF w2

(* The descriptors after "close the ring", "only one descriptor" and the   *)
(* copy: of the packet of v, at f, with the last at z.                     *)
LEMMA ClosedFacts ==
    ASSUME NEW m \in [Descs -> HwDescs(Descs, Bufs)], NEW f \in Descs, NEW z \in Descs, NEW t \in Descs,
           m[f].last = z
    PROVE  LET c == SingleLast(CloseRing(m, f), f, t)
           IN  /\ c \in [Descs -> HwDescs(Descs, Bufs)]
               /\ \A d \in Descs : d # f /\ d # z => c[d] = m[d]
               /\ c[f].data = m[f].data /\ c[f].ls = m[f].ls
               /\ c[f].last = (IF z = f THEN t ELSE z)
               /\ c[f].next = (IF z = f THEN f ELSE m[f].next)
               /\ z # f => c[z] = [m[z] EXCEPT !.next = f]
<1> DEFINE r == CloseRing(m, f)
           y == [m[z] EXCEPT !.next = f]
           c == SingleLast(r, f, t)
<1>1. y \in HwDescs(Descs, Bufs) /\ y.next = f /\ y.data = m[z].data /\ y.ls = m[z].ls /\ y.last = m[z].last
  BY DEF HwDescs
<1>2. r = [m EXCEPT ![z] = y]
  BY DEF CloseRing
<1> HIDE DEF y
<1>3. r \in [Descs -> HwDescs(Descs, Bufs)] /\ r[z] = y /\ \A d \in Descs : d # z => r[d] = m[d]
  BY <1>1, <1>2
<1> HIDE DEF r
<1>4. r[f].last = z
  BY <1>1, <1>3
<1>5. CASE z # f
  <2>1. c = r
    BY <1>4, <1>5 DEF SingleLast
  <2>2. r[f] = m[f]
    BY <1>3, <1>5
  <2> HIDE DEF c
  <2>3. /\ c \in [Descs -> HwDescs(Descs, Bufs)]
        /\ \A d \in Descs : d # f /\ d # z => c[d] = m[d]
        /\ c[f].data = m[f].data /\ c[f].ls = m[f].ls
        /\ c[f].last = z /\ c[f].next = m[f].next /\ c[z] = [m[z] EXCEPT !.next = f]
    BY <1>3, <2>1, <2>2 DEF y
  <2> QED BY <1>5, <2>3 DEF c, r
<1>6. CASE z = f
  <2> DEFINE q == [y EXCEPT !.last = t]
  <2>1. q \in HwDescs(Descs, Bufs) /\ q.next = f /\ q.data = m[f].data /\ q.ls = m[f].ls /\ q.last = t
    BY <1>1, <1>6 DEF HwDescs
  <2>2. c = [r EXCEPT ![f] = q]
    BY <1>3, <1>4, <1>6 DEF SingleLast
  <2> HIDE DEF q, c
  <2>3. c \in [Descs -> HwDescs(Descs, Bufs)] /\ c[f] = q /\ \A d \in Descs : d # f => c[d] = m[d]
    BY <1>3, <1>6, <2>1, <2>2
  <2>4. /\ c \in [Descs -> HwDescs(Descs, Bufs)]
        /\ \A d \in Descs : d # f /\ d # z => c[d] = m[d]
        /\ c[f].data = m[f].data /\ c[f].ls = m[f].ls /\ c[f].last = t /\ c[f].next = f
    BY <2>1, <2>3
  <2> QED BY <1>6, <2>4 DEF c, r
<1> QED BY <1>5, <1>6

(* The ring is closed and the buffers are exchanged: the packet's first    *)
(* segment is now carried by the terminator.                               *)
LEMMA PutLinkKeeps ==
    ASSUME IInv, PutLink(SingleLast(CloseRing(mem, put.first), put.first, term)), UNCHANGED upVars
    PROVE  IInv'
<1> DEFINE v == Last(xmited)
           h == Holder
           h2 == Holder'
           n == Entered
           f == put.first
           L == PktLen[v]
           z == At(h, v, L)
           c == SingleLast(CloseRing(mem, f), f, term)
           td == [c[f] EXCEPT !.own = "SW"]
<1>1. /\ pc = "link" /\ pc' = "copy" /\ put' = [put EXCEPT !.tdesc = td]
      /\ mem' = [c EXCEPT ![f].own = "SW"] /\ vd' = Swap(vd, term, f)
      /\ UNCHANGED <<head, term, isr, hw, intr, xmited, vb, read, ndone, wire>>
  BY DEF PutLink, upVars
<1>2. Putting /\ ~Swapped /\ Putting' /\ Swapped' /\ Spare = term
  BY <1>1 DEF Putting, Swapped, Spare
<1>3. v \in Vbufs /\ v = xmited[n + 1] /\ n + 1 = Len(xmited)
      /\ \A j \in 1..n : xmited[j] \in Vbufs /\ xmited[j] # v
  BY <1>2, PutFacts
<1>4. Entered' = n
  BY <1>1, <1>2 DEF Entered
<1>5. LinkedPut(mem, h, v, f)
  BY <1>1 DEF IInv, PutLinked
<1>6. /\ vd \in [Descs -> Bufs] /\ Carried(vd, term)
      /\ mem \in [Descs -> HwDescs(Descs, Bufs)] /\ term \in Descs /\ f \in Descs
      /\ put \in [first : Descs, tdesc : HwDescs(Descs, Bufs)] /\ n \in Nat /\ ndone \in Nat /\ ndone <= n
      /\ hw \in [cur : Descs, got : Seq(Descs), start : BOOLEAN]
  BY <1>2, Basics
<1>7. L \in Nat /\ L >= 1 /\ 1 \in 1..L /\ L \in 1..L
  BY <1>3, SegmentFacts
<1>8. f = At(h, v, 1) /\ mem[f].last = z /\ Segment(mem[f], h, v, 1, NULL)
  <2>1. f = At(h, v, 1) /\ Segment(mem[f], h, v, 1, NULL)
    BY <1>5, <1>7 DEF LinkedPut
  <2> QED BY <2>1, Zenon DEF Segment
<1>9. /\ \A u \in Vbufs : \A i \in 1..PktLen[u] :
           At(h, u, i) \in Descs /\ At(h, u, i) # term /\ vd[At(h, u, i)] = <<u, i>>
      /\ \A u, w \in Vbufs : \A i \in 1..PktLen[u], k \in 1..PktLen[w] :
           At(h, u, i) = At(h, w, k) => u = w /\ i = k
  BY <1>2, Places
<1>10. z \in Descs /\ f # term /\ vd[f] = <<v, 1>>
  BY <1>3, <1>7, <1>8, <1>9
(* The buffers: that of the first segment is at the old terminator.        *)
<1>11. /\ vd' \in [Descs -> Bufs] /\ vd'[term] = <<v, 1>> /\ vd'[f] = NULL
       /\ \A d \in Descs : d # term /\ d # f => vd'[d] = vd[d]
       /\ Carried(vd', f)
  BY <1>1, <1>6, <1>10, SwapFacts
<1>12. h2 = HolderOf(vd') /\ \A d \in Descs : HolderOf(vd')[vd'[d]] = d
  <2>1. h2 = HolderOf(vd')
    BY DEF Holder, HolderOf
  <2> QED BY <1>6, <1>11, <2>1, HolderFacts
<1>13. At(h2, v, 1) = term
  BY <1>6, <1>11, <1>12 DEF At
<1>14. ASSUME NEW u \in Vbufs, NEW i \in 1..PktLen[u], u # v \/ i # 1
       PROVE  At(h2, u, i) = At(h, u, i)
  <2>1. At(h, u, i) # f /\ At(h, u, i) # term /\ At(h, u, i) \in Descs
    BY <1>3, <1>7, <1>8, <1>9, <1>14
  <2>2. vd'[At(h, u, i)] = <<u, i>>
    BY <1>9, <1>11, <2>1
  <2>3. HolderOf(vd')[<<u, i>>] = At(h, u, i)
    BY <1>12, <2>1, <2>2
  <2>4. At(h2, u, i) = h2[<<u, i>>]
    BY DEF At
  <2> QED BY <1>12, <2>3, <2>4
<1> HIDE DEF v, h, h2, n, L, z, f
(* The descriptors.                                                        *)
<1>15. /\ c \in [Descs -> HwDescs(Descs, Bufs)]
       /\ \A d \in Descs : d # f /\ d # z => c[d] = mem[d]
       /\ c[f].data = mem[f].data /\ c[f].ls = mem[f].ls
       /\ c[f].last = (IF z = f THEN term ELSE z)
       /\ c[f].next = (IF z = f THEN f ELSE mem[f].next)
       /\ z # f => c[z] = [mem[z] EXCEPT !.next = f]
  BY <1>6, <1>8, <1>10, ClosedFacts, SMTT(60)
<1> HIDE DEF c
<1>16. /\ td \in HwDescs(Descs, Bufs) /\ td.own = "SW" /\ td.data = c[f].data /\ td.ls = c[f].ls
       /\ td.last = c[f].last /\ td.next = c[f].next
  <2>1. c[f] \in HwDescs(Descs, Bufs)
    BY <1>6, <1>15
  <2> QED BY <2>1 DEF HwDescs, Owners
<1>17. mem' = [c EXCEPT ![f] = td]
  BY <1>1, <1>6, <1>15
<1> HIDE DEF td
<1>18. /\ mem' \in [Descs -> HwDescs(Descs, Bufs)] /\ mem'[f] = td
       /\ \A d \in Descs : d # f /\ d # z => mem'[d] = mem[d]
       /\ z # f => mem'[z] = [mem[z] EXCEPT !.next = f]
  BY <1>6, <1>10, <1>15, <1>16, <1>17
<1>19. put' = [first |-> f, tdesc |-> td] /\ put' \in [first : Descs, tdesc : HwDescs(Descs, Bufs)]
       /\ put'.first = f /\ put'.tdesc = td
  BY <1>1, <1>6, <1>16 DEF f
<1>20. Spare' = f
  BY <1>2, <1>19 DEF Spare
<1>21. TypeInv'
  <2>1. QueueTypeOK(Descs, Bufs)'
    BY <1>1, <1>11, <1>18, <1>19 DEF IInv, TypeInv, QueueTypeOK
  <2> QED BY <1>1, <1>2, <1>4, <2>1 DEF IInv, TypeInv, n
<1>22. Carried(vd, Spare)'
  BY <1>11, <1>20
<1>23. \A j \in 1..n : At(h2, xmited[j], 1) = At(h, xmited[j], 1)
  <2>1. \A j \in 1..n : 1 \in 1..PktLen[xmited[j]]
    BY <1>3, SegmentFacts
  <2> QED BY <1>3, <1>14, <2>1
<1>24. \A j \in 1..(n + 1) : Begin(h2, xmited, n, term, j) = Begin(h, xmited, n, term, j)
  <2>1. \A j \in 1..(n + 1) : j <= n => j \in 1..n
    BY <1>6
  <2> QED BY <1>23, <2>1 DEF Begin
<1>25. (head = Begin(Holder, xmited, Entered, term, 1))'
  <2>1. head = Begin(h, xmited, n, term, 1)
    BY DEF IInv, h, n
  <2>2. 1 \in 1..(n + 1)
    BY <1>6
  <2>3. head = Begin(h2, xmited, n, term, 1)
    BY <1>24, <2>1, <2>2
  <2> QED BY <1>1, <1>4, <2>3 DEF h2
<1>26. QueueLinked(mem, Holder, xmited, Entered, term, ndone)'
  <2>0. QueueLinked(mem, h, xmited, n, term, ndone)
    BY DEF IInv, h, n
  <2>1. mem'[term].own = "SW"
    <3>1. term # z
      BY <1>3, <1>7, <1>9 DEF z, L
    <3> QED BY <1>6, <1>10, <1>18, <2>0, <3>1 DEF QueueLinked
  <2>2. ASSUME NEW j \in 1..n, NEW i \in 1..PktLen[xmited[j]]
        PROVE  /\ Segment(mem'[At(h2, xmited[j], i)], h2, xmited[j], i, Begin(h2, xmited, n, term, j + 1))
               /\ mem'[At(h2, xmited[j], i)].own = IF j <= ndone THEN "SW" ELSE "HW"
    <3> DEFINE u == xmited[j]
               d == At(h, u, i)
    <3>1. u \in Vbufs /\ u # v
      BY <1>3
    <3>2. \A k \in 1..PktLen[u] : At(h2, u, k) = At(h, u, k)
      BY <1>14, <3>1
    <3>3. d \in Descs /\ d # f /\ d # z
      BY <1>3, <1>7, <1>8, <1>9, <3>1 DEF z, L
    <3>4. mem'[d] = mem[d]
      BY <1>18, <3>3
    <3>5. j + 1 \in 1..(n + 1)
      BY <1>6
    <3>6. Segment(mem[d], h, u, i, Begin(h, xmited, n, term, j + 1))
          /\ mem[d].own = IF j <= ndone THEN "SW" ELSE "HW"
      BY <2>0 DEF QueueLinked
    <3>7. Begin(h2, xmited, n, term, j + 1) = Begin(h, xmited, n, term, j + 1)
      BY <1>24, <3>5
    <3> HIDE DEF u, d
    <3>8. Segment(mem[d], h2, u, i, Begin(h, xmited, n, term, j + 1))
      BY <3>1, <3>2, <3>6, Elsewhere DEF u
    <3>9. At(h2, u, i) = d
      BY <3>2 DEF d, u
    <3> QED BY <3>4, <3>6, <3>7, <3>8, <3>9 DEF u
  <2>3. QueueLinked(mem', h2, xmited, n, term, ndone)
    BY <2>1, <2>2 DEF QueueLinked
  <2> QED BY <1>1, <1>4, <2>3 DEF h2
<1>27. SwappedPut(mem', h2, v, put', term)
  <2>1. Segment(td, h2, v, 1, f)
    <3>1. td.data = <<v, 1>>
      BY <1>8, <1>15, <1>16, Zenon DEF Segment
    <3>2. td.ls <=> 1 = L
      BY <1>8, <1>15, <1>16, Zenon DEF Segment, L
    <3>3. z = f <=> L = 1
      BY <1>3, <1>7, <1>8, <1>9 DEF z, L
    <3>4. CASE L = 1
      <4>1. td.next = f /\ td.last = term /\ ~(1 < L) /\ At(h2, v, L) = term
        BY <1>13, <1>15, <1>16, <3>3, <3>4
      <4> QED BY <3>1, <3>2, <4>1, Zenon DEF Segment, L
    <3>5. CASE L # 1
      <4>1. 1 < L /\ 1 + 1 \in 1..L /\ 1 + 1 # 1
        BY <1>7, <3>5
      <4>2. mem[f].next = At(h, v, 1 + 1)
        BY <1>8, <4>1 DEF Segment, L
      <4>3. At(h2, v, 1 + 1) = At(h, v, 1 + 1) /\ At(h2, v, L) = z
        BY <1>3, <1>7, <1>14, <3>5, <4>1 DEF z, L
      <4>4. td.next = At(h2, v, 1 + 1) /\ td.last = At(h2, v, L)
        BY <1>15, <1>16, <3>3, <3>5, <4>2, <4>3
      <4> QED BY <3>1, <3>2, <4>1, <4>4, Zenon DEF Segment, L
    <3> QED BY <3>4, <3>5
  <2>2. ASSUME NEW i \in 2..L
        PROVE  Segment(mem'[At(h2, v, i)], h2, v, i, f) /\ mem'[At(h2, v, i)].own = "HW"
    <3> DEFINE d == At(h, v, i)
    <3>0. i \in 1..L /\ i # 1
      BY <1>7
    <3>1. At(h2, v, i) = d /\ d \in Descs /\ d # f
      BY <1>3, <1>7, <1>8, <1>9, <1>14, <3>0 DEF L
    <3>2. Segment(mem[d], h, v, i, NULL) /\ mem[d].own = "HW" /\ mem[d] \in HwDescs(Descs, Bufs)
      BY <1>5, <1>6, <3>0, <3>1 DEF LinkedPut, L
    <3>3. d = z <=> i = L
      BY <1>3, <1>7, <1>9, <3>0 DEF z, L
    <3> HIDE DEF d
    <3> DEFINE w == mem'[d]
    <3>4. CASE i = L
      <4>1. w = [mem[d] EXCEPT !.next = f]
        BY <1>18, <3>1, <3>3, <3>4
      <4> HIDE DEF w
      <4>2. w.next = f /\ w.own = "HW" /\ w.data = mem[d].data /\ w.ls = mem[d].ls
        BY <3>2, <4>1 DEF HwDescs
      <4>3. ~(i < L)
        BY <1>7, <3>4
      <4>4. Segment(w, h2, v, i, f)
        BY <3>0, <3>2, <4>2, <4>3, Zenon DEF Segment, L
      <4> QED BY <3>1, <4>2, <4>4 DEF w
    <3>5. CASE i # L
      <4>1. w = mem[d]
        BY <1>18, <3>1, <3>3, <3>5
      <4>2. i < L /\ i + 1 \in 1..L /\ i + 1 # 1
        BY <1>7, <3>0, <3>5
      <4>3. At(h2, v, i + 1) = At(h, v, i + 1)
        BY <1>3, <1>14, <4>2 DEF L
      <4>4. Segment(mem[d], h2, v, i, f)
        BY <3>0, <3>2, <4>2, <4>3, Zenon DEF Segment, L
      <4> QED BY <3>1, <3>2, <4>1, <4>4 DEF w
    <3> QED BY <3>4, <3>5
  <2> QED BY <1>13, <1>16, <1>18, <1>19, <2>1, <2>2 DEF SwappedPut, L
<1>28. PutLinked'
  BY <1>1, <1>27 DEF PutLinked, h2, v
<1>29. EngineAt(hw, read, Holder, xmited, Entered, term, ndone)'
  <2>0. EngineAt(hw, read, h, xmited, n, term, ndone)
    BY DEF IInv, h, n
  <2>1. EngineAt(hw, read, h2, xmited, n, term, ndone)
    <3>1. CASE ndone < n
      <4> DEFINE u == xmited[ndone + 1]
                 k == Len(hw.got)
      <4>1. ndone + 1 \in 1..n
        BY <1>6, <3>1
      <4>2. u \in Vbufs /\ \A i \in 1..PktLen[u] : At(h2, u, i) = At(h, u, i)
        BY <1>3, <1>14, <4>1
      <4>3. k \in Nat /\ PktLen[u] \in Nat
        BY <1>6, <4>2, SegmentFacts
      <4>4. k < PktLen[u] /\ hw.cur = At(h, u, k + 1) /\ hw.got = [i \in 1..k |-> At(h, u, i)]
            /\ read = [i \in 1..k |-> <<u, i>>]
        BY <2>0, <3>1 DEF EngineAt
      <4> HIDE DEF k, u
      <4>5. [i \in 1..k |-> At(h2, u, i)] = [i \in 1..k |-> At(h, u, i)]
        BY <4>2, <4>3, <4>4, Elsewhere
      <4>6. k + 1 \in 1..PktLen[u]
        BY <4>3, <4>4
      <4>7. At(h2, u, k + 1) = At(h, u, k + 1)
        BY <4>2, <4>6
      <4> QED BY <3>1, <4>4, <4>5, <4>7 DEF EngineAt, k, u
    <3>2. CASE ~(ndone < n)
      BY <2>0, <3>2 DEF EngineAt
    <3> QED BY <3>1, <3>2
  <2> QED BY <1>1, <1>4, <2>1 DEF h2
<1>30. IdleWhole'
  <2>1. v \in ToSet(xmited)
    <3>1. n + 1 \in 1..Len(xmited) /\ DOMAIN xmited = 1..Len(xmited)
      BY <1>3, <1>6, Basics
    <3> QED BY <1>3, <3>1 DEF ToSet
  <2>2. ASSUME NEW u \in Vbufs, u \notin ToSet(xmited)
        PROVE  ChainOf(h2, u) = ChainOf(h, u)
    <3>1. \A i \in 1..PktLen[u] : At(h2, u, i) = At(h, u, i)
      BY <1>14, <2>1, <2>2
    <3> QED BY <3>1, Elsewhere
  <2> QED BY <1>1, <2>2 DEF IInv, IdleWhole, Idle, h, h2
<1> QED BY <1>21, <1>22, <1>25, <1>26, <1>28, <1>29, <1>30 DEF IInv
----------------------------------------------------------------------------
(* Induction over the natural numbers, for a set.                          *)

(* A set of naturals has a least element.                                  *)
LEMMA LeastOf ==
    ASSUME NEW T \in SUBSET Nat, T # {}
    PROVE  \E x \in T : \A y \in T : x <= y
<1> DEFINE R == OpToRel(<, Nat)
<1>1. IsWellFoundedOn(R, Nat)
  BY NatLessThanWellFounded
<1> HIDE DEF R
<1>2. T \subseteq Nat
  OBVIOUS
<1>3. \E x \in T : \A y \in T : ~(<<y, x>> \in R)
  BY <1>1, <1>2, WFMin
<1>4. PICK x \in T : \A y \in T : ~(<<y, x>> \in R)
  BY <1>3
<1>5. ASSUME NEW y \in T
      PROVE  x <= y
  <2>1. ~(<<y, x>> \in R)
    BY <1>4
  <2>2. ~(y < x)
    BY <2>1 DEF R, OpToRel
  <2> QED BY <2>2
<1> QED BY <1>4, <1>5

(* Induction over the naturals, for a set.                                 *)
LEMMA SetInduction ==
    ASSUME NEW M, 0 \in M, \A n \in Nat : n \in M => n + 1 \in M
    PROVE  \A n \in Nat : n \in M
<1> DEFINE T == {n \in Nat : n \notin M}
<1> SUFFICES ASSUME T # {} PROVE FALSE
  OBVIOUS
<1>1. PICK x \in T : \A y \in T : x <= y
  BY LeastOf
<1>2. x # 0 /\ x \in Nat /\ x \notin M
  OBVIOUS
<1>3. x - 1 \in Nat /\ x - 1 \notin T
  BY <1>1, <1>2
<1>4. x - 1 \in M
  BY <1>3
<1>5. (x - 1) + 1 \in M
  BY <1>3, <1>4
<1> QED BY <1>2, <1>5

(* ChainTo walks along nextAddr.                                           *)
Walk(f, m, d, n) ==
    [i \in 1..n |-> IF i = 1 THEN d ELSE LET e == f[i - 1] IN IF e = NULL THEN NULL ELSE m[e].next]

WalkOf(m, d, n) == CHOOSE f : f = Walk(f, m, d, n)

(* As far as the first of the ends.                                        *)
FirstIn(E) == CHOOSE k \in E : \A j \in E : k <= j
UpToFirst(at, E) == IF E = {} THEN << >> ELSE [i \in 1..FirstIn(E) |-> at[i]]

(* PacketAt and QueueChain follow the walk as far as the first end.        *)
LEMMA PacketIs ==
    ASSUME NEW m, NEW d
    PROVE  PacketAt(m, d) =
             UpToFirst(WalkOf(m, d, Cardinality(DOMAIN m)), {k \in 1..Cardinality(DOMAIN m) : WalkOf(m, d, Cardinality(DOMAIN m))[k] # NULL /\ m[WalkOf(m, d, Cardinality(DOMAIN m))[k]].ls})
BY Zenon DEF PacketAt, ChainTo, Walk, WalkOf, UpToFirst, FirstIn

(* The same for the whole queue.                                           *)
LEMMA QueueIs ==
    ASSUME NEW m, NEW d, NEW t
    PROVE  QueueChain(m, d, t) =
             UpToFirst(WalkOf(m, d, Cardinality(DOMAIN m)), {k \in 1..Cardinality(DOMAIN m) : WalkOf(m, d, Cardinality(DOMAIN m))[k] # NULL /\ WalkOf(m, d, Cardinality(DOMAIN m))[k] = t})
BY Zenon DEF QueueChain, ChainTo, Walk, WalkOf, UpToFirst, FirstIn

(* The walk has a value for every number of steps.                         *)
LEMMA WalkExists ==
    ASSUME NEW m, NEW d
    PROVE  \A n \in Nat : \E f : f = Walk(f, m, d, n)
<1> DEFINE M == {n \in Nat : \E f : f = Walk(f, m, d, n)}
<1>1. 0 \in M
  <2> DEFINE f == [i \in 1..0 |-> d]
  <2>1. 1..0 = {}
    OBVIOUS
  <2> HIDE DEF f
  <2>2. f = Walk(f, m, d, 0)
    BY <2>1 DEF f, Walk
  <2> QED BY <2>2
<1>2. ASSUME NEW n \in Nat, n \in M
      PROVE  n + 1 \in M
  <2>1. PICK f : f = Walk(f, m, d, n)
    BY <1>2
  <2> DEFINE S(g, i) == IF i = 1 THEN d ELSE LET e == g[i - 1] IN IF e = NULL THEN NULL ELSE m[e].next
             g == [i \in 1..(n + 1) |-> S(f, i)]
  <2>2. \A i \in 1..n : f[i] = S(f, i) /\ i \in 1..(n + 1)
    <3>1. f = [i \in 1..n |-> S(f, i)]
      BY <2>1, Zenon DEF Walk
    <3> HIDE DEF S
    <3> QED BY <3>1
  <2>3. \A i \in 1..(n + 1) : g[i] = S(f, i)
    OBVIOUS
  <2> HIDE DEF g
  <2>4. \A i \in 1..(n + 1) : S(g, i) = S(f, i)
    <3> TAKE i \in 1..(n + 1)
    <3>1. CASE i = 1
      BY <3>1
    <3>2. CASE i # 1
      <4>1. i - 1 \in 1..n
        BY <3>2
      <4>2. g[i - 1] = f[i - 1]
        BY <2>2, <2>3, <4>1, Zenon
      <4> QED BY <4>2, Zenon
    <3> QED BY <3>1, <3>2
  <2>5. g = [i \in 1..(n + 1) |-> S(g, i)]
    BY <2>4, Zenon DEF g
  <2>6. g = Walk(g, m, d, n + 1)
    BY <2>5, Zenon DEF Walk
  <2> QED BY <2>6
<1> HIDE DEF M
<1>3. \A n \in Nat : n \in M
  BY <1>1, <1>2, SetInduction
<1> QED BY <1>3 DEF M

(* A sequence that begins at d and follows nextAddr is what the walk sees. *)
LEMMA WalkIs ==
    ASSUME NEW m, NEW d, NEW n \in Nat, NEW T, NEW s \in Seq(T), Len(s) <= n, Len(s) >= 1, s[1] = d,
           \A i \in 1..(Len(s) - 1) : s[i] # NULL /\ m[s[i]].next = s[i + 1]
    PROVE  \A i \in 1..Len(s) : WalkOf(m, d, n)[i] = s[i]
<1> DEFINE at == WalkOf(m, d, n)
           l == Len(s)
           M == {i \in Nat : i \in 1..l => at[i] = s[i]}
<1>1. at = Walk(at, m, d, n)
  BY WalkExists, Zenon DEF WalkOf
<1> HIDE DEF at
<1>2. l \in Nat /\ l <= n /\ l >= 1
  OBVIOUS
<1> HIDE DEF l
<1>3. at = [i \in 1..n |-> IF i = 1 THEN d ELSE LET e == at[i - 1] IN IF e = NULL THEN NULL ELSE m[e].next]
  BY <1>1, Zenon DEF Walk
<1>4. \A i \in 1..n : at[i] = IF i = 1 THEN d ELSE LET e == at[i - 1] IN IF e = NULL THEN NULL ELSE m[e].next
  BY <1>3, Zenon
<1>5. 0 \in M
  OBVIOUS
<1>6. ASSUME NEW i \in Nat, i \in M
      PROVE  i + 1 \in M
  <2> SUFFICES ASSUME i + 1 \in 1..l PROVE at[i + 1] = s[i + 1]
    OBVIOUS
  <2>1. i + 1 \in 1..n
    BY <1>2
  <2>2. CASE i = 0
    <3>1. at[1] = d /\ i + 1 = 1
      BY <1>4, <2>1, <2>2
    <3> QED BY <3>1
  <2>3. CASE i # 0
    <3>1. i \in 1..l /\ i \in 1..(l - 1) /\ i + 1 # 1 /\ (i + 1) - 1 = i
      BY <1>2, <2>3
    <3>2. at[i] = s[i]
      BY <1>6, <3>1
    <3>3. s[i] # NULL /\ m[s[i]].next = s[i + 1]
      BY <3>1 DEF l
    <3>4. at[i + 1] = LET e == at[i] IN IF e = NULL THEN NULL ELSE m[e].next
      BY <1>4, <2>1, <3>1
    <3> QED BY <3>2, <3>3, <3>4
  <2> QED BY <2>2, <2>3
<1> HIDE DEF M
<1>7. \A i \in Nat : i \in M
  BY <1>5, <1>6, SetInduction
<1> QED BY <1>2, <1>7 DEF M, at, l

(* The first of the ends.                                                  *)
LEMMA FirstOf ==
    ASSUME NEW n \in Nat, NEW E \in SUBSET (1..n), NEW k \in 1..n, \A i \in 1..k : i \in E <=> i = k
    PROVE  E # {} /\ FirstIn(E) = k
<1>1. k \in E
  OBVIOUS
<1>2. \A i \in E : k <= i
  OBVIOUS
<1>3. \A j \in E : (\A i \in E : j <= i) => j = k
  BY <1>1, <1>2
<1> QED BY <1>1, <1>2, <1>3 DEF FirstIn

(* A chain of different descriptors is no longer than there are any.       *)
LEMMA ChainBound ==
    ASSUME NEW D, IsFiniteSet(D), NEW s \in Seq(D), IsInjective(s)
    PROVE  Len(s) \in Nat /\ Cardinality(D) \in Nat /\ Len(s) <= Cardinality(D)
<1>1. Len(s) \in Nat /\ s \in [1..Len(s) -> D]
  OBVIOUS
<1>2. s \in Injection(1..Len(s), D)
  BY <1>1 DEF Injection, IsInjective
<1>3. Cardinality(1..Len(s)) <= Cardinality(D)
  BY <1>2, FS_Injection
<1>4. Cardinality(1..Len(s)) = IF 1 > Len(s) THEN 0 ELSE Len(s) - 1 + 1
  BY <1>1, FS_Interval
<1>5. Cardinality(D) \in Nat
  BY FS_CardinalityType
<1> QED BY <1>1, <1>3, <1>4, <1>5

(* The chain that PacketAt and QueueChain find.                            *)
LEMMA ChainIs ==
    ASSUME NEW D, IsFiniteSet(D), NULL \notin D, NEW m, DOMAIN m = D, NEW s \in Seq(D), IsInjective(s), s # << >>,
           \A i \in 1..(Len(s) - 1) : m[s[i]].next = s[i + 1]
    PROVE  /\ (\A i \in 1..Len(s) : m[s[i]].ls <=> i = Len(s)) => PacketAt(m, s[1]) = s
           /\ QueueChain(m, s[1], s[Len(s)]) = s
<1> DEFINE n == Cardinality(DOMAIN m)
           l == Len(s)
           at == WalkOf(m, s[1], n)
<1>1. l \in Nat /\ n \in Nat /\ l <= n
  BY ChainBound
<1>2. l >= 1 /\ s = [i \in 1..l |-> s[i]] /\ \A i \in 1..l : s[i] \in D
  OBVIOUS
<1>3. \A i \in 1..(l - 1) : s[i] # NULL
  BY <1>1, <1>2
<1>4. \A i \in 1..l : at[i] = s[i]
  <2>1. Len(s) <= n /\ Len(s) >= 1 /\ \A i \in 1..(Len(s) - 1) : s[i] # NULL /\ m[s[i]].next = s[i + 1]
    BY <1>1, <1>2, <1>3
  <2> HIDE DEF n
  <2> QED BY <1>1, <2>1, WalkIs
<1> HIDE DEF at, l, n
<1>5. l \in 1..n /\ \A i \in 1..l : i \in 1..n
  BY <1>1, <1>2
<1>6. [i \in 1..l |-> at[i]] = s
  BY <1>2, <1>4
<1>7. ASSUME \A i \in 1..l : m[s[i]].ls <=> i = l
      PROVE  PacketAt(m, s[1]) = s
  <2> DEFINE E == {k \in 1..n : at[k] # NULL /\ m[at[k]].ls}
  <2>1. PacketAt(m, s[1]) = UpToFirst(at, E)
    BY PacketIs, Zenon DEF at, n
  <2>2. E \in SUBSET (1..n) /\ \A i \in 1..l : i \in E <=> i = l
    BY <1>2, <1>4, <1>5, <1>7
  <2> HIDE DEF E
  <2>3. E # {} /\ FirstIn(E) = l
    BY <1>1, <1>5, <2>2, FirstOf
  <2> QED BY <1>6, <2>1, <2>3 DEF UpToFirst
<1>8. QueueChain(m, s[1], s[l]) = s
  <2> DEFINE E == {k \in 1..n : at[k] # NULL /\ at[k] = s[l]}
  <2>1. QueueChain(m, s[1], s[l]) = UpToFirst(at, E)
    BY QueueIs, Zenon DEF at, n
  <2>2. \A i \in 1..l : s[i] = s[l] <=> i = l
    <3>1. DOMAIN s = 1..l
      BY DEF l
    <3> QED BY <1>5, <1>1, <1>2, <3>1 DEF IsInjective
  <2>3. E \in SUBSET (1..n) /\ \A i \in 1..l : i \in E <=> i = l
    BY <1>2, <1>4, <1>5, <2>2
  <2> HIDE DEF E
  <2>4. E # {} /\ FirstIn(E) = l
    BY <1>1, <1>5, <2>3, FirstOf
  <2> QED BY <1>6, <2>1, <2>4 DEF UpToFirst
<1> QED BY <1>7, <1>8 DEF l

----------------------------------------------------------------------------
(* The reap.                                                               *)

(* The packet at the head is the oldest, and its descriptors are those     *)
(* that carry the buffers of its VBUF.                                     *)
LEMMA HeadPacket ==
    ASSUME IInv, Entered >= 1
    PROVE  LET v == xmited[1]
           IN  /\ v \in Vbufs /\ head = At(Holder, v, 1)
               /\ PacketAt(mem, head) = ChainOf(Holder, v)
               /\ AfterPacket(mem, head) = Begin(Holder, xmited, Entered, term, 2)
               /\ mem[head].own = IF 1 <= ndone THEN "SW" ELSE "HW"
<1> DEFINE v == xmited[1]
           h == Holder
           n == Entered
           L == PktLen[v]
           s == ChainOf(h, v)
           e == Begin(h, xmited, n, term, 2)
<1>1. n \in Nat /\ n >= 1 /\ 1 \in 1..n /\ 1 + 1 = 2 /\ mem \in [Descs -> HwDescs(Descs, Bufs)]
      /\ v \in Vbufs
  <2>1. n \in Nat /\ mem \in [Descs -> HwDescs(Descs, Bufs)] /\ n <= Len(xmited) /\ Len(xmited) \in Nat
        /\ \A j \in 1..Len(xmited) : xmited[j] \in Vbufs
    BY Basics
  <2> QED BY <2>1
<1>2. head = At(h, v, 1)
  BY <1>1 DEF IInv, Begin
<1>3. \A i \in 1..L : Segment(mem[At(h, v, i)], h, v, i, e) /\ mem[At(h, v, i)].own = IF 1 <= ndone THEN "SW" ELSE "HW"
  BY <1>1 DEF IInv, QueueLinked
<1>4. L \in Nat /\ L >= 1 /\ 1 \in 1..L /\ L \in 1..L /\ ~(L < L)
  BY <1>1, SegmentFacts
<1>5. /\ s \in Seq(Descs) /\ IsInjective(s) /\ Len(s) = L
      /\ \A i \in 1..L : s[i] = At(h, v, i)
  BY <1>1, ChainFacts
<1> HIDE DEF v, h, n, L, s, e
<1>6. \A i \in 1..(Len(s) - 1) : mem[s[i]].next = s[i + 1]
  <2> TAKE i \in 1..(Len(s) - 1)
  <2>1. i \in 1..L /\ i + 1 \in 1..L /\ i < L
    BY <1>4, <1>5
  <2>2. Segment(mem[s[i]], h, v, i, e)
    BY <1>3, <1>5, <2>1
  <2>3. mem[s[i]].next = At(h, v, i + 1)
    BY <2>1, <2>2 DEF Segment, L
  <2> QED BY <1>5, <2>1, <2>3
<1>7. \A i \in 1..Len(s) : mem[s[i]].ls <=> i = Len(s)
  <2> TAKE i \in 1..Len(s)
  <2>1. i \in 1..L
    BY <1>5
  <2>2. Segment(mem[s[i]], h, v, i, e)
    BY <1>3, <1>5, <2>1
  <2> QED BY <1>5, <2>2, Zenon DEF Segment, L
<1>8. s # << >>
  BY <1>4, <1>5
<1>9. PacketAt(mem, s[1]) = s
  <2>1. IsFiniteSet(Descs) /\ NULL \notin Descs /\ DOMAIN mem = Descs
    BY <1>1, DescAssumption
  <2> QED BY <1>5, <1>6, <1>7, <1>8, <2>1, ChainIs
<1>10. PacketAt(mem, head) = s
  BY <1>2, <1>4, <1>5, <1>9
<1>11. AfterPacket(mem, head) = e
  <2>1. mem[head].last = At(h, v, L)
    BY <1>2, <1>3, <1>4, Zenon DEF Segment, L
  <2>2. mem[At(h, v, L)].next = e
    BY <1>3, <1>4, Zenon DEF Segment, L
  <2> QED BY <2>1, <2>2 DEF AfterPacket
<1> QED BY <1>1, <1>2, <1>3, <1>4, <1>10, <1>11 DEF v, h, n, s, e

(* What handle_tx_complete_isr does.                                       *)
LEMMA ReapFacts ==
    ASSUME IInv, Reap
    PROVE  LET v == xmited[1]
           IN  /\ v \in Vbufs /\ ndone >= 1 /\ Entered = Len(xmited) /\ Entered >= 1
               /\ pc = "run" /\ vb' = [vb EXCEPT ![v] = ChainOf(Holder, v)]
               /\ head' = Begin(Holder, xmited, Entered, term, 2)
               /\ xmited' = Tail(xmited) /\ ndone' = ndone - 1
               /\ UNCHANGED <<mem, vd, term, pc, put, isr, hw, intr, read, wire>>
<1>1. /\ pc = "run" /\ head # term /\ mem[head].own # "HW" /\ head' = AfterPacket(mem, head)
      /\ vb' = [vb EXCEPT ![Head(xmited)] = PacketAt(mem, head)]
      /\ xmited' = Tail(xmited) /\ ndone' = ndone - 1
      /\ UNCHANGED <<mem, vd, term, pc, put, isr, hw, intr, read, wire>>
  BY DEF Reap, GetPacket, Completed
<1>2. Entered = Len(xmited)
  BY <1>1 DEF Entered, Putting
<1>3. Entered \in Nat /\ xmited \in Seq(Vbufs) /\ ndone \in Nat
  BY Basics
<1>4. Entered >= 1
  <2> SUFFICES ASSUME ~(Entered >= 1) PROVE FALSE
    OBVIOUS
  <2>1. ~(1 <= Entered)
    BY <1>3
  <2>2. head = term
    BY <2>1 DEF IInv, Begin
  <2> QED BY <1>1, <2>2
<1>5. Head(xmited) = xmited[1]
  BY <1>2, <1>3, <1>4
<1>6. /\ xmited[1] \in Vbufs
      /\ PacketAt(mem, head) = ChainOf(Holder, xmited[1])
      /\ AfterPacket(mem, head) = Begin(Holder, xmited, Entered, term, 2)
      /\ mem[head].own = IF 1 <= ndone THEN "SW" ELSE "HW"
  BY <1>4, HeadPacket
<1>7. ndone >= 1
  BY <1>1, <1>3, <1>6
<1> QED BY <1>1, <1>2, <1>4, <1>5, <1>6, <1>7

(* The reap keeps the invariant.                                           *)
LEMMA ReapKeeps ==
    ASSUME IInv, Reap
    PROVE  IInv'
<1> DEFINE v == xmited[1]
           h == Holder
           n == Entered
           r == Tail(xmited)
<1>1. /\ v \in Vbufs /\ ndone >= 1 /\ n = Len(xmited) /\ n >= 1
      /\ pc = "run" /\ vb' = [vb EXCEPT ![v] = ChainOf(h, v)]
      /\ head' = Begin(h, xmited, n, term, 2)
      /\ xmited' = r /\ ndone' = ndone - 1
      /\ UNCHANGED <<mem, vd, term, pc, put, isr, hw, intr, read, wire>>
  BY ReapFacts
<1>2. /\ xmited \in Seq(Vbufs) /\ n \in Nat /\ ndone \in Nat /\ ndone <= n /\ term \in Descs
      /\ \A j, k \in 1..n : xmited[j] = xmited[k] => j = k
  BY <1>1, Basics
<1>3. /\ r \in Seq(Vbufs) /\ Len(r) = n - 1 /\ DOMAIN r = 1..(n - 1) /\ DOMAIN xmited = 1..n
      /\ \A j \in 1..(n - 1) : r[j] = xmited[j + 1]
  <2>1. xmited # << >>
    BY <1>1, <1>2
  <2> QED BY <1>1, <1>2, <2>1
<1>4. ~Putting /\ ~Swapped /\ ~Putting' /\ ~Swapped' /\ Holder' = h /\ Spare' = Spare
  BY <1>1 DEF Putting, Swapped, Holder, Spare
<1> HIDE DEF r
<1>5. Entered' = n - 1
  BY <1>1, <1>3, <1>4 DEF Entered
<1>6. ChainOf(h, v) \in Seq(Descs)
  BY <1>1, ChainFacts
<1> HIDE DEF v, h, n
<1>7. \A j \in 1..(n - 1) : j \in 1..n /\ j + 1 \in 1..n /\ (j <= n - 1 <=> j + 1 <= n)
  BY <1>1, <1>2
<1>8. TypeInv'
  <2>1. head' \in Descs
    <3>1. CASE 2 <= n
      <4>1. 2 \in 1..n /\ 2 \in 1..Len(xmited)
        BY <1>1, <1>2, <3>1 DEF n
      <4>2. xmited[2] \in Vbufs
        BY <1>2, <4>1
      <4>3. 1 \in 1..PktLen[xmited[2]]
        BY <4>2, SegmentFacts
      <4>4. At(h, xmited[2], 1) \in Descs
        BY <4>2, <4>3, Places DEF h
      <4> QED BY <1>1, <3>1, <4>4 DEF Begin
    <3>2. CASE ~(2 <= n)
      BY <1>1, <1>2, <3>2 DEF Begin
    <3> QED BY <3>1, <3>2
  <2>2. QueueTypeOK(Descs, Bufs)'
    BY <1>1, <2>1 DEF IInv, TypeInv, QueueTypeOK
  <2>3. IsInjective(r)
    <3>1. ASSUME NEW j \in 1..(n - 1), NEW k \in 1..(n - 1), r[j] = r[k]
          PROVE  j = k
      <4>1. xmited[j + 1] = xmited[k + 1] /\ j + 1 \in 1..n /\ k + 1 \in 1..n
        BY <1>3, <1>7, <3>1
      <4>2. j + 1 = k + 1
        BY <1>2, <4>1
      <4> QED BY <4>2
    <3> QED BY <1>3, <3>1 DEF IsInjective
  <2>4. vb' \in [Vbufs -> Seq(Descs)]
    BY <1>1, <1>6 DEF IInv, TypeInv
  <2>5. ndone' \in Nat /\ ndone' <= n - 1
    BY <1>1, <1>2
  <2> QED BY <1>1, <1>3, <1>4, <1>5, <2>2, <2>3, <2>4, <2>5 DEF IInv, TypeInv
<1>9. Carried(vd, Spare)'
  BY <1>1, <1>4 DEF IInv
(* Packet j is what packet j + 1 was.                                      *)
<1>10. \A j \in 1..n : Begin(h, r, n - 1, term, j) = Begin(h, xmited, n, term, j + 1)
  <2> TAKE j \in 1..n
  <2>1. CASE j <= n - 1
    <3>1. j \in 1..(n - 1)
      BY <1>2, <2>1
    <3>2. r[j] = xmited[j + 1] /\ j + 1 <= n
      BY <1>3, <1>7, <2>1, <3>1
    <3> QED BY <2>1, <3>2 DEF Begin
  <2>2. CASE ~(j <= n - 1)
    <3>1. ~(j + 1 <= n)
      BY <1>2, <2>2
    <3> QED BY <2>2, <3>1 DEF Begin
  <2> QED BY <2>1, <2>2
<1>11. (head = Begin(Holder, xmited, Entered, term, 1))'
  <2>1. 1 \in 1..n /\ 1 + 1 = 2
    BY <1>1, <1>2
  <2>2. Begin(h, r, n - 1, term, 1) = Begin(h, xmited, n, term, 2)
    BY <1>10, <2>1
  <2> QED BY <1>1, <1>4, <1>5, <2>2
<1>12. QueueLinked(mem, Holder, xmited, Entered, term, ndone)'
  <2>0. QueueLinked(mem, h, xmited, n, term, ndone)
    BY DEF IInv, h, n
  <2>1. ASSUME NEW j \in 1..(n - 1), NEW i \in 1..PktLen[r[j]]
        PROVE  /\ Segment(mem[At(h, r[j], i)], h, r[j], i, Begin(h, r, n - 1, term, j + 1))
               /\ mem[At(h, r[j], i)].own = IF j <= ndone - 1 THEN "SW" ELSE "HW"
    <3> DEFINE k == j + 1
    <3>1. k \in 1..n /\ r[j] = xmited[k] /\ (j <= ndone - 1 <=> k <= ndone)
      BY <1>2, <1>3, <1>7
    <3>2. Begin(h, r, n - 1, term, j + 1) = Begin(h, xmited, n, term, k + 1)
      BY <1>10, <3>1
    <3> HIDE DEF k
    <3>3. /\ Segment(mem[At(h, xmited[k], i)], h, xmited[k], i, Begin(h, xmited, n, term, k + 1))
          /\ mem[At(h, xmited[k], i)].own = IF k <= ndone THEN "SW" ELSE "HW"
      BY <2>0, <3>1 DEF QueueLinked
    <3> QED BY <3>1, <3>2, <3>3
  <2>2. QueueLinked(mem, h, r, n - 1, term, ndone - 1)
    BY <2>0, <2>1 DEF QueueLinked
  <2> QED BY <1>1, <1>4, <1>5, <2>2
<1>13. PutLinked'
  BY <1>1, <1>4 DEF PutLinked
<1>14. EngineAt(hw, read, Holder, xmited, Entered, term, ndone)'
  <2>0. EngineAt(hw, read, h, xmited, n, term, ndone)
    BY DEF IInv, h, n
  <2>1. ndone < n <=> ndone - 1 < n - 1
    BY <1>2
  <2>2. ndone < n => r[(ndone - 1) + 1] = xmited[ndone + 1]
    <3>1. ndone < n => ndone \in 1..(n - 1) /\ (ndone - 1) + 1 = ndone
      BY <1>1, <1>2
    <3> QED BY <1>3, <3>1
  <2>3. EngineAt(hw, read, h, r, n - 1, term, ndone - 1)
    BY <2>0, <2>1, <2>2, Zenon DEF EngineAt
  <2> QED BY <1>1, <1>4, <1>5, <2>3
<1>15. IdleWhole'
  <2> SUFFICES ASSUME NEW u \in Vbufs, u \notin ToSet(r) PROVE vb'[u] = ChainOf(h, u)
    BY <1>1, <1>4 DEF IdleWhole, Idle
  <2>1. CASE u = v
    BY <1>1, <2>1 DEF IInv, TypeInv
  <2>2. CASE u # v
    <3>1. u \notin ToSet(xmited)
      <4> SUFFICES ASSUME NEW j \in 1..n, u = xmited[j] PROVE FALSE
        BY <1>3 DEF ToSet
      <4>1. j # 1
        BY <2>2 DEF v
      <4>2. j - 1 \in 1..(n - 1) /\ (j - 1) + 1 = j
        BY <1>2, <4>1
      <4>3. r[j - 1] = u
        BY <1>3, <4>2
      <4> QED BY <1>3, <4>2, <4>3 DEF ToSet
    <3> QED BY <1>1, <2>2, <3>1 DEF IInv, IdleWhole, Idle, TypeInv, h
  <2> QED BY <2>1, <2>2
<1> QED BY <1>8, <1>9, <1>11, <1>12, <1>13, <1>14, <1>15 DEF IInv

(* At the start no VBUF is queued and each has the descriptors it came     *)
(* with.                                                                   *)
LEMMA InitIInv == Init => IInv
<1> SUFFICES ASSUME Init PROVE IInv
  OBVIOUS
<1> DEFINE z == << >>
           h == Holder
<1>1. /\ vd = [d \in Descs |-> IF d = Terminator THEN NULL ELSE d]
      /\ mem = [d \in Descs |-> InitDesc(vd[d])]
      /\ head = Terminator /\ term = Terminator /\ pc = "run" /\ put = NoPut
      /\ isr = FALSE /\ hw = [cur |-> Terminator, got |-> z, start |-> FALSE] /\ intr = FALSE
      /\ xmited = z /\ vb = [v \in Vbufs |-> [i \in 1..PktLen[v] |-> <<v, i>>]]
      /\ read = z /\ ndone = 0
  BY DEF Init, QueueInit
<1>2. /\ Terminator \in Descs /\ NULL \in Bufs /\ Segments \subseteq Descs
      /\ \A d \in Descs : d = Terminator \/ d \in Segments
      /\ \A d \in Segments : d # Terminator /\ d \in Bufs /\ d # NULL
  <2>1. \A d \in Segments : d # Terminator
    <3> SUFFICES ASSUME NEW d \in Segments, d = Terminator PROVE FALSE
      OBVIOUS
    <3>1. PICK v \in Vbufs : d \in {v} \X (1..PktLen[v])
      BY DEF Segments
    <3>2. PICK i \in 1..PktLen[v] : d = <<v, i>>
      BY <3>1
    <3>3. i # 0
      BY <3>1, SegmentFacts
    <3> QED BY <3>2, <3>3 DEF Terminator
  <2> QED BY <2>1, DescAssumption DEF Descs, Bufs
<1>3. z \in Seq(Descs) /\ z \in Seq(Vbufs) /\ Len(z) = 0 /\ DOMAIN z = {}
  OBVIOUS
<1>4. vd \in [Descs -> Bufs] /\ vd[Terminator] = NULL /\ \A d \in Segments : vd[d] = d
  BY <1>1, <1>2
<1>5. Carried(vd, Terminator)
  <2>1. \A b \in Bufs : \E d \in Descs : vd[d] = b
    BY <1>2, <1>4 DEF Bufs
  <2>2. \A d, e \in Descs : vd[d] = vd[e] => d = e
    BY <1>2, <1>4
  <2> QED BY <1>4, <2>1, <2>2 DEF Carried
<1>6. ~Putting /\ ~Swapped /\ Spare = Terminator
  BY <1>1 DEF Putting, Swapped, Spare
<1> HIDE DEF z
<1>7. Entered = 0
  BY <1>1, <1>3, <1>6 DEF Entered
<1>8. \A b \in Bufs : InitDesc(b) \in HwDescs(Descs, Bufs) /\ InitDesc(b).own = "SW"
  BY DEF InitDesc, HwDescs, Owners
<1>9. mem \in [Descs -> HwDescs(Descs, Bufs)] /\ mem[term].own = "SW"
  BY <1>1, <1>2, <1>4, <1>8
<1>10. \A v \in Vbufs : \A i \in 1..PktLen[v] : <<v, i>> \in Segments
  BY DEF Segments
<1>11. TypeInv
  <2>1. put \in [first : Descs, tdesc : HwDescs(Descs, Bufs)]
    BY <1>1, <1>2, <1>8 DEF NoPut
  <2>2. hw \in [cur : Descs, got : Seq(Descs), start : BOOLEAN] /\ hw.got = z
    BY <1>1, <1>2, <1>3
  <2>3. ToSet(hw.got) \subseteq Descs
    BY <1>3, <2>2 DEF ToSet
  <2>4. QueueTypeOK(Descs, Bufs)
    BY <1>1, <1>2, <1>4, <1>9, <2>1, <2>2, <2>3 DEF QueueTypeOK
  <2>5. vb \in [Vbufs -> Seq(Descs)]
    <3> SUFFICES ASSUME NEW v \in Vbufs PROVE [i \in 1..PktLen[v] |-> <<v, i>>] \in Seq(Descs)
      BY <1>1
    <3>1. PktLen[v] \in Nat
      BY SegmentFacts
    <3>2. \A i \in 1..PktLen[v] : <<v, i>> \in Descs
      BY <1>2, <1>10
    <3> QED BY <3>1, <3>2
  <2>6. IsInjective(z)
    BY <1>3 DEF IsInjective
  <2> QED BY <1>1, <1>3, <1>6, <1>7, <2>2, <2>4, <2>5, <2>6 DEF TypeInv
<1>12. head = Begin(h, xmited, Entered, term, 1)
  BY <1>1, <1>7 DEF Begin
<1>13. QueueLinked(mem, h, xmited, Entered, term, ndone)
  BY <1>7, <1>9 DEF QueueLinked
<1>14. PutLinked
  BY <1>1, <1>6 DEF PutLinked
<1>15. EngineAt(hw, read, h, xmited, Entered, term, ndone)
  BY <1>1, <1>7 DEF EngineAt, z
<1>16. IdleWhole
  <2>1. \A d \in Descs : HolderOf(vd)[vd[d]] = d
    BY <1>2, <1>4, <1>5, HolderFacts
  <2>2. \A v \in Vbufs : \A i \in 1..PktLen[v] : At(h, v, i) = <<v, i>>
    <3> TAKE v \in Vbufs
    <3> TAKE i \in 1..PktLen[v]
    <3> DEFINE p == <<v, i>>
    <3>1. p \in Descs /\ vd[p] = p
      BY <1>2, <1>4, <1>10
    <3> HIDE DEF p
    <3>2. HolderOf(vd)[p] = p
      BY <2>1, <3>1
    <3> QED BY <3>2 DEF At, Holder, p
  <2>3. \A v \in Vbufs : ChainOf(h, v) = [i \in 1..PktLen[v] |-> <<v, i>>]
    BY <2>2 DEF ChainOf
  <2> QED BY <1>1, <2>3 DEF IdleWhole
<1> QED BY <1>1, <1>5, <1>6, <1>11, <1>12, <1>13, <1>14, <1>15, <1>16 DEF IInv
----------------------------------------------------------------------------
(* Every step of the software and of the engine keeps the invariant.       *)
LEMMA StepIInv == IInv /\ [Next]_vars => IInv'
<1> SUFFICES ASSUME IInv, [Next]_vars PROVE IInv'
  OBVIOUS
<1>1. ASSUME NEW v \in Vbufs, Xmit(v)
      PROVE  IInv'
  BY <1>1, XmitKeeps
<1>2. CASE XmitStep
  <2>1. UNCHANGED upVars
    BY <1>2 DEF XmitStep
  <2>2. CASE PutLink(SingleLast(CloseRing(mem, put.first), put.first, term))
    BY <2>1, <2>2, PutLinkKeeps
  <2>3. CASE PutCopy
    BY <2>1, <2>3, PutCopyKeeps
  <2>4. CASE PutOwn
    BY <2>1, <2>4, PutOwnKeeps
  <2>5. CASE Trigger
    BY <2>1, <2>5, TriggerKeeps
  <2> QED BY <1>2, <2>2, <2>3, <2>4, <2>5 DEF XmitStep, PutStep
<1>3. CASE HandlerEnter \/ HandlerEnd \/ HwIdle
  BY <1>3, IsrKeeps
<1>4. CASE Reap
  BY <1>4, ReapKeeps
<1>5. CASE HwRead
  BY <1>5, HwReadKeeps
<1>6. CASE HwSend
  BY <1>6, HwSendKeeps
<1>7. CASE UNCHANGED vars
  BY <1>7, StutterKeeps
<1> QED BY <1>1, <1>2, <1>3, <1>4, <1>5, <1>6, <1>7 DEF Next

(* The invariant holds in every reachable state: the packets of the VBUFs  *)
(* of xmited_buf_head .. xmited_buf_tail are linked in the queue in that   *)
(* order, each VBUF's buffers are carried by its own descriptors, and the  *)
(* engine is where its next packet is, in every step of zfDmaPutPacket.    *)
THEOREM Invariance == Spec => []IInv
<1>1. Init => IInv
  BY InitIInv
<1>2. IInv /\ [Next]_vars => IInv'
  BY StepIInv
<1> QED BY <1>1, <1>2, PTL DEF Spec

(* The buffers of a VBUF that is not queued.                               *)
LEMMA BuffersIn == IInv => BuffersComeBack
<1> SUFFICES ASSUME IInv, NEW v \in Vbufs, Idle(v)
             PROVE  BufsOf(vb[v]) = [i \in 1..PktLen[v] |-> <<v, i>>]
  BY DEF BuffersComeBack
<1>1. vb[v] = ChainOf(Holder, v)
  BY DEF IInv, IdleWhole
<1>2. DOMAIN vb[v] = 1..PktLen[v] /\ \A i \in 1..PktLen[v] : vb[v][i] = At(Holder, v, i)
  BY <1>1, ChainFacts
<1>3. \A i \in 1..PktLen[v] : vd[vb[v][i]] = <<v, i>>
  BY <1>2, Places
<1> QED BY <1>2, <1>3 DEF BufsOf

(* Whatever the interleaving of puts, completions and the engine, and for  *)
(* any number of VBUFs of any lengths, handle_tx_complete_isr gives every  *)
(* VBUF back with the data buffers it was sent with, in order: the point   *)
(* of VDESC_swap_vdesc.                                                    *)
THEOREM BuffersComeBackAlways == Spec => []BuffersComeBack
BY Invariance, BuffersIn, PTL
----------------------------------------------------------------------------
(* The chain of the whole queue.                                           *)

(* s goes from b to t along nextAddr, through different descriptors.       *)
Trail(m, s, b, t) ==
    /\ s \in Seq(Descs) /\ IsInjective(s) /\ Len(s) >= 1
    /\ s[1] = b /\ s[Len(s)] = t
    /\ \A i \in 1..(Len(s) - 1) : m[s[i]].next = s[i + 1]

(* A packet before a trail makes a longer one.                             *)
LEMMA TrailGrows ==
    ASSUME NEW m, NEW c, NEW s, NEW b, NEW e, NEW f, NEW t, Trail(m, c, b, e), Trail(m, s, f, t),
           m[e].next = f, ToSet(c) \cap ToSet(s) = {}
    PROVE  Trail(m, c \o s, b, t) /\ \A d : d \in ToSet(c \o s) <=> d \in ToSet(c) \/ d \in ToSet(s)
<1> DEFINE k == Len(c)
           l == Len(s)
           r == c \o s
<1>1. c \in Seq(Descs) /\ s \in Seq(Descs) /\ k \in Nat /\ l \in Nat /\ k >= 1 /\ l >= 1
  BY DEF Trail
<1>2. /\ r \in Seq(Descs) /\ Len(r) = k + l /\ DOMAIN r = 1..(k + l) /\ DOMAIN c = 1..k /\ DOMAIN s = 1..l
      /\ \A i \in 1..(k + l) : r[i] = IF i <= k THEN c[i] ELSE s[i - k]
  BY <1>1
<1>3. /\ c[1] = b /\ c[k] = e /\ \A i \in 1..(k - 1) : m[c[i]].next = c[i + 1]
      /\ s[1] = f /\ s[l] = t /\ \A i \in 1..(l - 1) : m[s[i]].next = s[i + 1]
      /\ \A i, j \in 1..k : c[i] = c[j] => i = j
      /\ \A i, j \in 1..l : s[i] = s[j] => i = j
  BY <1>2 DEF Trail, IsInjective
<1>4. /\ ToSet(c) = {c[i] : i \in 1..k} /\ ToSet(s) = {s[i] : i \in 1..l}
      /\ ToSet(r) = {r[i] : i \in 1..(k + l)}
  BY <1>2 DEF ToSet
<1> HIDE DEF k, l, r
<1>5. /\ \A i \in 1..k : i \in 1..(k + l) /\ r[i] = c[i]
      /\ \A i \in 1..l : k + i \in 1..(k + l) /\ r[k + i] = s[i]
  <2>1. ASSUME NEW i \in 1..k
        PROVE  i \in 1..(k + l) /\ r[i] = c[i]
    BY <1>1, <1>2
  <2>2. ASSUME NEW i \in 1..l
        PROVE  k + i \in 1..(k + l) /\ r[k + i] = s[i]
    <3>1. k + i \in 1..(k + l) /\ ~(k + i <= k) /\ (k + i) - k = i
      BY <1>1
    <3> QED BY <1>2, <3>1
  <2> QED BY <2>1, <2>2
<1>6. \A i \in 1..(k + l) : i \in 1..k \/ \E j \in 1..l : i = k + j
  <2> TAKE i \in 1..(k + l)
  <2>1. CASE i <= k
    BY <1>1, <2>1
  <2>2. CASE ~(i <= k)
    <3>1. i - k \in 1..l /\ i = k + (i - k)
      BY <1>1, <2>2
    <3> QED BY <3>1
  <2> QED BY <2>1, <2>2
<1>7. ToSet(r) = ToSet(c) \cup ToSet(s)
  <2>1. \A d : d \in ToSet(r) => d \in ToSet(c) \cup ToSet(s)
    BY <1>4, <1>5, <1>6
  <2>2. \A d : d \in ToSet(c) \cup ToSet(s) => d \in ToSet(r)
    BY <1>4, <1>5
  <2> QED BY <2>1, <2>2
<1>8. \A i \in 1..k, j \in 1..l : c[i] # s[j]
  BY <1>4
<1>9. \A i, j \in 1..(k + l) : r[i] = r[j] => i = j
  <2> SUFFICES ASSUME NEW i \in 1..(k + l), NEW j \in 1..(k + l), r[i] = r[j] PROVE i = j
    OBVIOUS
  <2> QED BY <1>3, <1>5, <1>6, <1>8
<1>10. IsInjective(r)
  BY <1>2, <1>9 DEF IsInjective
<1>11. \A i \in 1..(Len(r) - 1) : m[r[i]].next = r[i + 1]
  <2> TAKE i \in 1..(Len(r) - 1)
  <2>1. i \in 1..(k + l) /\ i + 1 \in 1..(k + l)
    BY <1>1, <1>2
  <2>2. CASE i < k
    <3>1. i \in 1..(k - 1) /\ i \in 1..k /\ i + 1 \in 1..k
      BY <1>1, <2>1, <2>2
    <3> QED BY <1>3, <1>5, <3>1
  <2>3. CASE i = k
    <3>1. k \in 1..k /\ 1 \in 1..l
      BY <1>1
    <3>2. r[i] = e /\ r[i + 1] = f
      BY <1>3, <1>5, <2>3, <3>1
    <3> QED BY <3>2
  <2>4. CASE i > k
    <3>1. PICK j \in 1..l : i = k + j
      BY <1>1, <1>6, <2>1, <2>4
    <3>2. j \in 1..(l - 1) /\ j + 1 \in 1..l /\ i + 1 = k + (j + 1)
      BY <1>1, <1>2, <3>1
    <3>3. r[i] = s[j] /\ r[i + 1] = s[j + 1]
      BY <1>5, <3>1, <3>2
    <3> QED BY <1>3, <3>2, <3>3
  <2> QED BY <1>1, <2>1, <2>2, <2>3, <2>4
<1>12. r[1] = b /\ r[Len(r)] = t /\ Len(r) >= 1
  <2>1. 1 \in 1..k /\ l \in 1..l /\ k + l >= 1
    BY <1>1
  <2> QED BY <1>2, <1>3, <1>5, <2>1
<1> QED BY <1>2, <1>7, <1>10, <1>11, <1>12 DEF Trail, r

(* The descriptors of the packets j..n.                                    *)
PacketsFrom(h, x, n, j) == UNION {ToSet(ChainOf(h, x[k])) : k \in j..n}

(* The queue from its packet j on.                                         *)
LEMMA TrailFrom ==
    ASSUME IInv
    PROVE  \A k \in Nat : k <= Entered =>
             \E s : /\ Trail(mem, s, Begin(Holder, xmited, Entered, term, Entered + 1 - k), term)
                    /\ ToSet(s) = PacketsFrom(Holder, xmited, Entered, Entered + 1 - k) \cup {term}
<1> DEFINE h == Holder
           x == xmited
           n == Entered
           M == {k \in Nat : k <= n =>
                   \E s : /\ Trail(mem, s, Begin(h, x, n, term, n + 1 - k), term)
                          /\ ToSet(s) = PacketsFrom(h, x, n, n + 1 - k) \cup {term}}
<1>1. n \in Nat /\ term \in Descs /\ \A j \in 1..n : x[j] \in Vbufs
  BY Basics, QueueApart
<1>2. \A j \in 1..n : \A i \in 1..PktLen[x[j]] :
         Segment(mem[At(h, x[j], i)], h, x[j], i, Begin(h, x, n, term, j + 1))
  BY DEF IInv, QueueLinked
<1>3. \A j, k \in 1..n : x[j] = x[k] => j = k
  <2>1. n <= Len(x) /\ Len(x) \in Nat /\ \A j, k \in 1..Len(x) : x[j] = x[k] => j = k
    BY Basics
  <2> QED BY <1>1, <2>1
<1>4. \A j \in 1..n : \A i \in 1..PktLen[x[j]] : At(h, x[j], i) # term
  BY QueueApart
<1>5. \A u, w \in Vbufs : \A i \in 1..PktLen[u], k \in 1..PktLen[w] : At(h, u, i) = At(h, w, k) => u = w /\ i = k
  BY Places
<1>6. \A v \in Vbufs : /\ ChainOf(h, v) \in Seq(Descs) /\ IsInjective(ChainOf(h, v))
                       /\ Len(ChainOf(h, v)) = PktLen[v]
                       /\ \A i \in 1..PktLen[v] : ChainOf(h, v)[i] = At(h, v, i)
                       /\ ToSet(ChainOf(h, v)) = {At(h, v, i) : i \in 1..PktLen[v]}
  BY ChainFacts
<1> HIDE DEF h, x, n
<1>7. 0 \in M
  <2> DEFINE s == <<term>>
  <2>1. s \in Seq(Descs) /\ Len(s) = 1 /\ s[1] = term /\ DOMAIN s = {1}
    BY <1>1
  <2> HIDE DEF s
  <2>2. IsInjective(s) /\ ToSet(s) = {term}
    BY <2>1 DEF IsInjective, ToSet
  <2>3. Trail(mem, s, term, term)
    BY <2>1, <2>2 DEF Trail
  <2>4. Begin(h, x, n, term, n + 1 - 0) = term /\ (n + 1 - 0)..n = {}
    BY <1>1 DEF Begin
  <2>5. PacketsFrom(h, x, n, n + 1 - 0) = {}
    BY <2>4 DEF PacketsFrom
  <2>6. ToSet(s) = PacketsFrom(h, x, n, n + 1 - 0) \cup {term}
    BY <2>2, <2>5
  <2> QED BY <2>3, <2>4, <2>6
<1>8. ASSUME NEW k \in Nat, k \in M
      PROVE  k + 1 \in M
  <2> SUFFICES ASSUME k + 1 <= n
               PROVE  \E s : /\ Trail(mem, s, Begin(h, x, n, term, n + 1 - (k + 1)), term)
                             /\ ToSet(s) = PacketsFrom(h, x, n, n + 1 - (k + 1)) \cup {term}
    OBVIOUS
  <2> DEFINE j == n - k
  <2>1. j \in 1..n /\ n + 1 - (k + 1) = j /\ n + 1 - k = j + 1 /\ k <= n /\ j <= n
    BY <1>1
  <2> HIDE DEF j
  <2>2. PICK s : /\ Trail(mem, s, Begin(h, x, n, term, j + 1), term)
                 /\ ToSet(s) = PacketsFrom(h, x, n, j + 1) \cup {term}
    BY <1>8, <2>1
  <2> DEFINE v == x[j]
             c == ChainOf(h, v)
             L == PktLen[v]
             b == Begin(h, x, n, term, j)
             f == Begin(h, x, n, term, j + 1)
  <2>3. v \in Vbufs /\ L \in Nat /\ L >= 1 /\ 1 \in 1..L /\ L \in 1..L /\ ~(L < L)
    BY <1>1, <2>1, SegmentFacts
  <2>4. /\ c \in Seq(Descs) /\ IsInjective(c) /\ Len(c) = L
        /\ (\A i \in 1..L : c[i] = At(h, v, i)) /\ ToSet(c) = {At(h, v, i) : i \in 1..L}
    BY <1>6, <2>3
  <2>5. \A i \in 1..L : Segment(mem[At(h, v, i)], h, v, i, f)
    BY <1>2, <2>1
  <2>6. b = At(h, v, 1)
    BY <2>1 DEF Begin
  <2>7. PacketsFrom(h, x, n, j) = ToSet(c) \cup PacketsFrom(h, x, n, j + 1)
    <3>1. \A i : i \in j..n <=> i = j \/ i \in (j + 1)..n
      BY <1>1, <2>1
    <3> QED BY <3>1 DEF PacketsFrom
  <2>8. ToSet(c) \cap ToSet(s) = {}
    <3> SUFFICES ASSUME NEW i \in 1..L, At(h, v, i) \in ToSet(s) PROVE FALSE
      BY <2>4
    <3>1. At(h, v, i) # term
      BY <1>4, <2>1
    <3>2. PICK q \in (j + 1)..n : At(h, v, i) \in ToSet(ChainOf(h, x[q]))
      BY <2>2, <3>1 DEF PacketsFrom
    <3>3. q \in 1..n /\ q # j /\ x[q] \in Vbufs
      BY <1>1, <2>1
    <3>4. PICK p \in 1..PktLen[x[q]] : At(h, v, i) = At(h, x[q], p)
      BY <1>6, <3>2, <3>3
    <3>5. v = x[q]
      BY <1>5, <2>3, <3>3, <3>4
    <3> QED BY <1>3, <2>1, <3>3, <3>5
  <2> HIDE DEF v, c, L, b, f
  <2>9. \A i \in 1..(Len(c) - 1) : mem[c[i]].next = c[i + 1]
    <3> TAKE i \in 1..(Len(c) - 1)
    <3>1. i \in 1..L /\ i + 1 \in 1..L /\ i < L
      BY <2>3, <2>4
    <3>2. Segment(mem[c[i]], h, v, i, f)
      BY <2>4, <2>5, <3>1
    <3>3. mem[c[i]].next = At(h, v, i + 1)
      BY <3>1, <3>2 DEF Segment, L
    <3> QED BY <2>4, <3>1, <3>3
  <2>10. Trail(mem, c, b, At(h, v, L))
    BY <2>3, <2>4, <2>6, <2>9 DEF Trail
  <2>11. mem[At(h, v, L)].next = f
    BY <2>3, <2>5, Zenon DEF Segment, L
  <2>12. Trail(mem, s, f, term)
    BY <2>2 DEF f
  <2>13. Trail(mem, c \o s, b, term) /\ \A d : d \in ToSet(c \o s) <=> d \in ToSet(c) \/ d \in ToSet(s)
    <3> DEFINE e == At(h, v, L)
    <3>1. Trail(mem, c, b, e) /\ mem[e].next = f
      BY <2>10, <2>11
    <3> HIDE DEF e, M
    <3> QED BY <2>8, <2>12, <3>1, TrailGrows, SMTT(60)
  <2>14. ToSet(c \o s) = PacketsFrom(h, x, n, j) \cup {term}
    BY <2>2, <2>7, <2>13
  <2> QED BY <2>1, <2>13, <2>14 DEF b
<1> HIDE DEF M
<1>9. \A k \in Nat : k \in M
  BY <1>7, <1>8, SetInduction
<1> QED BY <1>9 DEF M, h, x, n

(* The queue holds the packets that were entered and the terminator.       *)
LEMMA QueueHolds ==
    ASSUME IInv
    PROVE  LET q == QueueChain(mem, head, term)
           IN  /\ q # << >> /\ IsInjective(q)
               /\ ToSet(q) = PacketsFrom(Holder, xmited, Entered, 1) \cup {term}
<1> DEFINE n == Entered
<1>1. n \in Nat /\ n <= n /\ n + 1 - n = 1
  BY Basics
<1>2. PICK s : /\ Trail(mem, s, Begin(Holder, xmited, n, term, 1), term)
               /\ ToSet(s) = PacketsFrom(Holder, xmited, n, 1) \cup {term}
  <2> HIDE DEF n
  <2> QED BY <1>1, TrailFrom DEF n
<1>3. /\ s \in Seq(Descs) /\ IsInjective(s) /\ Len(s) >= 1 /\ s[1] = head /\ s[Len(s)] = term
      /\ \A i \in 1..(Len(s) - 1) : mem[s[i]].next = s[i + 1]
  BY <1>2 DEF Trail, IInv
<1>4. s # << >>
  BY <1>3
<1>5. IsFiniteSet(Descs) /\ NULL \notin Descs /\ DOMAIN mem = Descs
  BY DescAssumption, Basics
<1>6. QueueChain(mem, s[1], s[Len(s)]) = s
  BY <1>3, <1>4, <1>5, ChainIs
<1>7. QueueChain(mem, head, term) = s
  BY <1>3, <1>6
<1> QED BY <1>2, <1>3, <1>4, <1>7

(* No descriptor is shared, and none is lost.                              *)
LEMMA ConservationIn == IInv => DescConservation
<1> SUFFICES ASSUME IInv PROVE DescConservation
  OBVIOUS
<1> DEFINE h == Holder
           n == Entered
           q == QueueChain(mem, head, term)
           C == {vb[v] : v \in {w \in Vbufs : Idle(w)}}
<1>1. q # << >> /\ IsInjective(q) /\ ToSet(q) = PacketsFrom(h, xmited, n, 1) \cup {term}
  BY QueueHolds
<1>2. n \in Nat /\ ndone \in Nat /\ \A j \in 1..n : xmited[j] \in Vbufs
  BY Basics, QueueApart
<1>3. \A v \in Vbufs : IsInjective(ChainOf(h, v)) /\ ToSet(ChainOf(h, v)) = {At(h, v, i) : i \in 1..PktLen[v]}
  BY ChainFacts
<1>4. /\ \A v \in Vbufs : \A i \in 1..PktLen[v] : At(h, v, i) \in Descs /\ At(h, v, i) # Spare
      /\ \A u, v \in Vbufs : \A i \in 1..PktLen[u], k \in 1..PktLen[v] : At(h, u, i) = At(h, v, k) => u = v /\ i = k
  BY Places
<1> HIDE DEF h, n, q
<1>5. \A d : d \in ToSet(q) <=> d = term \/ \E j \in 1..n : \E i \in 1..PktLen[xmited[j]] : d = At(h, xmited[j], i)
  BY <1>1, <1>2, <1>3 DEF PacketsFrom
<1>6. hw.cur \in ToSet(q)
  <2>1. EngineAt(hw, read, h, xmited, n, term, ndone)
    BY DEF IInv, h, n
  <2>2. CASE ndone < n
    <3>1. Len(hw.got) < PktLen[xmited[ndone + 1]] /\ hw.cur = At(h, xmited[ndone + 1], Len(hw.got) + 1)
      BY <2>1, <2>2 DEF EngineAt
    <3>2. ndone + 1 \in 1..n /\ hw.got \in Seq(Descs)
      BY <1>2, <2>2, Basics
    <3> DEFINE k == Len(hw.got)
    <3>3. k \in Nat /\ k < PktLen[xmited[ndone + 1]] /\ hw.cur = At(h, xmited[ndone + 1], k + 1)
      BY <3>1, <3>2
    <3> HIDE DEF k
    <3>4. k + 1 \in 1..PktLen[xmited[ndone + 1]]
      BY <1>2, <3>2, <3>3, SegmentFacts
    <3> QED BY <1>5, <3>2, <3>3, <3>4
  <2>3. CASE ~(ndone < n)
    BY <1>5, <2>1, <2>3 DEF EngineAt
  <2> QED BY <2>2, <2>3
<1>7. ASSUME pc = "run"
      PROVE  Partitioned(Descs, C)
  <2>1. Spare = term /\ n = Len(xmited)
    BY <1>7 DEF Spare, Swapped, Entered, Putting, n
  <2>2. DOMAIN xmited = 1..n
    BY <2>1, Basics
  <2>3. \A c \in C : \E v \in Vbufs : Idle(v) /\ c = vb[v] /\ c = ChainOf(h, v)
    BY DEF IInv, IdleWhole, h
  <2>4. \A v \in Vbufs : Idle(v) => ChainOf(h, v) \in C
    BY DEF IInv, IdleWhole, h
  <2>5. \A j \in 1..n : ~Idle(xmited[j])
    BY <2>2 DEF Idle, ToSet
  <2> HIDE DEF C
  <2>6. ASSUME NEW c \in C
        PROVE  IsInjective(c) /\ ToSet(c) \cap ToSet(q) = {}
    <3>1. PICK v \in Vbufs : Idle(v) /\ c = ChainOf(h, v)
      BY <2>3
    <3>2. ASSUME NEW i \in 1..PktLen[v]
          PROVE  At(h, v, i) \notin ToSet(q)
      <4>1. At(h, v, i) # term
        BY <1>4, <2>1
      <4>2. \A j \in 1..n : \A k \in 1..PktLen[xmited[j]] : At(h, v, i) # At(h, xmited[j], k)
        BY <1>2, <1>4, <2>5, <3>1
      <4> QED BY <1>5, <4>1, <4>2
    <3> QED BY <1>3, <3>1, <3>2
  <2>7. ASSUME NEW c \in C, NEW e \in C, c # e
        PROVE  ToSet(c) \cap ToSet(e) = {}
    <3>1. PICK v \in Vbufs : c = ChainOf(h, v)
      BY <2>3
    <3>2. PICK u \in Vbufs : e = ChainOf(h, u)
      BY <2>3
    <3>3. u # v
      BY <2>7, <3>1, <3>2
    <3> QED BY <1>3, <1>4, <3>1, <3>2, <3>3
  <2>8. ToSet(q) \cup UNION {ToSet(c) : c \in C} = Descs
    <3>1. ToSet(q) \subseteq Descs
      <4>1. term \in Descs
        BY Basics
      <4> QED BY <1>2, <1>4, <1>5, <4>1
    <3>2. \A c \in C : ToSet(c) \subseteq Descs
      BY <1>3, <1>4, <2>3
    <3>3. ASSUME NEW d \in Descs
          PROVE  d \in ToSet(q) \cup UNION {ToSet(c) : c \in C}
      <4>1. /\ vd \in [Descs -> Bufs] /\ term \in Descs /\ Carried(vd, term)
            /\ \A p \in Descs : Holder[vd[p]] = p
        BY <2>1, Basics, HolderFacts DEF Holder
      <4>2. CASE vd[d] = NULL
        <5>1. d = term
          BY <4>1, <4>2 DEF Carried
        <5> QED BY <1>5, <5>1
      <4>3. CASE vd[d] # NULL
        <5>1. vd[d] \in Segments
          BY <4>1, <4>3 DEF Bufs
        <5>2. PICK v \in Vbufs : \E i \in 1..PktLen[v] : vd[d] = <<v, i>>
          BY <5>1 DEF Segments
        <5>6. PICK i \in 1..PktLen[v] : vd[d] = <<v, i>>
          BY <5>2
        <5>3. d = At(h, v, i)
          BY <4>1, <5>6 DEF At, h
        <5>4. CASE Idle(v)
          <6>1. d \in ToSet(ChainOf(h, v))
            BY <1>3, <5>3
          <6> QED BY <2>4, <5>4, <6>1
        <5>5. CASE ~Idle(v)
          <6>1. PICK j \in 1..n : xmited[j] = v
            BY <2>2, <5>5 DEF Idle, ToSet
          <6> QED BY <1>5, <5>3, <6>1
        <5> QED BY <5>4, <5>5
      <4> QED BY <4>2, <4>3
    <3> QED BY <3>1, <3>2, <3>3
  <2> QED BY <1>1, <2>6, <2>7, <2>8 DEF Partitioned, q
<1> QED BY <1>6, <1>7 DEF DescConservation, q

(* Between two operations every descriptor is in the queue or with one     *)
(* VBUF that is not queued, once, and in every step of zfDmaPutPacket the  *)
(* engine stands at a descriptor of the queue.                             *)
THEOREM DescConservationAlways == Spec => []DescConservation
BY Invariance, ConservationIn, PTL
----------------------------------------------------------------------------
(* The queue implements UpFifo.                                            *)

(* What leaves the list, the count and the wire alone is a stutter.        *)
LEMMA SameFifo == UNCHANGED <<xmited, ndone, wire>> => UNCHANGED Fifo!fifoVars
BY DEF Fifo!fifoVars

(* Each step is a step of the FIFO or changes nothing of it.               *)
LEMMA StepFifo == IInv /\ [Next]_vars => [Fifo!Next]_(Fifo!fifoVars)
<1> SUFFICES ASSUME IInv, [Next]_vars PROVE Fifo!Next \/ UNCHANGED Fifo!fifoVars
  OBVIOUS
<1>1. ASSUME NEW v \in Vbufs, Xmit(v)
      PROVE  Fifo!Next
  <2>1. Fifo!Submit(v)
    BY <1>1 DEF Xmit, Idle, Fifo!Submit, ToSet, Fifo!ToSet
  <2> QED BY <2>1 DEF Fifo!Next
<1>2. CASE XmitStep \/ HandlerEnter \/ HandlerEnd \/ HwRead \/ HwIdle
  BY <1>2, SameFifo DEF XmitStep, HandlerEnter, HandlerEnd, HwRead, HwIdle, upVars
<1>3. CASE Reap
  <2>1. ndone >= 1 /\ xmited' = Tail(xmited) /\ ndone' = ndone - 1 /\ wire' = wire /\ ndone \in Nat
    BY <1>3, ReapFacts, Basics
  <2>2. Fifo!Return
    BY <2>1 DEF Fifo!Return
  <2> QED BY <2>2 DEF Fifo!Next
<1>4. CASE HwSend
  <2>1. /\ ndone < Entered /\ ndone' = ndone + 1 /\ xmited' = xmited
        /\ wire' = [i \in 1..PktLen[xmited[ndone + 1]] |-> <<xmited[ndone + 1], i>>]
    BY <1>4, HwSendFacts
  <2>2. ndone \in Nat /\ Entered \in Nat /\ Len(xmited) \in Nat /\ Entered <= Len(xmited)
    BY Basics
  <2>3. ndone < Len(xmited)
    BY <2>1, <2>2
  <2>4. Fifo!Transmit
    BY <2>1, <2>3 DEF Fifo!Transmit, Fifo!Data
  <2> QED BY <2>4 DEF Fifo!Next
<1>5. CASE UNCHANGED vars
  BY <1>5, SameFifo DEF vars, upVars
<1> QED BY <1>1, <1>2, <1>3, <1>4, <1>5 DEF Next

(* The descriptor queue implements the FIFO of messages that HTC relies    *)
(* on, as far as safety goes: what _DMAengine_xmit_buf enters the engine   *)
(* transmits in order, each once and with its own data, and                *)
(* _DMAengine_reap_xmited_buf takes the packets in that order and only     *)
(* after they were transmitted.                                            *)
THEOREM FifoImplemented == Spec => Fifo!Safety
<1>1. Init => Fifo!Init
  BY DEF Init, Fifo!Init
<1>2. IInv /\ [Next]_vars => [Fifo!Next]_(Fifo!fifoVars)
  BY StepFifo
<1> QED BY <1>1, <1>2, Invariance, PTL DEF Spec, Fifo!Safety
=============================================================================
