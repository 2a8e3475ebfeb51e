----------------------------- MODULE TxAggrInv ------------------------------
(* What the proofs about TxAggr speak of: the inductive invariants IInv, SInv
   and Brisk, their parts, and the words the lemmas are stated in. *)
EXTENDS TxAggr

(* Folds.  c picks an element of each subset of S, g is the step, and the
   values stay in D. *)

Picker(S) == {c \in [(SUBSET S) \ {{}} -> S] : \A s \in (SUBSET S) \ {{}} : c[s] \in s}

(* The subsets of S with at most n elements. *)
UpTo(S, n) == {s \in SUBSET S : Cardinality(s) <= n}
Steps(S, D) == [S \X D -> D]
FoldVal(f, s, b, c, g) == IF s = {} THEN b ELSE g[<<c[s], f[s \ {c[s]}]>>]

(* A fold with typed steps has a value for every subset. *)
HasFold(S, D, b, c, g) ==
    \E f \in [SUBSET S -> D] : \A s \in SUBSET S : f[s] = FoldVal(f, s, b, c, g)

(* Whatever satisfies the equations of a fold on typed values is typed. *)
Folded(f, S, D, b, c, g) ==
    /\ f[{}] = b
    /\ \A s \in SUBSET S : s # {} /\ f[s \ {c[s]}] \in D => f[s] = g[<<c[s], f[s \ {c[s]}]>>]

(* The elements of 1..N are picked from the last to the first. *)
LastOf(N) == [s \in (SUBSET (1..N)) \ {{}} |-> Max(s)]

(* The values a fold from the left goes through. *)
LeftRun(N, D, b, g, f) ==
    \E p \in [0..N -> D] : /\ p[0] = b /\ p[N] = f[1..N]
                           /\ \A n \in 1..N : p[n] = g[<<n, p[n - 1]>>]
LeftFolded(f, N, D, b, g) ==
    /\ f[{}] = b
    /\ \A s \in SUBSET (1..N) :
         s # {} /\ f[s \ {Max(s)}] \in D => f[s] = g[<<Max(s), f[s \ {Max(s)}]>>]

(* A fold from the left with typed steps has values. *)
HasLeft(N, D, b, g) ==
    \E f \in [SUBSET (1..N) -> D] :
       \A s \in SUBSET (1..N) : f[s] = IF s = {} THEN b ELSE g[<<Max(s), f[s \ {Max(s)}]>>]

-----------------------------------------------------------------------------
(* The block-ack window of one identifier: types. *)

(* What the operators of Baw leave alone. *)
SameQueue(w, r) ==
    /\ w.seq_next = r.seq_next /\ w.buf_q = r.buf_q
    /\ w.paused = r.paused /\ w.sched = r.sched /\ w.aggr = r.aggr
    /\ w.cleanup = r.cleanup /\ w.reinit = r.reinit /\ w.incomp = r.incomp
Windows(r) == {w \in TidStates : SameQueue(w, r)}

-----------------------------------------------------------------------------
(* The folds of the model, step by step. *)

AddStep(w, f) == IF f.retries > 0 THEN w ELSE AddToBaw(w, f.seq)
UpdStep(w, f, K) == IF f \in K THEN UpdateBaw(w, f.seq) ELSE w
AgainStep(w, f, K) == IF f \in K THEN w ELSE Append(w, Retried(f))
Longer(n, c) == n + Len(c)

(* The chains of a queue hold so many frames. *)
Sent(q) == FoldLeft(LAMBDA n, c : n + Len(c), 0, q)

(* ath_tx_addto_baw on each frame, ... *)
AddAllRuns(q, D, b) ==
    \E p \in [0..Len(q) -> D] :
       /\ p[0] = b /\ p[Len(q)] = AddAllToBaw(b, q)
       /\ \A n \in 1..Len(q) : p[n] = AddStep(p[n - 1], q[n])

(* ... ath_tx_update_baw, ... *)
UpdateRuns(q, D, b, K) ==
    \E p \in [0..Len(q) -> D] :
       /\ p[0] = b /\ p[Len(q)] = UpdateBawFor(b, q, K)
       /\ \A n \in 1..Len(q) : p[n] = UpdStep(p[n - 1], q[n], K)

(* ... the frames to retry, ... *)
AgainRuns(q, D, b, K) ==
    \E p \in [0..Len(q) -> D] :
       /\ p[0] = b /\ p[Len(q)] = RetryAll(q, K)
       /\ \A n \in 1..Len(q) : p[n] = AgainStep(p[n - 1], q[n], K)

(* ... the number of frames in the chains, ... *)
SentRuns(q, D, b) ==
    \E p \in [0..Len(q) -> D] :
       /\ p[0] = b /\ p[Len(q)] = Sent(q)
       /\ \A n \in 1..Len(q) : p[n] = Longer(p[n - 1], q[n])

(* ... and the draining of the identifiers in a sequence. *)
DrainRuns(q, D, b) ==
    \E p \in [0..Len(q) -> D] :
       /\ p[0] = b /\ p[Len(q)] = FoldLeft(TidDrain, b, q)
       /\ \A n \in 1..Len(q) : p[n] = TidDrain(p[n - 1], q[n])

-----------------------------------------------------------------------------
(* How many frames the queues hold. *)

(* A chain more or less. *)
SumRun(p, q) == /\ p \in [0..Len(q) -> Nat] /\ p[0] = 0
                /\ \A n \in 1..Len(q) : p[n] = p[n - 1] + Len(q[n])

(* Sums of sequences where the second is the first from place k + 1 on. *)
Shifted(q, u, k, m) == \A n \in 1..m : u[n] = q[k + n]

-----------------------------------------------------------------------------
(* The software queues together hold so many frames. *)

Queued(m) == FoldFunction(LAMBDA r, n : n + Len(r.buf_q), 0, m)
Pick(s) == CHOOSE x \in s : TRUE
QueueLen(m, t) == Len(m[t].buf_q)

(* f[s] is the number of frames the identifiers in s hold. *)
QueueSum(f, m) ==
    /\ f \in [SUBSET Tids -> Nat] /\ f[{}] = 0
    /\ \A s \in SUBSET Tids : \A x \in s : f[s] = f[s \ {x}] + QueueLen(m, x)

-----------------------------------------------------------------------------
(* The states of the identifiers: the software queue of each holds frames of
   its own. *)

OwnFrames(t) == [kind : {"aggr"}, tid : {t}, seq : SeqNos, retries : Nat]
OwnQueue(r, t) == r \in TidStates /\ r.buf_q \in Seq(OwnFrames(t))
TidMap == {m \in [Tids -> TidStates] : \A t \in Tids : OwnQueue(m[t], t)}

-----------------------------------------------------------------------------
(* The state of the firmware. *)

(* A chain is one frame, or frames of one identifier for aggregation. *)
Singles ==
    {f \in Frames : \/ f.kind = "mgt"
                    \/ f.kind \in {"normal", "bar"} /\ f.tid \in Tids}
Chains ==
    {c \in Seq(Frames) : /\ c # << >>
                         /\ \/ Len(c) = 1 /\ c[1] \in Singles
                            \/ \E t \in Tids : c \in Seq(OwnFrames(t))}
States == [tid : TidMap, axq : Seq(Chains), tidq : Seq(Tids), free : Int, held : Int]
NoReinit(s) == \A t \in Tids : ~s.tid[t].reinit

(* sched says who waits in axq_tidq, where nobody waits twice. *)
Linked(s) ==
    /\ \A i, j \in 1..Len(s.tidq) : s.tidq[i] = s.tidq[j] => i = j
    /\ \A t \in Tids : s.tid[t].sched <=> \E i \in 1..Len(s.tidq) : s.tidq[i] = t

(* Buffers that are free or carry a frame in a queue. *)
Account(s) == s.free + NumFrames(s)

(* From s to v the queues and the free list gain d buffers, those taken from
   the hardware queue before, or lose some where an identifier is initialised
   again. *)
Keeps(s, v, d) ==
    /\ v \in States
    /\ v.free >= s.free
    /\ v.free + v.held = s.free + s.held
    /\ Account(v) <= Account(s) + d
    /\ NoReinit(s) => /\ NoReinit(v)
                      /\ Account(v) = Account(s) + d
                      /\ Linked(s) => Linked(v)

-----------------------------------------------------------------------------
(* Steps on the state. *)

(* The state of one identifier and n buffers released. *)
Put(s, n, t, r) == [Release(s, n) EXCEPT !.tid[t] = r]

(* The state r of identifier t may take the place of the one in s. *)
Follows(s, t, r) ==
    /\ OwnQueue(r, t)
    /\ NoReinit(s) => ~r.reinit /\ r.sched = s.tid[t].sched

-----------------------------------------------------------------------------
(* Scheduling. *)

(* ath_tgt_tx_sched_aggr and ath_tgt_tx_sched_normal. *)
SchedCount(r, lim) == IF r.aggr THEN FormAggr(r, lim) ELSE Min({1, Len(r.buf_q)})

(* How many frames of a chain ath_tx_comp_cleanup frees. *)
CleanupCount(r, chain) ==
    IF Len(chain) > 1 /\ r.incomp \in 1..Len(chain) THEN r.incomp ELSE Len(chain)

-----------------------------------------------------------------------------
(* Completions. *)

(* The head of the hardware queue is taken off. *)
Rest(s) == [s EXCEPT !.axq = Tail(@)]

(* How many buffers a completion gives back to the queues and the free list. *)
CompCount(s) ==
    LET chain == Head(s.axq)
        r == s.tid[Head(chain).tid]
    IN  IF Head(chain).kind = "aggr" /\ r.cleanup THEN CleanupCount(r, chain) ELSE Len(chain)

-----------------------------------------------------------------------------
(* Frames from the host. *)

(* What a frame taken in leaves: a buffer less is free. *)
Took(s, v) ==
    /\ v \in States /\ v.free = s.free - 1 /\ v.held = s.held + 1
    /\ Account(v) = Account(s) - 1
    /\ NoReinit(s) => NoReinit(v) /\ (Linked(s) => Linked(v))
    /\ v.axq = s.axq

-----------------------------------------------------------------------------
(* The invariant. *)

(* A buffer is free or carries one frame that some queue holds, and the host
   is owed what the queues hold. *)
BufferOnce(s) ==
    /\ s.free >= 0
    /\ NumFrames(s) <= s.held
    /\ s.free + s.held <= NumBufs
Good(s) ==
    /\ s \in States
    /\ BufferOnce(s)
    /\ "node" \notin HostOps => NoReinit(s) /\ Linked(s)
IInv ==
    /\ Good(sc)
    /\ valid \in BOOLEAN /\ draining \in BOOLEAN /\ txdone \in BOOLEAN
    /\ acked \subseteq SeqNos
    /\ txdone => sc.axq # << >>

-----------------------------------------------------------------------------
(* Arithmetic on a ring *)

(* A place, and how far it is from another. *)
RingDist(M, a, b) == (b - a) % M

(* The element n steps further *)
RingPlus(M, a, n) == (a + n) % M

(* The host drains no identifier: no mark is left behind. *)
Exactly == "drain" \notin HostOps

(* The window holds the frames U: every one of them is marked, and when no
   drain leaves marks behind nothing else is (ath_tx_addto_baw, tx_buf). *)
Holds(r, U) ==
    /\ U \subseteq SeqNos
    /\ \A x \in U : BaIndex(r.seq_start, x) \in Busy(r)
    /\ Exactly => r.bitmap = {SlotOf(r, x) : x \in U}

(* From r to u the window moves k places forward. *)
Moves(r, u, k) ==
    /\ k \in 0..Span(r)
    /\ Span(u) = Span(r) - k
    /\ \A y \in SeqNos : k <= BaIndex(r.seq_start, y)
         => BaIndex(u.seq_start, y) = BaIndex(r.seq_start, y) - k
    /\ \A i \in Nat : k + i < TidMaxBufs
         => SlotPlus(u.baw_head, i) = SlotPlus(r.baw_head, k + i)

-----------------------------------------------------------------------------
(* A session: the window of an identifier and its queue *)

(* How far seq_next is ahead of seq_start. *)
Total(r) == BaIndex(r.seq_start, r.seq_next)

(* The sequence numbers that wait for a retry. *)
Again(r) == {f.seq : f \in Waiting(r)}

(* The last m frames of the queue have not been sent; they have the last
   sequence numbers, and the window ends before them. *)
Fresh(r, m) ==
    /\ m \in 0..Len(r.buf_q)
    /\ \A i \in 1..Len(r.buf_q) :
         /\ i + m <= Len(r.buf_q) => r.buf_q[i].retries > 0
         /\ i + m > Len(r.buf_q) =>
              /\ r.buf_q[i].retries = 0
              /\ BaIndex(r.seq_start, r.buf_q[i].seq) = (Total(r) - Len(r.buf_q)) + (i - 1)

(* The numbers given out: those the window has come to, then the m frames
   that were never sent; the first of these is in reach. *)
Ahead(r, m) == Span(r) + m <= Total(r) /\ Total(r) <= BawSize + m

(* No two frames that wait for a retry have the same sequence number. *)
Once(r, m) ==
    \A i, j \in 1..Len(r.buf_q) :
       i + m <= Len(r.buf_q) /\ j + m <= Len(r.buf_q) /\ r.buf_q[i].seq = r.buf_q[j].seq => i = j

(* The window holds the frames in X, which the hardware has, and those that
   wait for a retry. *)
InWindow(r, X, m) ==
    /\ Fresh(r, m) /\ Ahead(r, m) /\ Once(r, m)
    /\ Holds(r, X \cup Again(r))
    /\ Again(r) \cap X = {}

(* The identifier when the first frame of its queue is sent *)
Popped(r) == [AddStep(r, r.buf_q[1]) EXCEPT !.buf_q = Tail(@)]

(* The sequence numbers of the first i frames of q *)
SentOf(q, i) == {q[j].seq : j \in 1..i}

(* The identifier with w's window when i frames of q are off the queue *)
CutAt(w, q, i) == [w EXCEPT !.buf_q = SubSeq(q, i + 1, Len(q))]

(* What holds when i frames of the queue have been sent *)
SentWell(t, r, X, w, i) ==
    /\ OwnQueue(CutAt(w, r.buf_q, i), t) /\ CutAt(w, r.buf_q, i).seq_start = r.seq_start
    /\ \E e \in Nat : InWindow(CutAt(w, r.buf_q, i), X \cup SentOf(r.buf_q, i), e)
    /\ \A j \in 1..i : r.buf_q[j].seq \notin X
    /\ \A j, k \in 1..i : r.buf_q[j].seq = r.buf_q[k].seq => j = k

(* No two frames of c have the same sequence number. *)
Distinct(c) == \A i, j \in 1..Len(c) : c[i].seq = c[j].seq => i = j

(* The identifier when the first n frames have gone to the hardware *)
SendFrom(r, n) == [AddAllToBaw(r, SubSeq(r.buf_q, 1, n)) EXCEPT !.buf_q = SubSeq(@, n + 1, Len(@))]

(* A frame numbered, at the end of the queue *)
Pushed(r, f) == [r EXCEPT !.seq_next = SeqPlus(@, 1), !.buf_q = Append(@, f)]

(* The next sequence number has been given out. *)
Numbered(r) == [r EXCEPT !.seq_next = SeqPlus(@, 1)]

(* The window u is r's moved: what is said of the queue of r holds of u's. *)
Tracks(r, u) ==
    /\ u \in Windows(r)
    /\ \A t \in Tids : \A m \in Nat :
         OwnQueue(r, t) /\ Fresh(r, m) /\ Ahead(r, m) /\ Once(r, m)
           => OwnQueue(u, t) /\ Fresh(u, m) /\ Ahead(u, m) /\ Once(u, m)
    /\ Again(u) = Again(r)

(* A window without a frame has no places left over, and room for the first
   frame of the queue. *)
Lead(r) == Busy(r) = {} => Span(r) = 0 /\ Total(r) < BawSize + Len(r.buf_q)

(* u is such a window where r is the window of a session. *)
Leads(r, u) ==
    \A t \in Tids : \A m \in Nat :
      OwnQueue(r, t) /\ Fresh(r, m) /\ Ahead(r, m) /\ Once(r, m) => Lead(u)

(* Of the first i frames of c, those in K are done: ... *)
DoneOf(c, K, i) == {c[j].seq : j \in {k \in 1..i : c[k] \in K}}

(* ... and the others go back to the queue. *)
LeftOf(c, K, i) == {c[j].seq : j \in {k \in 1..i : c[k] \notin K}}

(* Every frame of a list has been sent before. *)
Tried(a) == \A i \in 1..Len(a) : a[i].retries > 0

(* The list of retries w after i frames of a chain *)
AgainWell(t, c, K, w, i) ==
    /\ w \in Seq(OwnFrames(t)) /\ Tried(w) /\ Distinct(w)
    /\ SeqsOf(w) = LeftOf(c, K, i)

(* What is said of the window and the queue depends on nothing else. *)
Alike(u, r) ==
    /\ u \in TidStates
    /\ u.seq_start = r.seq_start /\ u.seq_next = r.seq_next /\ u.baw_head = r.baw_head
    /\ u.baw_tail = r.baw_tail /\ u.bitmap = r.bitmap /\ u.buf_q = r.buf_q

(* The session is over: the frames that the hardware still has are counted in
   incomp. *)
Ended(r, X) ==
    /\ r.buf_q = << >> /\ Span(r) = 0
    /\ Exactly => r.bitmap = {}
    /\ r.cleanup => /\ r.incomp >= 1 /\ r.incomp >= Cardinality(X)
                    /\ Exactly => r.incomp = Cardinality(X)
    /\ ~r.cleanup => X = {} /\ r.incomp = 0

(* The identifier as ath_tgt_tx_cleanup leaves it, but for the pause *)
Closed(r) ==
    LET w == UpdateBawFor(r, r.buf_q, Waiting(r))
    IN  [CloseBaw(w) EXCEPT !.buf_q = << >>,
                            !.incomp = @ + Cardinality(Busy(w)),
                            !.cleanup = @ \/ Busy(w) # {}]

-----------------------------------------------------------------------------
(* A session and the hardware queue *)

(* The chain c is of t's session. *)
Session(c, t) == c[1].kind = "aggr" /\ c[1].tid = t

(* The sequence numbers of t's session in the hardware queue q *)
Flight(q, t) == {x \in SeqNos : \E i \in 1..Len(q) : Session(q[i], t) /\ x \in SeqsOf(q[i])}

(* A chain of t of kind k is in the hardware queue. *)
Has(q, t, k) == \E i \in 1..Len(q) : q[i][1].kind = k /\ q[i][1].tid = t

(* What is sent without aggregation does not go before an aggregate. *)
InOrder(q, t) ==
    \A i, j \in 1..Len(q) :
        i < j /\ q[i][1].kind = "normal" /\ q[i][1].tid = t => ~Session(q[j], t)

(* No frame of t's session is in the hardware queue twice. *)
Separate(q, t) ==
    \A i \in 1..Len(q) :
        Session(q[i], t) => /\ Distinct(q[i])
                            /\ \A j \in 1..Len(q) :
                                  Session(q[j], t) /\ i # j => SeqsOf(q[i]) \cap SeqsOf(q[j]) = {}

(* What is known of t's chains in the hardware queue *)
InLine(q, t) == InOrder(q, t) /\ Separate(q, t)

(* The record of an identifier whose frames X the hardware has. *)
TidOk(r, X) ==
    /\ r.aggr => ~r.cleanup /\ r.incomp = 0 /\ \E m \in Nat : InWindow(r, X, m)
    /\ ~r.aggr => Ended(r, X)

(* What it needs of the hardware queue: nothing sent without aggregation
   while aggregation is on, and a reason for a pause. *)
NoNormal(r, q, t) == r.aggr => ~Has(q, t, "normal")

(* A pause waits for a clean-up or for a BAR. *)
Waits(r, q, t) == r.paused => r.cleanup \/ Has(q, t, "bar")

(* An identifier is in order with respect to the hardware queue q. *)
TidSess(r, q, t) ==
    InLine(q, t) /\ TidOk(r, Flight(q, t)) /\ NoNormal(r, q, t) /\ Waits(r, q, t)

(* Every identifier is. *)
SessOk(s) == \A t \in Tids : TidSess(s.tid[t], s.axq, t)

(* In the middle of a handler: the record of t is right when the hardware has
   the frames Y, and a pause may have lost its reason. *)
Owes(s, t, Y) ==
    /\ \A u \in Tids \ {t} : TidSess(s.tid[u], s.axq, u)
    /\ InLine(s.axq, t) /\ TidOk(s.tid[t], Y) /\ NoNormal(s.tid[t], s.axq, t)

(* The chain c has been taken off the hardware queue: what is due to its
   identifier t, which had Y in the air. *)
Leaves(c, t, Y, v) ==
    /\ Owes(v, t, Y)
    /\ c[1].kind # "aggr" => Flight(v.axq, t) = Y
    /\ c[1].kind # "bar" => Waits(v.tid[t], v.axq, t)
    /\ c[1].kind = "normal" => Y = {} /\ ~v.tid[t].aggr
    /\ c[1].kind = "aggr" =>
         Flight(v.axq, t) = Y \ SeqsOf(c) /\ SeqsOf(c) \subseteq Y /\ Distinct(c)

(* Two identifiers that differ in their place in axq_tidq at most *)
Twin(u, r) ==
    /\ Alike(u, r) /\ u.aggr = r.aggr /\ u.cleanup = r.cleanup
    /\ u.incomp = r.incomp /\ u.paused = r.paused

(* A step that changes no more than what twins may differ in. *)
Aside(s, v) ==
    v.axq = s.axq /\ \A t \in Tids : s.tid[t] \in TidStates /\ Twin(v.tid[t], s.tid[t])

(* The record of t changes. *)
OnlyTid(s, v, t) == v.axq = s.axq /\ \A u \in Tids \ {t} : v.tid[u] = s.tid[u]

-----------------------------------------------------------------------------
(* The operators keep every identifier in order. *)

(* v is s with t's identifier replaced by r. *)
Sets(v, s, t, r) == v = [s EXCEPT !.tid[t] = r]

(* Records that differ in the pause and the place in axq_tidq only. *)
Mate(u, r) ==
    Alike(u, r) /\ u.aggr = r.aggr /\ u.cleanup = r.cleanup /\ u.incomp = r.incomp

(* ath_tgt_tid_drain, outside a session or when the hardware has nothing. *)
Drained(r) == [r EXCEPT !.buf_q = << >>, !.seq_next = r.seq_start, !.baw_tail = r.baw_head]

(* n frames of a clean-up have come back. *)
Fewer(r, n) == [r EXCEPT !.incomp = r.incomp - n]

(* What incomp counts once n frames more have completed *)
Enough(r, n, X) ==
    /\ Cardinality(X) <= r.incomp - n
    /\ Exactly => Cardinality(X) = r.incomp - n

(* What a session leaves alone while its frames come and go *)
SameMode(x, r) ==
    x.aggr = r.aggr /\ x.cleanup = r.cleanup /\ x.incomp = r.incomp /\ x.paused = r.paused

-----------------------------------------------------------------------------
(* The account of the buffers *)

(* What is assumed of the host and of the sizes: a station is not removed
   while its frames are in the air, and its numbers outlast the buffers. *)
Orderly ==
    /\ QuietHost
    /\ BawSize + NumBufs < SeqMax
    /\ "node" \in HostOps => Exactly

(* No buffer is lost, and every session is in order. *)
Even(s) ==
    /\ s.held = NumFrames(s) /\ s.free + s.held = NumBufs
    /\ NoReinit(s) /\ SessOk(s)

(* A station removed: nothing of it is held, and no session is open. *)
Gone(s) == s.held = 0 /\ "node" \in HostOps /\ \A t \in Tids : ~s.tid[t].aggr

(* The invariant: no buffer is lost and every session is in order; no station
   means no frames; draining happens only where the host drains. *)
SInv ==
    /\ Even(sc)
    /\ valid \/ Gone(sc)
    /\ draining => ~Exactly

-----------------------------------------------------------------------------
(* One lemma for each action *)

(* A frame got its sequence number: the state the handlers start from. *)
Numbers(s, u, t) ==
    /\ u.tid[t] = Numbered(s.tid[t])
    /\ OnlyTid(s, u, t)

(* A frame sent without aggregation moves both ends of the window. *)
Started(r) == [Numbered(r) EXCEPT !.seq_start = SeqPlus(@, 1)]

-----------------------------------------------------------------------------
(* Nobody is forgotten: what waits has been put into axq_tidq. *)

(* t waits in the list q. *)
InQ(q, t) == \E i \in 1..Len(q) : q[i] = t

(* What is always true of an identifier: sched says that it is in axq_tidq
   and its window is where the next frame fits. *)
Half(r, q, t) == (r.sched => InQ(q, t)) /\ (r.aggr => Lead(r))

(* Frames that may be sent have their identifier in axq_tidq. *)
Prompt(r, q, t) == Half(r, q, t) /\ (r.buf_q # << >> /\ ~r.paused => r.sched)
AllPrompt(s) == \A t \in Tids : Prompt(s.tid[t], s.tidq, t)

(* In the middle of a handler, for all but t. *)
AllBut(s, t) ==
    /\ \A u \in Tids \ {t} : Prompt(s.tid[u], s.tidq, u)
    /\ Half(s.tid[t], s.tidq, t)

(* From s to v only the record of t changes. *)
Beside(s, v, t) == v.tidq = s.tidq /\ \A u \in Tids \ {t} : v.tid[u] = s.tid[u]

(* No frame waits behind an empty hardware queue. *)
Idle(s) == s.axq = << >> => \A t \in Tids : s.tid[t].buf_q = << >>

(* The invariant: frames wait only where a completion will serve them. *)
Brisk(s) == AllPrompt(s) /\ Idle(s)

(* What holds with one identifier and no drain *)
Lone == Orderly /\ Exactly /\ \A a, b \in Tids : a = b

-----------------------------------------------------------------------------
(* What Complete amounts to: the oldest chain, its first frame f and the
   identifier t of f; rest is the state without the chain, Y was in flight, v
   is the outcome and k counts the buffers given back. *)

MgtDone(rest, chain, f, v, k) ==
    f.kind = "mgt" /\ v = Release(rest, 1) /\ k = Len(chain) /\ SessOk(rest)

NormalDone(rest, chain, f, t, lim, v, k) ==
    /\ f.kind = "normal" /\ v = CompNormal(rest, t, lim) /\ k = Len(chain)
    /\ t \in Tids /\ ~rest.tid[t].reinit /\ Waits(rest.tid[t], rest.axq, t)
    /\ Owes(rest, t, Flight(rest.axq, t)) /\ Flight(rest.axq, t) = {}

BarDone(rest, chain, f, t, ok, lim, v, k) ==
    /\ f.kind = "bar" /\ v = CompBar(rest, t, f, ok, lim) /\ k = Len(chain)
    /\ t \in Tids /\ f \in Frames /\ f.tid = t /\ ok \in BOOLEAN
    /\ Owes(rest, t, Flight(rest.axq, t))

(* In a the identifier t has been told what became of its frames, those it
   still has in the air are Z: ... *)
Serves(s, t, Z, a) ==
    LET x == a.tid[t]
        r == s.tid[t]
    IN  /\ r.aggr /\ SameMode(x, r) /\ Lead(x) /\ x.sched = r.sched
        /\ \E m \in Nat : InWindow(x, Z, m)
        /\ OnlyTid(s, a, t) /\ Beside(s, a, t)

(* ... a BAR may follow, and it may have to wait for a turn. *)
Served(s, t, Z, a, v) ==
    /\ Serves(s, t, Z, a)
    /\ \E b \in {a} \cup {BarTx(a, t, f) : f \in OwnFrames(t)} :
          v = Enqueue(b, t) \/ (v = b /\ a.tid[t].buf_q = s.tid[t].buf_q)

(* A chain of aggregated frames leaves the hardware queue. *)
OffAir(rest, chain, t, Y) ==
    /\ t \in Tids /\ chain \in Seq(OwnFrames(t)) /\ ~rest.tid[t].reinit
    /\ Owes(rest, t, Y) /\ Waits(rest.tid[t], rest.axq, t)
    /\ Flight(rest.axq, t) = Y \ SeqsOf(chain)
    /\ SeqsOf(chain) \subseteq Y /\ SeqsOf(chain) # {} /\ Distinct(chain)

CleanupDone(rest, chain, t, Y, lim, v, k) ==
    /\ OffAir(rest, chain, t, Y) /\ rest.tid[t].cleanup /\ chain \in Chains
    /\ Enough(rest.tid[t], Len(chain), Flight(rest.axq, t))
    /\ v = CompCleanup(rest, t, chain, lim) /\ k = CleanupCount(rest.tid[t], chain)

ServeDone(rest, chain, t, Y, v, k) ==
    /\ OffAir(rest, chain, t, Y) /\ k = Len(chain)
    /\ \E a \in States : Served(rest, t, Flight(rest.axq, t), a, v)

Completes(rest, chain, f, t, Y, ok, lim, v, k) ==
    \/ MgtDone(rest, chain, f, v, k)
    \/ NormalDone(rest, chain, f, t, lim, v, k)
    \/ BarDone(rest, chain, f, t, ok, lim, v, k)
    \/ CleanupDone(rest, chain, t, Y, lim, v, k)
    \/ ServeDone(rest, chain, t, Y, v, k)

(* incomp goes down by n; the identifier resumes when it gets to 0. *)
Counts(s, t, n, lim, v) ==
    LET r == s.tid[t]
    IN  /\ r.incomp - n # 0 => v = [s EXCEPT !.tid[t] = Fewer(r, n)]
        /\ r.incomp - n = 0 =>
             v = ResumeTid([s EXCEPT !.tid[t] = [Fewer(r, n) EXCEPT !.cleanup = FALSE]], t, lim)

(* The same, in a clean-up that expects n completions more than are due. *)
CountsOff(s, t, Y, n, lim, v) ==
    /\ s \in States /\ Owes(s, t, Y) /\ s.tid[t].cleanup
    /\ Enough(s.tid[t], n, Flight(s.axq, t))
    /\ Counts(s, t, n, lim, v)

(* The session of t is closed in p, and what ath_tgt_delba_send does then. *)
Ends(s, t, lim, p, v) ==
    LET b == PauseTid(p, t)
        x == p.tid[t]
    IN  /\ v = IF b.tid[t].cleanup THEN b ELSE ResumeTid(b, t, lim)
        /\ x \in TidStates /\ x.buf_q = << >> /\ ~x.aggr /\ x.sched = s.tid[t].sched
        /\ OnlyTid(s, p, t) /\ Beside(s, p, t) /\ Owes(p, t, Flight(s.axq, t))

(* The scheduler takes a chain of t off its queue, and sends it. *)
Turns(s, t, mid, chain, v) ==
    LET r == s.tid[t]
        x == mid.tid[t]
        X == Flight(s.axq, t)
    IN  /\ v = TxqAdd(mid, chain)
        /\ Distinct(chain) /\ SeqsOf(chain) \cap X = {} /\ Session(chain, t)
        /\ x.aggr /\ r.aggr /\ x.cleanup = r.cleanup /\ x.paused = r.paused /\ x.sched = r.sched
        /\ TidOk(x, X \cup SeqsOf(chain)) /\ Lead(x)
        /\ OnlyTid(s, mid, t) /\ Beside(s, mid, t)

(* w is u with a frame more for t, those in the air are then Z. *)
Joins(s, u, t, Z, w) ==
    LET x == w.tid[t]
        r == s.tid[t]
    IN  /\ w \in States /\ SameMode(x, r) /\ x.sched = r.sched
        /\ \E m \in Nat : InWindow(x, Z, m)
        /\ OnlyTid(s, w, t) /\ Beside(u, w, t)

(* ... and f is the last of the queue there. *)
Behind(s, t, f, w) == OwnQueue(Pushed(s.tid[t], f), t) /\ w.tid[t] = Pushed(s.tid[t], f)

(* What is left of the clean-up of t in w *)
Counted(s, t, lim, w, v) ==
    LET x == w.tid[t]
    IN  /\ Beside(s, w, t) /\ w.axq = s.axq /\ Owes(w, t, Flight(w.axq, t))
        /\ x.buf_q = << >> /\ x.sched = s.tid[t].sched /\ ~x.aggr
        /\ (v = w /\ x.cleanup) \/ (v = ResumeTid(w, t, lim) /\ w \in States)

(* What ath_node_create_tgt leaves of an identifier *)
NewTid(r) == IF r.cleanup THEN [r EXCEPT !.reinit = TRUE] ELSE TidInit(r)
=============================================================================
