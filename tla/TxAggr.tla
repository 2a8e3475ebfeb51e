------------------------------- MODULE TxAggr -------------------------------
(***************************************************************************)
(* Transmission on one access category (wlan/if_owl.c, wlan/if_ath.c):     *)
(* frames the host sends for the traffic identifiers of a station, the     *)
(* software queue of each, the aggregates formed from it, the hardware     *)
(* queue, and what a completion does: block-ack window, retries, BAR       *)
(* frames, and the clean-up when aggregation ends or the station goes.     *)
(*                                                                         *)
(* The record sc stands for ath_softc_tgt.  A handler of the firmware runs *)
(* to completion, so it is one action; the functions it calls are          *)
(* operators from records to records.  Rates, descriptors and lengths are  *)
(* left out but for their effect: how many frames fit in an aggregate.     *)
(***************************************************************************)
EXTENDS Baw, Sequences, FiniteSets, SequencesExt

CONSTANTS
    Tids,           \* the traffic identifiers that share the hardware queue
    NumBufs,        \* ATH_TXBUF: transmit buffers, and credits of the host
    MaxRetries,     \* OWLMAX_RETRIES
    MaxBarRetries,  \* OWLMAX_BAR_RETRIES
    MaxAggr,        \* frames of an aggregate: ATH_MIN(h_baw, 17 or 22)
    HostOps,        \* what the host does beside sending data
    QuietHost       \* the host waits for quiet before it enables or removes

ASSUME TxAssumption ==
    /\ IsFiniteSet(Tids)
    /\ NumBufs \in Nat \ {0}
    /\ MaxRetries \in Nat
    /\ MaxBarRetries \in Nat
    /\ MaxAggr \in 1..BawSize
    /\ HostOps \subseteq {"aggr", "mgt", "node", "drain"}
    /\ QuietHost \in BOOLEAN

VARIABLES
    sc,        \* ath_softc_tgt
    valid,     \* an_valid of the station
    draining,  \* sc_tx_draining
    txdone,    \* the hardware has finished the chain at the head of its queue
    acked      \* and reports these sequence numbers of it as received

vars == <<sc, valid, draining, txdone, acked>>

NoTid == "none"

(* ath_tx_buf with a frame in it.  kind is its completion function, and    *)
(* bf_isretried is retries > 0.                                            *)
Frames ==
    [kind: {"normal", "aggr", "bar", "mgt"},
     tid: Tids \cup {NoTid},
     seq: SeqNos,
     retries: Nat]

(* ath_atx_tid                                                             *)
TidStates ==
    [seq_start: SeqNos, seq_next: SeqNos,
     baw_head: Slots, baw_tail: Slots, bitmap: SUBSET Slots,
     buf_q: Seq(Frames),
     paused: BOOLEAN, sched: BOOLEAN,
     aggr: BOOLEAN,       \* TID_AGGR_ENABLED
     cleanup: BOOLEAN,    \* TID_CLEANUP_INPROGRES
     reinit: BOOLEAN,     \* TID_REINITIALIZE
     incomp: Int]

Softcs ==
    [tid: [Tids -> TidStates],
     axq: Seq(Seq(Frames)),  \* axq_q: one chain of frames per entry
     tidq: Seq(Tids),        \* axq_tidq
     free: Nat,              \* buffers in sc_txbuf
     held: Nat]              \* host buffers not yet given back to HTC

(* owl_tgt_tid_init, which leaves incomp as it is                          *)
TidInit(r) ==
    [r EXCEPT !.seq_start = 0, !.seq_next = 0, !.baw_head = 0, !.baw_tail = 0,
              !.bitmap = {}, !.buf_q = << >>, !.paused = FALSE,
              !.sched = FALSE, !.aggr = FALSE, !.cleanup = FALSE,
              !.reinit = FALSE]

FreshTid ==
    [seq_start |-> 0, seq_next |-> 0, baw_head |-> 0, baw_tail |-> 0,
     bitmap |-> {}, buf_q |-> << >>, paused |-> FALSE, sched |-> FALSE,
     aggr |-> FALSE, cleanup |-> FALSE, reinit |-> FALSE, incomp |-> 0]

(* The station has been created and nothing has been sent.                 *)
Init ==
    /\ sc = [tid |-> [t \in Tids |-> FreshTid], axq |-> << >>,
             tidq |-> << >>, free |-> NumBufs, held |-> 0]
    /\ valid = TRUE
    /\ draining = FALSE
    /\ txdone = FALSE
    /\ acked = {}

----------------------------------------------------------------------------
(* Queues *)

(* ath_tx_freebuf and ath_buf_comp, for n frames                           *)
Release(s, n) == [s EXCEPT !.free = @ + n, !.held = @ - n]

(* ath_tgt_txq_add_ucast, ath_tgt_txqaddbuf                                *)
TxqAdd(s, chain) == [s EXCEPT !.axq = Append(@, chain)]

(* ath_tgt_tx_enqueue                                                      *)
Enqueue(s, t) ==
    IF s.tid[t].paused \/ s.tid[t].sched
    THEN s
    ELSE [s EXCEPT !.tid[t].sched = TRUE, !.tidq = Append(@, t)]

(* ath_tx_addto_baw on each frame of a sequence                            *)
AddAllToBaw(r, frames) ==
    FoldLeft(LAMBDA w, f : IF f.retries > 0 THEN w ELSE AddToBaw(w, f.seq),
             r, frames)

(* ath_tx_update_baw on each frame of a sequence that is in F              *)
UpdateBawFor(r, frames, F) ==
    FoldLeft(LAMBDA w, f : IF f \in F THEN UpdateBaw(w, f.seq) ELSE w, r, frames)

(* ath_tgt_tx_form_aggr: how many frames of buf_q go out together.  lim is *)
(* what the rate, the length limits and MaxAggr allow.                     *)
FormAggr(r, lim) ==
    LET inBaw == {n \in 0..Len(r.buf_q) :
                    \A i \in 1..n : BawWithin(r.seq_start, r.buf_q[i].seq)}
    IN  Min({lim, Max(inBaw)})

(* ath_tgt_tx_sched_aggr and ath_tgt_tx_sched_normal: one chain, since     *)
(* ATH_AGGR_MIN_QDEPTH is 1 and a chain sent makes the queue that deep.    *)
SchedTid(s, t, lim) ==
    LET r == s.tid[t]
        n == IF r.aggr THEN FormAggr(r, lim) ELSE Min({1, Len(r.buf_q)})
        chain == SubSeq(r.buf_q, 1, n)
        w == IF r.aggr THEN AddAllToBaw(r, chain) ELSE r
    IN  IF n = 0
        THEN s
        ELSE TxqAdd([s EXCEPT !.tid[t] =
                        [w EXCEPT !.buf_q = SubSeq(@, n + 1, Len(@))]],
                    chain)

(* Seeded fault: sched stays set.                                          *)
Unlink_KeepsSched(s, n) == [s EXCEPT !.tidq = SubSeq(@, n + 1, Len(@))]

(* ath_tgt_txq_schedule takes paused identifiers off axq_tidq up to the    *)
(* first that is not paused; Unlink takes off the first n.                 *)
Unlink(s, n) ==
    [s EXCEPT !.tid = [t \in Tids |->
                          IF t \in ToSet(SubSeq(s.tidq, 1, n))
                          THEN [@[t] EXCEPT !.sched = FALSE] ELSE @[t]],
              !.tidq = SubSeq(@, n + 1, Len(@))]

(* Seeded fault: an identifier with frames left is not queued again.       *)
Schedule_DropsRest(s, lim) ==
    LET ready == {i \in 1..Len(s.tidq) : ~s.tid[s.tidq[i]].paused}
        n == IF ready = {} THEN Len(s.tidq) ELSE Min(ready)
    IN  IF ready = {} THEN Unlink(s, n) ELSE SchedTid(Unlink(s, n), s.tidq[n], lim)

Schedule(s, lim) ==
    LET ready == {i \in 1..Len(s.tidq) : ~s.tid[s.tidq[i]].paused}
        n == IF ready = {} THEN Len(s.tidq) ELSE Min(ready)
        t == s.tidq[n]
        sent == SchedTid(Unlink(s, n), t, lim)
    IN  CASE ready = {} -> Unlink(s, n)
          [] ready # {} /\ sent.tid[t].buf_q # << >> -> Enqueue(sent, t)
          [] OTHER -> sent

(* ath_aggr_pause_tid and ath_aggr_resume_tid                              *)
PauseTid(s, t) == [s EXCEPT !.tid[t].paused = TRUE]
ResumeTid(s, t, lim) ==
    LET resumed == [s EXCEPT !.tid[t].paused = FALSE]
    IN  IF s.tid[t].buf_q = << >>
        THEN resumed
        ELSE Schedule(Enqueue(resumed, t), lim)

----------------------------------------------------------------------------
(* The end of aggregation *)

(* The frames that wait for a retry: bf_isretried                          *)
Waiting(r) == {f \in ToSet(r.buf_q) : f.retries > 0}

(* Seeded fault: a clean-up with nothing outstanding leaves the pause.     *)
TxCleanup_StaysPaused(s, t, lim) ==
    LET r == s.tid[t]
        w == UpdateBawFor(r, r.buf_q, Waiting(r))
    IN  PauseTid([Release(s, Len(r.buf_q)) EXCEPT !.tid[t] =
                    [CloseBaw(w) EXCEPT
                        !.buf_q = << >>,
                        !.incomp = @ + Cardinality(Busy(w)),
                        !.cleanup = @ \/ Busy(w) # {}]], t)

(* ath_tgt_tx_cleanup, always called with discard_all: the queued frames   *)
(* are dropped and the frames in the hardware queue are counted in incomp. *)
TxCleanup(s, t, lim) ==
    LET r == s.tid[t]
        w == UpdateBawFor(r, r.buf_q, Waiting(r))
        closed == PauseTid([Release(s, Len(r.buf_q)) EXCEPT !.tid[t] =
                    [CloseBaw(w) EXCEPT
                        !.buf_q = << >>,
                        !.incomp = @ + Cardinality(Busy(w)),
                        !.cleanup = @ \/ Busy(w) # {}]], t)
    IN  IF closed.tid[t].cleanup THEN closed ELSE ResumeTid(closed, t, lim)

(* Seeded fault: the window keeps the frames that were dropped.            *)
TidDrain_KeepsTail(s, t) ==
    [Release(s, Len(s.tid[t].buf_q)) EXCEPT
        !.tid[t].buf_q = << >>,
        !.tid[t].seq_next = s.tid[t].seq_start]

(* Seeded fault: the buffers of the frames dropped are forgotten.          *)
TidDrain_Leaks(s, t) ==
    [s EXCEPT
        !.tid[t].buf_q = << >>,
        !.tid[t].seq_next = s.tid[t].seq_start,
        !.tid[t].baw_tail = s.tid[t].baw_head]

(* ath_tgt_tid_drain.  The bits of the window are left as they are.        *)
TidDrain(s, t) ==
    [Release(s, Len(s.tid[t].buf_q)) EXCEPT
        !.tid[t].buf_q = << >>,
        !.tid[t].seq_next = s.tid[t].seq_start,
        !.tid[t].baw_tail = s.tid[t].baw_head]

(* owl_tgt_tid_cleanup: one frame of a clean-up has completed.             *)
TidCleanup(s, t, lim) ==
    LET r == [s.tid[t] EXCEPT !.incomp = @ - 1]
        done == [s EXCEPT !.tid[t] = [r EXCEPT !.cleanup = FALSE]]
    IN  CASE r.incomp # 0 -> [s EXCEPT !.tid[t] = r]
          [] r.incomp = 0 /\ r.reinit -> [done EXCEPT !.tid[t] = TidInit(r)]
          [] OTHER        -> ResumeTid(done, t, lim)

(* ath_tx_comp_cleanup.  A single frame goes through owl_tgt_tid_cleanup.  *)
(* The loop over an aggregate stops where incomp reaches zero, forgets the *)
(* frames after it, and does not look at TID_REINITIALIZE.                 *)
CompCleanup(s, t, chain, lim) ==
    LET r == s.tid[t]
        n == IF r.incomp \in 1..Len(chain) THEN r.incomp ELSE Len(chain)
        counted == [Release(s, n) EXCEPT !.tid[t].incomp = @ - n]
    IN  CASE Len(chain) = 1 -> TidCleanup(Release(s, 1), t, lim)
          [] Len(chain) > 1 /\ r.incomp # n -> counted
          [] OTHER -> ResumeTid([counted EXCEPT !.tid[t].cleanup = FALSE], t, lim)

----------------------------------------------------------------------------
(* BAR frames *)

(* ath_bar_tx: the buffer of the frame given up carries the BAR, and keeps *)
(* its retry count.                                                        *)
BarTx(s, t, f) ==
    TxqAdd(PauseTid(s, t),
           <<[f EXCEPT !.kind = "bar", !.seq = s.tid[t].seq_start]>>)

(* ath_tgt_delba_send                                                      *)
DelbaSend(s, t, lim) == TxCleanup([s EXCEPT !.tid[t].aggr = FALSE], t, lim)

(* ath_bar_tx_comp and ath_bar_retry                                       *)
CompBar(s, t, f, ok, lim) ==
    CASE ok -> Release(ResumeTid(s, t, lim), 1)
      [] ~ok /\ f.retries >= MaxBarRetries ->
            Release(TidDrain(DelbaSend(s, t, lim), t), 1)
      [] OTHER -> TxqAdd(s, <<[f EXCEPT !.retries = @ + 1]>>)

----------------------------------------------------------------------------
(* Completions.  ack holds the sequence numbers of the chain that were     *)
(* received; a single frame that is not in it failed with                  *)
(* HAL_TXERR_XRETRY, an aggregate with none in it as a whole.              *)

Retried(f) == [f EXCEPT !.retries = @ + 1]

(* TAILQ_INSERTQ_HEAD                                                      *)
Prepend(r, frames) == [r EXCEPT !.buf_q = frames \o @]

(* bf_q of ath_tgt_tx_comp_aggr: the frames that are not done, for a retry *)
RetryAll(chain, done) ==
    FoldLeft(LAMBDA q, f : IF f \in done THEN q ELSE Append(q, Retried(f)),
             << >>, chain)

(* Seeded fault: when two frames of an aggregate are given up, the buffer  *)
(* of the second is not freed.                                             *)
CompAggr_LosesSecond(s, t, chain, ack, lim) ==
    LET done == {f \in ToSet(chain) : f.seq \in ack \/ f.retries >= MaxRetries}
        given == {i \in DOMAIN chain : chain[i] \in done /\ chain[i].seq \notin ack}
        again == RetryAll(chain, done)
        r == Prepend(UpdateBawFor(s.tid[t], chain, done), again)
        freed == [Release(s, Len(chain) - Len(again) - Cardinality(given))
                    EXCEPT !.tid[t] = r]
        barred == IF given = {} THEN freed ELSE BarTx(freed, t, chain[Min(given)])
    IN  IF again = << >> THEN barred ELSE Enqueue(barred, t)

(* ath_tgt_tx_comp_aggr, ath_tx_comp_aggr_error, ath_tx_retry_subframe: a  *)
(* frame is done when it was received or has no retry left, and the first  *)
(* frame given up becomes a BAR.                                           *)
CompAggr(s, t, chain, ack, lim) ==
    LET done == {f \in ToSet(chain) : f.seq \in ack \/ f.retries >= MaxRetries}
        given == {i \in DOMAIN chain : chain[i] \in done /\ chain[i].seq \notin ack}
        again == RetryAll(chain, done)
        r == Prepend(UpdateBawFor(s.tid[t], chain, done), again)
        spare == Len(chain) - Len(again) - (IF given = {} THEN 0 ELSE 1)
        freed == [Release(s, spare) EXCEPT !.tid[t] = r]
        barred == IF given = {} THEN freed ELSE BarTx(freed, t, chain[Min(given)])
    IN  IF again = << >> THEN barred ELSE Enqueue(barred, t)

(* Seeded fault: a frame that is given up keeps its place in the window.   *)
CompUnaggr_KeepsPlace(s, t, f, ok) ==
    LET done == [s EXCEPT !.tid[t] = UpdateBaw(@, f.seq)]
    IN  CASE ok -> Release(done, 1)
          [] ~ok /\ f.retries >= MaxRetries -> BarTx(s, t, f)
          [] OTHER -> Enqueue([s EXCEPT !.tid[t] = Prepend(@, <<Retried(f)>>)], t)

(* ath_tx_comp_unaggr and ath_tx_retry_unaggr                              *)
CompUnaggr(s, t, f, ok) ==
    LET done == [s EXCEPT !.tid[t] = UpdateBaw(@, f.seq)]
    IN  CASE ok -> Release(done, 1)
          [] ~ok /\ f.retries >= MaxRetries -> BarTx(done, t, f)
          [] OTHER -> Enqueue([s EXCEPT !.tid[t] = Prepend(@, <<Retried(f)>>)], t)

(* ath_tgt_tx_comp_normal                                                  *)
CompNormal(s, t, lim) ==
    Release(IF s.tid[t].cleanup THEN TidCleanup(s, t, lim) ELSE s, 1)

SeqsOf(chain) == {chain[i].seq : i \in DOMAIN chain}

(* An iteration of owltgt_tx_processq: the head of the hardware queue is   *)
(* taken off and its completion function called.                           *)
Complete(s, ack, lim) ==
    LET chain == Head(s.axq)
        f == Head(chain)
        t == f.tid
        rest == [s EXCEPT !.axq = Tail(@)]
        ok == f.seq \in ack
    IN  CASE f.kind = "mgt"    -> Release(rest, 1)
          [] f.kind = "normal" -> CompNormal(rest, t, lim)
          [] f.kind = "bar"    -> CompBar(rest, t, f, ok, lim)
          [] f.kind = "aggr" /\ rest.tid[t].cleanup -> CompCleanup(rest, t, chain, lim)
          [] f.kind = "aggr" /\ ~rest.tid[t].cleanup /\ Len(chain) = 1 ->
                CompUnaggr(rest, t, f, ok)
          [] OTHER -> CompAggr(rest, t, chain, ack, lim)

Limits == 1..MaxAggr

(* The hardware finishes the chain at the head of its queue: the status    *)
(* ah_procTxDesc finds in its last descriptor.                             *)
HwDone ==
    /\ ~txdone
    /\ sc.axq # << >>
    /\ txdone' = TRUE
    /\ acked' \in SUBSET SeqsOf(Head(sc.axq))
    /\ UNCHANGED <<sc, valid, draining>>

(* owl_tgt_tx_tasklet: a completion and the scheduling that follows it.    *)
TxComplete ==
    /\ ~draining
    /\ txdone
    /\ \E lim1 \in Limits, lim2 \in Limits :
          sc' = Schedule(Complete(sc, acked, lim1), lim2)
    /\ txdone' = FALSE
    /\ acked' = {}
    /\ UNCHANGED <<valid, draining>>

----------------------------------------------------------------------------
(* Frames from the host *)

(* The host has a credit for every buffer it has not given away.           *)
HasCredit == sc.held < NumBufs

FrameOf(t, kind) ==
    [kind |-> kind, tid |-> t, seq |-> sc.tid[t].seq_next, retries |-> 0]

(* ath_tgt_tx_prepare and ath_tgt_tx_seqno_normal: a buffer and a sequence *)
(* number for an unfragmented frame.                                       *)
Prepared(t) ==
    [sc EXCEPT !.free = @ - 1, !.held = @ + 1, !.tid[t].seq_next = SeqPlus(@, 1)]

(* ath_tgt_handle_normal                                                   *)
HandleNormal(s, t, f) ==
    TxqAdd([s EXCEPT !.tid[t].seq_start = SeqPlus(@, 1)], <<f>>)

(* ath_tgt_handle_aggr                                                     *)
HandleAggr(s, t, f) ==
    IF \/ s.axq # << >>
       \/ s.tid[t].buf_q # << >>
       \/ s.tid[t].paused
       \/ ~BawWithin(s.tid[t].seq_start, f.seq)
    THEN Enqueue([s EXCEPT !.tid[t].buf_q = Append(@, f)], t)
    ELSE TxqAdd([s EXCEPT !.tid[t] = AddToBaw(@, f.seq)], <<f>>)

(* tgt_HTCRecvMessageHandler; a frame that is dropped is given back.       *)
RecvData(t) ==
    /\ ~draining
    /\ HasCredit
    /\ valid /\ ~sc.tid[t].reinit /\ sc.free > 0
    /\ sc' = IF sc.tid[t].aggr
             THEN HandleAggr(Prepared(t), t, FrameOf(t, "aggr"))
             ELSE HandleNormal(Prepared(t), t, FrameOf(t, "normal"))
    /\ UNCHANGED <<valid, draining, txdone, acked>>

(* ath_tgt_send_mgt takes a buffer before it looks for the station, and    *)
(* does not put it back when there is none.  A quiet host sends only to a  *)
(* station it has not removed.                                             *)
RecvMgt ==
    /\ ~draining
    /\ "mgt" \in HostOps
    /\ HasCredit
    /\ QuietHost => valid
    /\ sc.free > 0
    /\ LET taken == [sc EXCEPT !.free = @ - 1]
           f == [kind |-> "mgt", tid |-> NoTid, seq |-> 0, retries |-> 0]
       IN  sc' = IF valid THEN TxqAdd([taken EXCEPT !.held = @ + 1], <<f>>) ELSE taken
    /\ UNCHANGED <<valid, draining, txdone, acked>>

----------------------------------------------------------------------------
(* Commands from the host *)

InFlight(s) == UNION {ToSet(s.axq[i]) : i \in DOMAIN s.axq}

(* A quiet host enables aggregation only when no frame it sent without     *)
(* aggregation is in flight, no clean-up goes on, and the sequence numbers *)
(* of frames dropped by earlier clean-ups, which seq_start has yet to      *)
(* pass, do not fill the window.                                           *)
QuietTid(t) ==
    /\ ~sc.tid[t].cleanup
    /\ BawWithin(sc.tid[t].seq_start, sc.tid[t].seq_next)
    /\ \A f \in InFlight(sc) : f.tid = t => f.kind \notin {"normal", "bar"}

(* ath_enable_aggr_tgt                                                     *)
EnableAggr(t) ==
    /\ ~draining
    /\ ~sc.tid[t].aggr
    /\ valid
    /\ QuietHost => QuietTid(t)
    /\ sc' = [sc EXCEPT !.tid[t].aggr = TRUE]
    /\ UNCHANGED <<valid, draining, txdone, acked>>

DisableAggr(t) ==
    /\ ~draining
    /\ "aggr" \in HostOps
    /\ valid
    /\ sc.tid[t].aggr
    /\ \E lim \in Limits :
          sc' = TxCleanup([sc EXCEPT !.tid[t].aggr = FALSE], t, lim)
    /\ UNCHANGED <<valid, draining, txdone, acked>>

(* ath_node_create_tgt and owl_tgt_node_init                               *)
NodeCreate ==
    /\ ~draining
    /\ "node" \in HostOps
    /\ ~valid
    /\ valid' = TRUE
    /\ sc' = [sc EXCEPT !.tid = [t \in Tids |->
                IF @[t].cleanup THEN [@[t] EXCEPT !.reinit = TRUE]
                                ELSE TidInit(@[t])]]
    /\ UNCHANGED <<draining, txdone, acked>>

(* ath_node_cleanup_tgt.  The host ends aggregation first.                 *)
NodeCleanup ==
    /\ ~draining
    /\ "node" \in HostOps
    /\ valid
    /\ \A t \in Tids : ~sc.tid[t].aggr
    /\ QuietHost => sc.held = 0
    /\ valid' = FALSE
    /\ UNCHANGED <<sc, draining, txdone, acked>>

(* ath_draintxq: every chain of the stopped queue is completed without     *)
(* scheduling, then the identifiers that wait in axq_tidq are drained.  A  *)
(* chain the hardware has not finished gets HAL_OK and no block ack, which *)
(* is success for a single frame and failure for an aggregate.             *)
DrainStatus ==
    LET chain == Head(sc.axq)
    IN  CASE txdone -> acked
          [] ~txdone /\ Len(chain) = 1 -> SeqsOf(chain)
          [] OTHER -> {}

DrainStart ==
    /\ "drain" \in HostOps
    /\ ~draining
    /\ draining' = TRUE
    /\ UNCHANGED <<sc, valid, txdone, acked>>

DrainNext ==
    /\ draining
    /\ sc.axq # << >>
    /\ \E lim \in Limits : sc' = Complete(sc, DrainStatus, lim)
    /\ txdone' = FALSE
    /\ acked' = {}
    /\ UNCHANGED <<valid, draining>>

DrainEnd ==
    /\ draining
    /\ sc.axq = << >>
    /\ draining' = FALSE
    /\ sc' = FoldLeft(TidDrain, Unlink(sc, Len(sc.tidq)), sc.tidq)
    /\ UNCHANGED <<valid, txdone, acked>>

----------------------------------------------------------------------------
Next ==
    \/ HwDone
    \/ TxComplete
    \/ \E t \in Tids : RecvData(t) \/ EnableAggr(t) \/ DisableAggr(t)
    \/ RecvMgt
    \/ NodeCreate
    \/ NodeCleanup
    \/ DrainStart
    \/ DrainNext
    \/ DrainEnd

(* The hardware finishes or gives up what it was given, the main loop runs *)
(* the tasklet of a finished chain, and a drain runs to its end.  The last *)
(* two are weak fairness of TxComplete and of DrainNext \/ DrainEnd, which *)
(* stay enabled until they end txdone and draining.                        *)
Fairness == WF_vars(HwDone) /\ []<>~txdone /\ []<>~draining

Spec == Init /\ [][Next]_vars /\ Fairness

----------------------------------------------------------------------------
(* Properties *)

Chained(s, t) == {f \in InFlight(s) : f.tid = t /\ f.kind = "aggr"}
NumFrames(s) ==
    FoldLeft(LAMBDA n, c : n + Len(c), 0, s.axq)
    + FoldFunction(LAMBDA r, n : n + Len(r.buf_q), 0, s.tid)

TypeOK ==
    /\ sc \in Softcs
    /\ valid \in BOOLEAN
    /\ draining \in BOOLEAN
    /\ txdone \in BOOLEAN
    /\ acked \subseteq SeqNos

(* Every buffer is free or carries a frame that some queue holds, and the  *)
(* host is owed exactly those frames: retries, BARs that reuse the buffer  *)
(* of a frame given up, clean-ups and drains lose none and free none twice *)
(* (ath_tx_freebuf, ath_buf_comp).                                         *)
BufferConservation ==
    /\ sc.free + NumFrames(sc) = NumBufs
    /\ sc.held = NumFrames(sc)

(* Outside a clean-up the bits between baw_head and baw_tail are exactly   *)
(* the frames sent at least once and not finished: in the hardware queue,  *)
(* or waiting to be retried (ath_tx_addto_baw, ath_tx_update_baw).         *)
WindowExact ==
    \A t \in Tids :
        LET r == sc.tid[t]
        IN  ~r.cleanup =>
              Outstanding(r) = {f.seq : f \in Chained(sc, t) \cup Waiting(r)}

(* sched says whether the identifier is in axq_tidq, and it is there once: *)
(* a second insertion would break the list (ath_tgt_tx_enqueue).           *)
TidqOnce ==
    \A t \in Tids :
        Cardinality({i \in DOMAIN sc.tidq : sc.tidq[i] = t})
          = (IF sc.tid[t].sched THEN 1 ELSE 0)

(* Frames wait only for a reason: the identifier is in axq_tidq and a      *)
(* completion that will schedule it is due, or it is paused                *)
(* (ath_tgt_txq_schedule is called from completions only).                 *)
NoStuckTid ==
    ~draining =>
      \A t \in Tids :
        sc.tid[t].buf_q # << >> /\ ~sc.tid[t].paused
          => sc.tid[t].sched /\ sc.axq # << >>

(* An identifier is paused only while a BAR of it is in flight or frames   *)
(* of a clean-up are, so that a completion will resume it, and incomp      *)
(* counts the frames of the clean-up (ath_aggr_pause_tid).                 *)
PausedHasReason ==
    \A t \in Tids :
        LET r == sc.tid[t]
        IN  /\ r.paused => \/ r.cleanup
                           \/ \E f \in InFlight(sc) : f.tid = t /\ f.kind = "bar"
            /\ r.cleanup => /\ r.incomp > 0
                            /\ r.incomp = Cardinality(Chained(sc, t))

(* The window of an identifier does not stay where it is with a frame      *)
(* outstanding: the frame is received, or given up after its retries.      *)
WindowAdvances ==
    \A t \in Tids : \A k \in SeqNos :
        (sc.tid[t].seq_start = k /\ Busy(sc.tid[t]) # {})
          ~> ~(sc.tid[t].seq_start = k /\ Busy(sc.tid[t]) # {})

(* A frame that the host has a credit for, to a station it knows, finds a  *)
(* transmit buffer: the assertion of ath_tx_buf_alloc.                     *)
TxBufAvailable == HasCredit /\ valid => sc.free > 0
=============================================================================
