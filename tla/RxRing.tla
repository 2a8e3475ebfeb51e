------------------------------- MODULE RxRing -------------------------------
(***************************************************************************)
(* The receive path of the WLAN driver (if_ath.c): the ring of receive     *)
(* descriptors the MAC follows, the handler that takes finished frames     *)
(* out of it, the tasklet that sends them to the host, the completion that *)
(* gives the buffers back, and the start and stop commands of the host.    *)
(*                                                                         *)
(* The MAC works while the firmware runs: every iteration of a loop of the *)
(* firmware is a step of its own.  Free buffers are interchangeable, so    *)
(* the pool is a number; a buffer attached to a descriptor is known by the *)
(* segment in it and by the length the firmware gave it.                   *)
(***************************************************************************)
EXTENDS Integers, FiniteSets, SequencesExt

CONSTANTS NumDescs,   \* ath_numrxdescs, ath_numrxbufs
          MaxSegs,    \* descriptors one frame may fill
          MaxFrames,  \* bound: frames received
          MaxStarts   \* bound: WMI_START_RECV commands

(***************************************************************************)
(* 1664-byte buffers: the longest frame fills five of at least eleven.     *)
(***************************************************************************)
ASSUME RxAssumption ==
    /\ NumDescs \in Nat /\ MaxSegs \in Nat \ {0} /\ MaxSegs + 2 <= NumDescs
    /\ MaxFrames \in Nat /\ MaxStarts \in Nat

VARIABLES sc,      \* the receive part of ath_softc_tgt, and the pool
          desc,    \* the descriptors
          ready,   \* the ath_rx_bufs with ATH_BUFSTATUS_DONE, in order
          up,      \* the frames in the hands of HTC
          loc,     \* where the main loop is, and the locals of the handler
          hw,      \* the MAC
          on,      \* reception has been started
          starts,  \* start commands so far
          sent,    \* the last frame given to HTC
          cut      \* a restart kept a buffer whose length was already set

vars == <<sc, desc, ready, up, loc, hw, on, starts, sent, cut>>

Descs == 1 .. NumDescs
NoDesc == 0
DescOrNull == Descs \cup {NoDesc}

\* Segment i of n of frame f.
Segs == {<<f, i, n>> : f \in 1 .. MaxFrames, i \in 1 .. MaxSegs, n \in 1 .. MaxSegs}
NoSeg == <<>>
SegsOrNone == Segs \cup {NoSeg}
\* The length of a buffer: not set, or that of the segment in it.
NoLen == <<>>
Lens == {<<s>> : s \in Segs} \cup {NoLen}
Nbufs == [data : SegsOrNone, len : Lens]

(***************************************************************************)
(* ath_rx_desc: ds_link, whether ds_nbuf is set, AR_RxDone, and the buffer.*)
(***************************************************************************)
RxDescs == [link : DescOrNull, nbuf : BOOLEAN, done : BOOLEAN,
            data : SegsOrNone, len : Lens]

Softcs == [rxdesc : Seq(Descs), idle : Seq(Descs), held : DescOrNull,
           rxlink : DescOrNull, pool : 0 .. NumDescs]

Places == {"poll", "start", "scan", "take", "drop", "tasklet", "complete"}

Locals == [at : Places, ds : DescOrNull, head : DescOrNull, tail : DescOrNull,
           cnt : 0 .. NumDescs, bf : 1 .. NumDescs + 1, frame : Seq(Nbufs),
           frags : 0 .. MaxSegs]

Polling == [at |-> "poll", ds |-> NoDesc, head |-> NoDesc, tail |-> NoDesc,
            cnt |-> 0, bf |-> 1, frame |-> <<>>, frags |-> 0]

Macs == [rxdp : DescOrNull, rxe : BOOLEAN, isr : BOOLEAN, seg : SegsOrNone,
         frames : 0 .. MaxFrames]

(***************************************************************************)
(* ath_desc_alloc, and the pool ath_tgt_attach fills.                      *)
(***************************************************************************)
Init ==
    /\ sc = [rxdesc |-> [i \in Descs |-> i], idle |-> <<>>, held |-> NoDesc,
             rxlink |-> NoDesc, pool |-> NumDescs]
    /\ desc = [d \in Descs |->
                 [link |-> IF d = NumDescs THEN NoDesc ELSE d + 1,
                  nbuf |-> FALSE, done |-> FALSE, data |-> NoSeg, len |-> NoLen]]
    /\ ready = <<>> /\ up = <<>> /\ loc = Polling
    /\ hw = [rxdp |-> NoDesc, rxe |-> FALSE, isr |-> FALSE, seg |-> NoSeg,
             frames |-> 0]
    /\ on = FALSE /\ starts = 0 /\ sent = 0 /\ cut = FALSE

-----------------------------------------------------------------------------
(* Lists *)

First(list) == IF list = <<>> THEN NoDesc ELSE Head(list)

\* asf_tailq_next
NextIn(list, d) ==
    LET after == {i \in 2 .. Len(list) : list[i - 1] = d}
    IN  IF after = {} THEN NoDesc ELSE list[CHOOSE i \in after : TRUE]

\* asf_tailq_remove
Without(list, d) == RemoveFirst(list, d)

-----------------------------------------------------------------------------
(* ath_rxdesc_init *)

(***************************************************************************)
(* The descriptor handed in becomes the held one and the one held before   *)
(* is set up and linked, unless it needs a buffer and the pool has none.   *)
(***************************************************************************)
InitFails(s, m) ==
    s.held # NoDesc /\ ~m[s.held].nbuf /\ s.pool = 0

InitSc(s, m, d) ==
    [s EXCEPT !.held = d,
              !.rxlink = IF s.held = NoDesc THEN @ ELSE s.held,
              !.pool = IF s.held # NoDesc /\ ~m[s.held].nbuf THEN @ - 1 ELSE @]

\* A buffer that stays attached keeps the length it has.
SetUp(r) ==
    [link |-> NoDesc, nbuf |-> TRUE, done |-> FALSE, data |-> NoSeg,
     len |-> IF r.nbuf THEN r.len ELSE NoLen]

InitDesc(s, m) ==
    [e \in Descs |->
        IF e = s.held THEN SetUp(m[e])
        ELSE IF e = s.rxlink /\ s.held # NoDesc THEN [m[e] EXCEPT !.link = s.held]
        ELSE m[e]]

\* Mutant: without ah_enableReceive.
InitHw_NoEnable(s) ==
    IF s.held = NoDesc \/ s.rxlink # NoDesc THEN hw ELSE [hw EXCEPT !.rxdp = s.held, !.rxe = TRUE]

\* ah_setRxDP when there is nothing to link to, and ah_enableReceive.
InitHw(s) ==
    IF s.held = NoDesc THEN hw
    ELSE [hw EXCEPT !.rxdp = IF s.rxlink = NoDesc THEN s.held ELSE @,
                    !.rxe = TRUE]

(***************************************************************************)
(* Hand in descriptor d with the lists s and the descriptors m, leaving it *)
(* at the end of sc_rxdesc, or of sc_rxdesc_idle when there is no memory.  *)
(***************************************************************************)
HandIn(s, m, d) ==
    IF InitFails(s, m)
    THEN /\ sc' = [s EXCEPT !.rxdesc = Without(@, d), !.idle = Append(@, d)]
         /\ desc' = m
         /\ UNCHANGED hw
    ELSE /\ sc' = [InitSc(s, m, d) EXCEPT !.rxdesc = Append(Without(@, d), d)]
         /\ desc' = InitDesc(s, m)
         /\ hw' = InitHw(s)

-----------------------------------------------------------------------------
(* Commands of the host *)

(***************************************************************************)
(* ath_startrecv: forget the list of the MAC and build it again from       *)
(* sc_rxdesc.  The host switches the receiver on when the command returns. *)
(***************************************************************************)
StartRecv ==
    /\ loc.at = "poll" /\ ~on /\ starts < MaxStarts
    /\ sc' = [sc EXCEPT !.rxlink = NoDesc, !.held = NoDesc]
    /\ loc' = [loc EXCEPT !.at = "start", !.ds = First(sc.rxdesc)]
    /\ starts' = starts + 1
    /\ cut' = (cut \/ \E d \in Range(sc.rxdesc) : desc[d].nbuf /\ desc[d].len # NoLen)
    /\ UNCHANGED <<desc, ready, up, hw, on, sent>>

StartStep ==
    /\ loc.at = "start" /\ loc.ds # NoDesc /\ ~InitFails(sc, desc)
    /\ sc' = InitSc(sc, desc, loc.ds)
    /\ desc' = InitDesc(sc, desc)
    /\ hw' = InitHw(sc)
    /\ loc' = [loc EXCEPT !.ds = NextIn(sc.rxdesc, loc.ds)]
    /\ UNCHANGED <<ready, up, on, starts, sent, cut>>

\* The error of ath_rxdesc_init ends the loop early; ath_startrecv_tgt ignores it.
StartEnd ==
    /\ loc.at = "start" /\ (loc.ds = NoDesc \/ InitFails(sc, desc))
    /\ hw' = [hw EXCEPT !.rxdp = IF loc.ds = NoDesc THEN First(sc.rxdesc) ELSE @]
    /\ loc' = Polling
    /\ on' = TRUE
    /\ UNCHANGED <<sc, desc, ready, up, starts, sent, cut>>

\* ath_stoprecv_tgt: the frame on the air is lost.
StopRecv ==
    /\ loc.at = "poll" /\ on
    /\ on' = FALSE
    /\ sc' = [sc EXCEPT !.rxlink = NoDesc]
    /\ hw' = [hw EXCEPT !.rxe = FALSE, !.seg = NoSeg]
    /\ UNCHANGED <<desc, ready, up, loc, starts, sent, cut>>

-----------------------------------------------------------------------------
(* ath_intr and ath_uapsd_processtriggers *)

AthIntr ==
    /\ loc.at = "poll" /\ hw.isr
    /\ hw' = [hw EXCEPT !.isr = FALSE]
    /\ loc' = [Polling EXCEPT !.at = "scan", !.ds = First(sc.rxdesc),
                              !.head = First(sc.rxdesc)]
    /\ UNCHANGED <<sc, desc, ready, up, on, starts, sent, cut>>

\* Mutant: the MAC may still stand at the descriptor.
ProcRxDesc_DoneOnly(d) == desc[d].done

\* ar5416ProcRxDescFast_20: the MAC is done with d and has moved on.
ProcRxDesc(d) ==
    /\ desc[d].done
    /\ desc[desc[d].link].done \/ hw.rxdp # d

LongPacket == loc.cnt + 1 = NumDescs - 1

\* The ath_rx_buf the handler fills next is still waiting for the tasklet.
BufBusy == loc.bf <= Len(ready)

\* Neither break of the loop applies.  The last descriptor of the list is left
\* alone whether it is done or not.
GoOn(d) == desc[d].link # NoDesc /\ (BufBusy \/ ProcRxDesc(d))

PutTail ==
    LET r == desc[loc.ds]
    IN  [desc EXCEPT ![loc.ds] = [r EXCEPT !.len = IF r.len = NoLen THEN <<r.data>> ELSE r.len]]

\* Mutant: rs_more is not looked at.
LastSeg_Always(d) == TRUE

\* rs_more = 0
LastSeg(d) == desc[d].data[2] = desc[d].data[3]

ScanEnd ==
    /\ loc.at = "scan"
    /\ \/ loc.ds = NoDesc
       \/ ~LongPacket /\ ~GoOn(loc.ds)
    /\ loc' = [loc EXCEPT !.at = "tasklet"]
    /\ UNCHANGED <<sc, desc, ready, up, hw, on, starts, sent, cut>>

ScanMore ==
    /\ loc.at = "scan" /\ loc.ds # NoDesc /\ ~LongPacket
    /\ GoOn(loc.ds)
    /\ BufBusy \/ ~LastSeg(loc.ds)
    /\ desc' = IF BufBusy THEN desc ELSE PutTail
    /\ loc' = [loc EXCEPT !.cnt = @ + 1,
                          !.ds = IF BufBusy THEN @ ELSE NextIn(sc.rxdesc, @)]
    /\ UNCHANGED <<sc, ready, up, hw, on, starts, sent, cut>>

\* A whole frame, or the packet too long to be one.
ScanTake ==
    /\ loc.at = "scan" /\ loc.ds # NoDesc
    /\ \/ LongPacket
       \/ GoOn(loc.ds) /\ ~BufBusy /\ LastSeg(loc.ds)
    /\ desc' = IF LongPacket THEN desc ELSE PutTail
    /\ loc' = [loc EXCEPT !.at = IF LongPacket THEN "drop" ELSE "take",
                          !.tail = loc.ds, !.cnt = 0, !.frame = <<>>,
                          !.ds = NextIn(sc.rxdesc, loc.ds)]
    /\ UNCHANGED <<sc, ready, up, hw, on, starts, sent, cut>>

(***************************************************************************)
(* One descriptor of the frame: its buffer goes to the frame (or back to   *)
(* the pool), and the descriptor is handed in.                             *)
(***************************************************************************)
TakeDesc ==
    LET d == loc.head
        m == [desc EXCEPT ![d] = [@ EXCEPT !.nbuf = FALSE, !.data = NoSeg, !.len = NoLen]]
        s == IF loc.at = "drop" THEN [sc EXCEPT !.pool = @ + 1] ELSE sc
        fr == Append(loc.frame, [data |-> desc[d].data, len |-> desc[d].len])
        end == d = loc.tail
    IN  /\ loc.at \in {"take", "drop"}
        /\ HandIn(s, m, d)
        /\ ready' = IF end /\ loc.at = "take" THEN Append(ready, fr) ELSE ready
        /\ loc' = IF ~end THEN [loc EXCEPT !.frame = fr, !.head = NextIn(sc.rxdesc, d)]
                  ELSE IF loc.at = "drop" THEN [loc EXCEPT !.at = "tasklet", !.frame = <<>>]
                  ELSE [loc EXCEPT !.at = "scan", !.frame = <<>>, !.bf = @ + 1,
                                   !.head = loc.ds]
        /\ UNCHANGED <<up, on, starts, sent, cut>>

-----------------------------------------------------------------------------
(* ath_tgt_rx_tasklet and the completion of its messages *)

FrameId(fr) == fr[1].data[1]

\* Mutant: unmasking the interrupt also acknowledges what has come meanwhile.
RxTasklet_Acks ==
    /\ loc.at = "tasklet"
    /\ up' = up \o ready
    /\ ready' = <<>>
    /\ sent' = IF ready = <<>> THEN sent ELSE FrameId(ready[Len(ready)])
    /\ hw' = [hw EXCEPT !.isr = FALSE]
    /\ loc' = Polling
    /\ UNCHANGED <<sc, desc, on, starts, cut>>

\* Sends every frame that is ready and unmasks the interrupt.
RxTasklet ==
    /\ loc.at = "tasklet"
    /\ up' = up \o ready
    /\ ready' = <<>>
    /\ sent' = IF ready = <<>> THEN sent ELSE FrameId(ready[Len(ready)])
    /\ loc' = Polling
    /\ UNCHANGED <<sc, desc, hw, on, starts, cut>>

\* Mutant: only the first fragment.
SplitToFrag_First(fr) == 1

\* adf_nbuf_split_to_frag: one buffer for each segment of the message.
SplitToFrag(fr) == Len(fr)

\* ath_rx_complete
SendComplete ==
    /\ loc.at = "poll" /\ up # <<>>
    /\ up' = Tail(up)
    /\ loc' = [loc EXCEPT !.at = "complete", !.frags = SplitToFrag(Head(up)),
                          !.ds = First(sc.idle)]
    /\ UNCHANGED <<sc, desc, ready, hw, on, starts, sent, cut>>

\* A buffer back to the pool, an idle descriptor back to the ring.  The code
\* does not look at the result of ath_rxdesc_init.
CompleteStep ==
    LET s == [sc EXCEPT !.pool = @ + 1, !.idle = Without(@, loc.ds),
                        !.rxdesc = Append(@, loc.ds)]
        fails == InitFails(s, desc)
    IN  /\ loc.at = "complete" /\ loc.ds # NoDesc /\ loc.frags > 0
        /\ sc' = IF fails THEN s ELSE InitSc(s, desc, loc.ds)
        /\ desc' = IF fails THEN desc ELSE InitDesc(s, desc)
        /\ hw' = IF fails THEN hw ELSE InitHw(s)
        /\ loc' = [loc EXCEPT !.frags = @ - 1, !.ds = NextIn(sc.idle, loc.ds)]
        /\ UNCHANGED <<ready, up, on, starts, sent, cut>>

\* Buffers that find no idle descriptor are not put back.
CompleteEnd ==
    /\ loc.at = "complete" /\ (loc.ds = NoDesc \/ loc.frags = 0)
    /\ loc' = Polling
    /\ UNCHANGED <<sc, desc, ready, up, hw, on, starts, sent, cut>>

-----------------------------------------------------------------------------
(* The MAC *)

Receivable ==
    IF hw.seg # NoSeg THEN {<<hw.seg[1], hw.seg[2] + 1, hw.seg[3]>>}
    ELSE {<<hw.frames + 1, 1, n>> : n \in IF hw.frames < MaxFrames THEN 1 .. MaxSegs ELSE {}}

HwReceive ==
    /\ on /\ hw.rxe /\ hw.rxdp # NoDesc /\ ~desc[hw.rxdp].done
    /\ \E g \in Receivable :
         /\ desc' = [desc EXCEPT ![hw.rxdp] = [@ EXCEPT !.done = TRUE, !.data = g]]
         /\ hw' = [hw EXCEPT !.frames = g[1],
                             !.seg = IF g[2] = g[3] THEN NoSeg ELSE g,
                             !.isr = @ \/ g[2] = g[3]]
    /\ UNCHANGED <<sc, ready, up, loc, on, starts, sent, cut>>

\* At the end of the list the MAC stops and says so (RXEOL).
HwAdvance ==
    /\ hw.rxe /\ hw.rxdp # NoDesc /\ desc[hw.rxdp].done
    /\ hw' = IF desc[hw.rxdp].link # NoDesc
             THEN [hw EXCEPT !.rxdp = desc[hw.rxdp].link]
             ELSE [hw EXCEPT !.rxe = FALSE, !.isr = TRUE]
    /\ UNCHANGED <<sc, desc, ready, up, loc, on, starts, sent, cut>>

-----------------------------------------------------------------------------
Firmware ==
    \/ StartStep \/ StartEnd
    \/ AthIntr \/ ScanEnd \/ ScanMore \/ ScanTake \/ TakeDesc \/ RxTasklet
    \/ SendComplete \/ CompleteStep \/ CompleteEnd

Host == StartRecv \/ StopRecv

Next == Firmware \/ Host \/ HwReceive \/ HwAdvance

(***************************************************************************)
(* The main loop goes on, the messages given to HTC are sent, and the MAC  *)
(* follows the link of a descriptor it is done with.  No frame need come,  *)
(* and the host need not do anything.                                      *)
(***************************************************************************)
Fairness ==
    /\ WF_vars(StartStep \/ StartEnd)
    /\ WF_vars(ScanEnd \/ ScanMore \/ ScanTake \/ TakeDesc \/ RxTasklet)
    /\ WF_vars(CompleteStep \/ CompleteEnd)
    /\ SF_vars(AthIntr) /\ SF_vars(SendComplete)
    /\ WF_vars(HwAdvance)

Spec == Init /\ [][Next]_vars /\ Fairness

-----------------------------------------------------------------------------
(* Properties *)

(***************************************************************************)
(* Every variable has its type: in particular the pool is never asked for  *)
(* a buffer it does not have, and an ath_rx_buf is left for every frame    *)
(* one pass of the handler can find.                                       *)
(***************************************************************************)
TypeOK ==
    /\ sc \in Softcs
    /\ desc \in [Descs -> RxDescs]
    /\ ready \in Seq(Seq(Nbufs)) /\ Len(ready) <= NumDescs
    /\ up \in Seq(Seq(Nbufs))
    /\ loc \in Locals
    /\ hw \in Macs
    /\ on \in BOOLEAN /\ cut \in BOOLEAN
    /\ starts \in 0 .. MaxStarts /\ sent \in 0 .. MaxFrames

Attached == Cardinality({d \in Descs : desc[d].nbuf})
InFrames == Len(FlattenSeq(ready)) + Len(FlattenSeq(up)) + loc.frags
            + (IF loc.at = "take" THEN Len(loc.frame) ELSE 0)

(***************************************************************************)
(* Every receive buffer is in the pool, attached to a descriptor of the    *)
(* ring, or part of one frame on its way to the host, but for at most one: *)
(* ath_rx_complete puts back only as many buffers as there are idle        *)
(* descriptors, and the spare buffer of the pool has none.  However often  *)
(* frames come, are sent and completed, no second buffer is lost.          *)
(***************************************************************************)
BufferConservation ==
    /\ sc.pool + Attached + InFrames \in {NumDescs - 1, NumDescs}
    /\ \A d \in Range(sc.idle) : ~desc[d].nbuf
    /\ sc.idle = <<>> \/ (sc.pool = 0 /\ InFrames > 0)

(***************************************************************************)
(* While reception is on, the MAC stands at a descriptor of the ring that  *)
(* is not the held one, and the links lead it from there through every     *)
(* later descriptor, each set up with a buffer and not yet done, to the    *)
(* one sc_rxlink points into: what the handler and the completions do to   *)
(* the ring never takes a descriptor from under the MAC.                   *)
(***************************************************************************)
HwInRing ==
    LET q == sc.rxdesc
        n == Len(q)
    IN  on =>
        /\ IsInjective(q \o sc.idle) /\ Range(q) \cup Range(sc.idle) = Descs
        /\ sc.held = q[n] /\ sc.rxlink = q[n - 1]
        /\ desc[q[n - 1]].link = NoDesc
        /\ \E p \in 1 .. n - 1 :
             /\ q[p] = hw.rxdp
             /\ \A i \in p .. n - 1 : desc[q[i]].nbuf
             /\ \A i \in p + 1 .. n - 1 :
                  desc[q[i - 1]].link = q[i] /\ ~desc[q[i]].done

Whole(fr) ==
    \A j \in 1 .. Len(fr) :
        /\ fr[j].data = <<FrameId(fr), j, Len(fr)>>
        /\ cut \/ fr[j].len = <<fr[j].data>>

(***************************************************************************)
(* A message for the host is one whole frame, its buffers in the order the *)
(* MAC filled them and each as long as its segment, and frames are passed  *)
(* up in the order they came, none twice.  The lengths hold as long as no  *)
(* restart keeps a buffer of a frame the handler had seen only in part:    *)
(* ath_rxdesc_init does not reset the length of a buffer it finds.         *)
(***************************************************************************)
WholeFramesInOrder ==
    /\ \A i \in 1 .. Len(up) : Whole(up[i]) /\ FrameId(up[i]) <= sent
    /\ \A i \in 1 .. Len(ready) : Whole(ready[i]) /\ FrameId(ready[i]) > sent
    /\ \A i \in 2 .. Len(up) : FrameId(up[i - 1]) < FrameId(up[i])
    /\ \A i \in 2 .. Len(ready) : FrameId(ready[i - 1]) < FrameId(ready[i])

(***************************************************************************)
(* A MAC that stopped because the list ended is started again, once the    *)
(* host has taken the frames whose buffers it is short of.                 *)
(***************************************************************************)
RecvResumes == (on /\ ~hw.rxe) ~> (hw.rxe \/ ~on)

\* The last frame received, and the frames a descriptor of the ring ends.
Received == IF hw.seg = NoSeg THEN hw.frames ELSE hw.frames - 1
InRing(f) == \E d \in Descs : desc[d].done /\ desc[d].data \in {<<f, n, n>> : n \in 1 .. MaxSegs}

(***************************************************************************)
(* A frame is passed to the host when the one after it has been received   *)
(* (the last descriptor of the list is never taken, so the last frame may  *)
(* have to wait for another one), unless the host stops reception.         *)
(***************************************************************************)
FramesDelivered ==
    \A f \in 1 .. MaxFrames : (on /\ InRing(f) /\ Received > f) ~> (sent >= f \/ ~on)

=============================================================================
