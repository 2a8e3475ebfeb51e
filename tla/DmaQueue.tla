------------------------------ MODULE DmaQueue ------------------------------
(***************************************************************************)
(* What the queues of the USB DMA engine have in common: the state of      *)
(* zsDmaQueue and of the engine, the steps in which zfDmaPutPacket and     *)
(* zfDmaReclaimPacket enter a packet, and the loop of _HIFusb_isr_handler. *)
(* A packet enters by exchanging its first descriptor with the terminator, *)
(* at which the engine waits, while the engine runs: so each write that    *)
(* the engine can see is a step of its own.  UpQueue and DnQueue add their *)
(* variables and compose the actions.                                      *)
(***************************************************************************)
EXTENDS DmaDesc

VARIABLES
    mem,        \* the hardware descriptors
    vd,         \* buf_addr of each VDESC
    head,       \* zsDmaQueue.head
    term,       \* zsDmaQueue.terminator
    pc,         \* where the put stands
    put,        \* its first descriptor and its local copy tdesc
    isr,        \* _HIFusb_isr_handler is in its loop
    hw,         \* the engine: its descriptor, those fetched, DMA_START
    intr        \* the completion bit of MAGPIE_REG_USB_INTERRUPT

queueVars == <<mem, vd, head, term, pc, put, isr, hw, intr>>

(* The VDESC the terminator begins with; it comes without a buffer.        *)
Terminator == <<NULL, 0>>

(* The locals of the put, outside of it.                                   *)
NoPut == [first |-> Terminator, tdesc |-> InitDesc(NULL)]

QueueTypeOK(descs, bufs) ==
    /\ mem \in [descs -> HwDescs(descs, bufs)]
    /\ vd \in [descs -> bufs]
    /\ head \in descs /\ term \in descs
    /\ pc \in {"run", "link", "copy", "own", "trigger"}
    /\ put \in [first : descs, tdesc : HwDescs(descs, bufs)]
    /\ isr \in BOOLEAN /\ intr \in BOOLEAN
    /\ hw.cur \in descs /\ ToSet(hw.got) \subseteq descs /\ hw.start \in BOOLEAN

(* _DMAengine_init_rx_queue, also for a queue of packets to send, and the  *)
(* DESC_START register set by _HIFusb_start.  The other VDESCs of the      *)
(* queue's users carry the buffer of their own name.                       *)
QueueInit(descs, started) ==
    /\ vd = [d \in descs |-> IF d = Terminator THEN NULL ELSE d]
    /\ mem = [d \in descs |-> InitDesc(vd[d])]
    /\ head = Terminator /\ term = Terminator
    /\ pc = "run"
    /\ put = NoPut
    /\ isr = FALSE
    /\ hw = [cur |-> Terminator, got |-> << >>, start |-> started]
    /\ intr = FALSE
-----------------------------------------------------------------------------
(* Link the descriptors of a chain and begin the put by giving them all to *)
(* the hardware.                                                           *)
PutBegin(chain, ls) ==
    /\ pc = "run"
    /\ mem' = GiveToHw(Linked(mem, vd, chain, ls), chain)
    /\ put' = [put EXCEPT !.first = chain[1]]
    /\ pc' = "link"
    /\ UNCHANGED <<vd, head, term, isr, hw, intr>>

(* Close the ring (closed), keep a copy of the first descriptor, take the  *)
(* original back as the terminator to be, and exchange the buffers.        *)
PutLink(closed) ==
    /\ pc = "link"
    /\ put' = [put EXCEPT !.tdesc = [closed[put.first] EXCEPT !.own = "SW"]]
    /\ mem' = [closed EXCEPT ![put.first].own = "SW"]
    /\ vd' = Swap(vd, term, put.first)
    /\ pc' = "copy"
    /\ UNCHANGED <<head, term, isr, hw, intr>>

(* Copy the first descriptor over the terminator, still in software hands. *)
PutCopy ==
    /\ pc = "copy"
    /\ mem' = [mem EXCEPT ![term] = put.tdesc]
    /\ pc' = "own"
    /\ UNCHANGED <<vd, head, term, put, isr, hw, intr>>

(* Hand the old terminator to the hardware: the packet is in the queue.    *)
PutOwn ==
    /\ pc = "own"
    /\ mem' = [mem EXCEPT ![term].own = "HW"]
    /\ term' = put.first
    /\ pc' = "trigger"
    /\ UNCHANGED <<vd, head, put, isr, hw, intr>>

(* Mutant of Trigger: the engine is only started when the handler runs.    *)
Trigger_InIsr ==
    /\ pc = "trigger"
    /\ hw' = [hw EXCEPT !.start = @ \/ isr]
    /\ pc' = "run"
    /\ put' = NoPut
    /\ UNCHANGED <<mem, vd, head, term, isr, intr>>

(* MAGPIE_REG_USB_TX0_DMA_START = 1 or RX0_DMA_START = 1.                  *)
Trigger ==
    /\ pc = "trigger"
    /\ hw' = [hw EXCEPT !.start = TRUE]
    /\ pc' = "run"
    /\ put' = NoPut
    /\ UNCHANGED <<mem, vd, head, term, isr, intr>>

(* The steps that follow PutBegin; what they leave alone is the user's.    *)
PutStep(closed) == PutLink(closed) \/ PutCopy \/ PutOwn \/ Trigger
-----------------------------------------------------------------------------
(* _HIFusb_isr_handler reads the interrupt register, which clears it, and  *)
(* enters its loop.                                                        *)
IsrEnter ==
    /\ pc = "run" /\ ~isr
    /\ intr
    /\ isr' = TRUE /\ intr' = FALSE
    /\ UNCHANGED <<mem, vd, head, term, pc, put, hw>>

(* zfDmaGetPacket takes the finished packet at the head of the queue.      *)
GetPacket ==
    /\ pc = "run" /\ isr
    /\ Completed(mem, head, term)
    /\ head' = AfterPacket(mem, head)
    /\ UNCHANGED <<mem, vd, term, pc, put, isr, hw, intr>>

(* The loop ends when no packet is finished.                               *)
IsrEnd ==
    /\ pc = "run" /\ isr
    /\ ~Completed(mem, head, term)
    /\ isr' = FALSE
    /\ UNCHANGED <<mem, vd, head, term, pc, put, hw, intr>>
-----------------------------------------------------------------------------
(* The engine may use the descriptor it stands at.                         *)
HwOwns == hw.start /\ mem[hw.cur].own = "HW"

(* Within a packet, on to the next descriptor.                             *)
HwFetch ==
    /\ HwOwns
    /\ hw' = [hw EXCEPT !.cur = mem[hw.cur].next, !.got = Append(@, hw.cur)]
    /\ UNCHANGED <<mem, vd, head, term, pc, put, isr, intr>>

(* At the end of a packet all its descriptors, updated by the engine to    *)
(* written, go back to the software and the interrupt is raised.           *)
HwFinish(written) ==
    /\ HwOwns
    /\ mem' = [d \in DOMAIN mem |-> IF d \in ToSet(hw.got) \cup {hw.cur}
                                    THEN [written[d] EXCEPT !.own = "SW"]
                                    ELSE mem[d]]
    /\ hw' = [hw EXCEPT !.cur = mem[hw.cur].next, !.got = << >>]
    /\ intr' = TRUE
    /\ UNCHANGED <<vd, head, term, pc, put, isr>>

(* At a descriptor that is not its own the engine stops until triggered.   *)
HwStop ==
    /\ hw.start
    /\ mem[hw.cur].own # "HW"
    /\ hw' = [hw EXCEPT !.start = FALSE]
    /\ UNCHANGED <<mem, vd, head, term, pc, put, isr, intr>>
-----------------------------------------------------------------------------
(* Descriptors are exchanged, never shared and never lost: between two     *)
(* operations those of the chains outside the queue and those between the  *)
(* head of the queue and its terminator are all there are, each once.      *)
Partitioned(descs, chains) ==
    LET queued == QueueChain(mem, head, term) IN
    /\ queued # << >> /\ IsInjective(queued)
    /\ \A c \in chains : IsInjective(c) /\ ToSet(c) \cap ToSet(queued) = {}
    /\ \A c, e \in chains : c # e => ToSet(c) \cap ToSet(e) = {}
    /\ ToSet(queued) \cup UNION {ToSet(c) : c \in chains} = descs

(* The buffers of a chain, as the software knows them.                     *)
BufsOf(chain) == [i \in DOMAIN chain |-> vd[chain[i]]]
=============================================================================
