------------------------------- MODULE UpQueue -------------------------------
(***************************************************************************)
(* The queue of messages to the host (upQ): _DMAengine_xmit_buf and        *)
(* _DMAengine_reap_xmited_buf, called from HIF_usb.c, against the engine   *)
(* that sends what the descriptors hold.                                   *)
(***************************************************************************)
EXTENDS DmaQueue

CONSTANTS
    Vbufs,      \* the VBUFs that carry messages to the host
    PktLen      \* the number of descriptors of each

ASSUME UpAssumption == PktLen \in [Vbufs -> Nat \ {0}]

VARIABLES
    xmited,     \* the list xmited_buf_head .. xmited_buf_tail
    vb,         \* desc_list of each VBUF, as a sequence
    read,       \* the data the engine has read of the present packet
    ndone,      \* history: packets transmitted and not reaped
    wire        \* history: the data of the last packet transmitted

upVars == <<xmited, vb, read, ndone, wire>>
vars == <<queueVars, upVars>>

(* One VDESC for every segment of every VBUF and one for the terminator.   *)
Segments == UNION {{v} \X (1..PktLen[v]) : v \in Vbufs}
Descs == Segments \cup {Terminator}
Bufs == Segments \cup {NULL}

(* The null address is that of no descriptor and of no buffer.             *)
ASSUME DescAssumption == IsFiniteSet(Descs) /\ NULL \notin Descs

Idle(v) == v \notin ToSet(xmited)

TypeOK ==
    /\ QueueTypeOK(Descs, Bufs)
    /\ ToSet(xmited) \subseteq Vbufs /\ IsInjective(xmited)
    /\ \A v \in Vbufs : ToSet(vb[v]) \subseteq Descs /\ Len(vb[v]) = PktLen[v]
    /\ ToSet(read) \subseteq Bufs
    /\ ndone \in 0..Len(xmited)

(* The VBUFs as their owners allocated them.                               *)
Init ==
    /\ QueueInit(Descs, FALSE)
    /\ xmited = << >>
    /\ vb = [v \in Vbufs |-> [i \in 1..PktLen[v] |-> <<v, i>>]]
    /\ read = << >> /\ ndone = 0 /\ wire = << >>
-----------------------------------------------------------------------------
(* Mutant of Xmit: the VBUF goes to the wrong end of the list.             *)
Xmit_AtHead(v) ==
    /\ Idle(v)
    /\ PutBegin(vb[v], TRUE)
    /\ xmited' = <<v>> \o xmited
    /\ UNCHANGED <<vb, read, ndone, wire>>

(* _HIFusb_send_buffer, from the main loop or from a callback of the       *)
(* handler: queue the VBUF in the list and its descriptors for the engine. *)
Xmit(v) ==
    /\ Idle(v)
    /\ PutBegin(vb[v], TRUE)
    /\ xmited' = Append(xmited, v)
    /\ UNCHANGED <<vb, read, ndone, wire>>

(* The rest of zfDmaPutPacket, and the trigger.                            *)
XmitStep ==
    /\ PutStep(SingleLast(CloseRing(mem, put.first), put.first, term))
    /\ UNCHANGED upVars

HandlerEnter == IsrEnter /\ UNCHANGED upVars

(* handle_tx_complete_isr: the finished packet at the head of the queue is *)
(* taken to be the oldest VBUF of the list, which gets its descriptors.    *)
Reap ==
    /\ GetPacket
    /\ vb' = [vb EXCEPT ![Head(xmited)] = PacketAt(mem, head)]
    /\ xmited' = Tail(xmited)
    /\ ndone' = ndone - 1
    /\ UNCHANGED <<read, wire>>

HandlerEnd == IsrEnd /\ UNCHANGED upVars

(* The engine reads a descriptor that is not the last of its packet.       *)
HwRead ==
    /\ ~mem[hw.cur].ls
    /\ Len(hw.got) < Cardinality(Descs)
    /\ HwFetch
    /\ read' = Append(read, mem[hw.cur].data)
    /\ UNCHANGED <<xmited, vb, ndone, wire>>

(* With the last descriptor the packet is transmitted.                     *)
HwSend ==
    /\ mem[hw.cur].ls
    /\ HwFinish(mem)
    /\ wire' = Append(read, mem[hw.cur].data)
    /\ read' = << >>
    /\ ndone' = ndone + 1
    /\ UNCHANGED <<xmited, vb>>

HwIdle == HwStop /\ UNCHANGED upVars

Next ==
    \/ \E v \in Vbufs : Xmit(v)
    \/ XmitStep
    \/ HandlerEnter \/ Reap \/ HandlerEnd
    \/ HwRead \/ HwSend \/ HwIdle

(* A C function runs on; the main loop keeps calling the handler, which    *)
(* keeps to its loop; the host keeps polling its bulk-in endpoint.         *)
Fairness ==
    /\ WF_vars(XmitStep)
    /\ WF_vars(HandlerEnter) /\ WF_vars(Reap)
    /\ WF_vars(HwRead) /\ WF_vars(HwSend)

Spec == Init /\ [][Next]_vars /\ Fairness
-----------------------------------------------------------------------------
(* Between two operations the descriptors of the VBUFs that are not queued *)
(* and those of the queue are all there are, each once, although the put   *)
(* (zfDmaPutPacket) exchanges them and the reap (zfDmaGetPacket,           *)
(* relinkUSBDescToVdesc) gives a VBUF other ones than it came with.  And   *)
(* in every step of zfDmaPutPacket the engine is at a descriptor of the    *)
(* queue: it never follows a pointer into a VBUF that is idle or still     *)
(* being linked.                                                           *)
DescConservation ==
    /\ pc = "run" => Partitioned(Descs, {vb[v] : v \in {w \in Vbufs : Idle(w)}})
    /\ hw.cur \in ToSet(QueueChain(mem, head, term))

(* A VBUF comes back with the data buffers it was sent with, in order,     *)
(* although its first descriptor was exchanged with the terminator: what   *)
(* VDESC_swap_vdesc is for.                                                *)
BuffersComeBack ==
    \A v \in Vbufs : Idle(v) => BufsOf(vb[v]) = [i \in 1..PktLen[v] |-> <<v, i>>]

Fifo == INSTANCE UpFifo WITH fifo <- xmited, sent <- ndone

(* The queue keeps the promise of UpFifo: what zfDmaPutPacket enters is    *)
(* transmitted once, in order and intact, and reaped in that order, and    *)
(* no packet waits for ever.                                               *)
ImplementsFifo == Fifo!Spec
=============================================================================
