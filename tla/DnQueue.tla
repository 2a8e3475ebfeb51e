------------------------------- MODULE DnQueue -------------------------------
(***************************************************************************)
(* A queue of messages from the host (dnQ; hpdnQ and mpdnQ work alike):    *)
(* _DMAengine_config_rx_queue, _DMAengine_reap_recv_buf and                *)
(* _DMAengine_return_recv_buf, called from HIF_usb.c, against the engine   *)
(* that fills the buffers with what the host sends.                        *)
(***************************************************************************)
EXTENDS DmaQueue

CONSTANTS
    NumDescs,   \* creditCount of config_pipe: the buffers of the pipe
    MaxLen,     \* the most buffers a message of the host takes
    MaxMsgs     \* bound: messages received or being so, and not returned

ASSUME DnAssumption ==
    /\ NumDescs \in Nat \ {0}
    /\ MaxLen \in 1..NumDescs
    /\ MaxMsgs \in Nat \ {0}

VARIABLES
    configured, \* _HIFusb_config_pipe has been called for the pipe
    held,       \* the VBUFs the upper layers hold, each as its desc_list
    msg,        \* the message the engine is receiving, or its absence
    fill,       \* what is in each data buffer
    arrived     \* history: messages received and not reaped

dnVars == <<configured, held, msg, fill, arrived>>
vars == <<queueVars, dnVars>>

Descs == {NULL} \X (0..NumDescs)
Bufs == ({NULL} \X (1..NumDescs)) \cup {NULL}

(* The null address is that of no descriptor.                              *)
ASSUME NullAssumption == NULL \notin Descs

(* Messages are numbered so that those around can be told apart.           *)
None == [id |-> 0, len |-> 0]
Message(m) == [i \in 1..m.len |-> <<m.id, i>>]

Contents(chain) == [i \in DOMAIN chain |-> fill[vd[chain[i]]]]

TypeOK ==
    /\ QueueTypeOK(Descs, Bufs)
    /\ configured \in BOOLEAN
    /\ \A c \in held : c # << >> /\ Len(c) <= MaxLen /\ ToSet(c) \subseteq Descs
    /\ msg \in [id : 0..MaxMsgs, len : 0..MaxLen]
    /\ fill \in [Bufs -> ((1..MaxMsgs) \X (1..MaxLen)) \cup {NULL}]

(* _HIFusb_start has started the engine on an empty queue.                 *)
Init ==
    /\ QueueInit(Descs, TRUE)
    /\ configured = FALSE
    /\ held = {}
    /\ msg = None
    /\ fill = [b \in Bufs |-> NULL]
    /\ arrived = << >>
-----------------------------------------------------------------------------
(* _HIFusb_config_pipe: all buffers of the pipe enter as one packet, in    *)
(* the order of the list that _DMAengine_config_rx_queue builds.           *)
ConfigPipe ==
    /\ ~configured
    /\ PutBegin([i \in 1..NumDescs |-> <<NULL, NumDescs + 1 - i>>], FALSE)
    /\ configured' = TRUE
    /\ UNCHANGED <<held, msg, fill, arrived>>

(* _HIFusb_return_recv_buf: config_queue links the descriptors of the VBUF *)
(* and zfDmaReclaimPacket enters them.  From the loop or from a callback.  *)
(* What was in the buffers is of no use from here on.                      *)
ReturnRecv(c) ==
    /\ PutBegin(c, FALSE)
    /\ held' = held \ {c}
    /\ fill' = [b \in Bufs |-> IF b \in ToSet(BufsOf(c)) THEN NULL ELSE fill[b]]
    /\ UNCHANGED <<configured, msg, arrived>>

(* The rest of zfDmaReclaimPacket, and enable_rx.                          *)
ReclaimStep == PutStep(CloseRing(mem, put.first)) /\ UNCHANGED dnVars

HandlerEnter == IsrEnter /\ UNCHANGED dnVars

(* Mutant of Reap: only one VBUF is to be had.                             *)
Reap_OneVbuf ==
    /\ held = {}
    /\ GetPacket
    /\ held' = held \cup {PacketAt(mem, head)}
    /\ arrived' = Tail(arrived)
    /\ UNCHANGED <<configured, msg, fill>>

(* handle_rx_complete_isr: the packet at the head of the queue, as a VBUF, *)
(* is passed up.                                                           *)
Reap ==
    /\ GetPacket
    /\ held' = held \cup {PacketAt(mem, head)}
    /\ arrived' = Tail(arrived)
    /\ UNCHANGED <<configured, msg, fill>>

HandlerEnd == IsrEnd /\ UNCHANGED dnVars
-----------------------------------------------------------------------------
(* The numbers of the messages that have arrived and are not returned.     *)
Around == {s[1][1] : s \in ToSet(arrived) \cup {Contents(c) : c \in held}}

(* The message whose next segment the host sends: the one begun, or a new  *)
(* one of any length.                                                      *)
Sending ==
    IF msg # None THEN {msg}
    ELSE LET free == (1..MaxMsgs) \ Around
         IN  IF free = {} THEN {}
             ELSE [id : {CHOOSE i \in free : TRUE}, len : 1..MaxLen]

Filled(id, n) == [fill EXCEPT ![mem[hw.cur].data] = <<id, n>>]

(* The engine fills a buffer, and there is more of the message to come.    *)
HwFill(m) ==
    /\ Len(hw.got) + 1 < m.len
    /\ HwFetch
    /\ fill' = Filled(m.id, Len(hw.got) + 1)
    /\ msg' = m
    /\ UNCHANGED <<configured, held, arrived>>

(* The message ends with this buffer: the engine marks its last segment    *)
(* and writes the address of that in the first descriptor.                 *)
HwReceive(m) ==
    LET first == Head(Append(hw.got, hw.cur)) IN
    /\ Len(hw.got) + 1 = m.len
    /\ HwFinish([[mem EXCEPT ![hw.cur].ls = TRUE] EXCEPT ![first].last = hw.cur])
    /\ fill' = Filled(m.id, m.len)
    /\ msg' = None
    /\ arrived' = Append(arrived, Message(m))
    /\ UNCHANGED <<configured, held>>

HwIdle == HwStop /\ UNCHANGED dnVars

Next ==
    \/ ConfigPipe
    \/ \E c \in held : ReturnRecv(c)
    \/ ReclaimStep
    \/ HandlerEnter \/ Reap \/ HandlerEnd
    \/ \E m \in Sending : HwFill(m) \/ HwReceive(m)
    \/ HwIdle

(* A C function runs on, and the main loop keeps calling the handler.      *)
Fairness == WF_vars(ReclaimStep) /\ WF_vars(HandlerEnter) /\ WF_vars(Reap)

Spec == Init /\ [][Next]_vars /\ Fairness
-----------------------------------------------------------------------------
(* Between two operations the descriptors of the VBUFs passed up and those *)
(* of the queue are all the pipe has, each once: zfDmaReclaimPacket gives  *)
(* back what zfDmaGetPacket took, however long the messages were.          *)
DescConservation == (pc = "run" /\ configured) => Partitioned(Descs, held)

(* The engine never sleeps on a buffer that is its own: enable_rx follows  *)
(* every return, also when the engine gave up in the middle of the put.    *)
EngineArmed == (pc = "run" /\ mem[hw.cur].own = "HW") => hw.start

(* The handler gets to the packet at the head of the queue: no message     *)
(* received waits for ever, whatever the upper layers return meanwhile.    *)
PacketsReaped ==
    \A d \in Descs : (head = d /\ Completed(mem, head, term)) ~> (head # d)

Fifo == INSTANCE DnFifo WITH held <- {Contents(c) : c \in held}

(* The queue keeps the promise of DnFifo: every message is passed up once, *)
(* whole and in order of arrival, and neither the engine nor a put changes *)
(* a buffer while the upper layers hold it.                                *)
ImplementsFifo == Fifo!Spec
=============================================================================
