------------------------------- MODULE UsbFifo -------------------------------
(***************************************************************************)
(* Commands and events over the two FIFO endpoints of the USB controller:  *)
(* EP4 carries commands from the host, EP3 events to it, both in packets   *)
(* of at most MaxPkt.  The code is usb_reg_out_patch and                   *)
(* usb_status_in_patch, which replace the ROM's handlers of one packet per *)
(* message; HIF_usb.c with its list of command buffers and its queue of    *)
(* events; and HTCMsgRecvHandler_patch, which guards HTC against a wrong   *)
(* endpoint.  Everything runs in the main loop, one handler after another. *)
(*                                                                         *)
(* A message is its number, its kind and its length; what is in a packet   *)
(* is the message it belongs to and its place in it.                       *)
(***************************************************************************)
EXTENDS Integers, Sequences, SequencesExt, FiniteSets

CONSTANTS
    MaxPkt,      \* USB_EP3_MAX_PKT_SIZE = USB_EP4_MAX_PKT_SIZE
    BufSize,     \* HIF_get_max_msg_len of the command pipe
    LenMod,      \* 2^16: cmd_len of usb_reg_out_patch is a uint16_t
    NumBufs,     \* command buffers that HTC and the host configure
    Kinds,       \* the kinds of command the host sends
    CmdLens,     \* the lengths of commands
    EvtLens,     \* the lengths of events
    MaxCommands, \* bound: commands the host sends
    MaxEvents    \* bound: events the target queues

(* A message ends with the packet that is not full: neither side sends one *)
(* whose length is a multiple of MaxPkt.  A wrong endpoint's event fits.   *)
(* A buffer (512) has room for a packet (64) and is far below 2^16.        *)
ASSUME UsbFifoAssumption ==
    /\ {MaxPkt, BufSize, LenMod, NumBufs, MaxCommands, MaxEvents} \subseteq Nat \ {0}
    /\ MaxPkt > 1 /\ MaxPkt <= BufSize /\ BufSize + MaxPkt < LenMod
    /\ Kinds \subseteq {"setup", "wmi", "data", "other", "bad", "suspend"}
    /\ \A l \in CmdLens \cup EvtLens : l \in Nat /\ l % MaxPkt # 0

VARIABLES
    up,         \* the firmware runs; FALSE once it has jumped to the boot ROM,
                \* or once what it does is no longer modelled
    setup,      \* htc_complete_setup
    cmdQueue,   \* the list of free command buffers; the head is taken
    out,        \* the statics of usb_reg_out_patch
    eventBufQ,  \* events that wait for EP3
    in,         \* the statics of usb_status_in_patch
    ep3Int,     \* the status-in interrupt is enabled
    ep4, ep3,   \* what is in the FIFO of each endpoint
    hostOut,    \* packets of the command the host is sending
    hostIn,     \* packets of the transfer the host is receiving
    sent,       \* history: the commands the host has begun to send
    passed,     \* history: what was passed up: the packets that were written from
                \* the buffer's address on, how long the command is said to be, and
                \* whether cmd_len had wrapped
    queued,     \* history: the lengths of the events queued
    received,   \* history: the transfers the host has received
    silenced,   \* history: events wait and a wrong endpoint disabled ep3Int
    torn        \* history: a wrong endpoint's event went into another's transfer

outVars == <<setup, cmdQueue, out, ep4, passed>>
inVars == <<in, ep3>>
hostVars == <<hostOut, hostIn, sent, received>>
vars == <<up, outVars, eventBufQ, inVars, ep3Int, hostVars, queued, silenced, torn>>

NoBuf == 0
Wild == -1      \* a pointer that was read through NULL and is no buffer
NumPackets(len) == len \div MaxPkt + 1
PacketLen(len, i) == IF i < NumPackets(len) THEN MaxPkt ELSE len % MaxPkt
Message(n, len) ==
    [i \in 1..NumPackets(len) |-> [of |-> n, at |-> i, len |-> PacketLen(len, i)]]
(* What zfGenWrongEpidEvent writes.                                        *)
WrongEpid == [of |-> 0, at |-> 1, len |-> 1]
TotalLen(packets) == FoldLeft(LAMBDA s, p : s + p.len, 0, packets)

Init ==
    /\ up = TRUE /\ setup = FALSE
    /\ cmdQueue = [i \in 1..NumBufs |-> i]
    /\ out = [new |-> TRUE, len |-> 0, buf |-> NoBuf, data |-> << >>, wrapped |-> FALSE]
    /\ eventBufQ = << >>
    /\ in = [new |-> TRUE, len |-> 0, of |-> 0]
    /\ ep3Int = FALSE
    /\ ep4 = << >> /\ ep3 = << >> /\ hostOut = << >> /\ hostIn = << >>
    /\ sent = << >> /\ passed = << >> /\ queued = << >> /\ received = << >>
    /\ silenced = FALSE /\ torn = FALSE
-----------------------------------------------------------------------------
(* The host.                                                               *)
HostCommand(kind, len) ==
    /\ up /\ hostOut = << >> /\ Len(sent) < MaxCommands
    /\ sent' = Append(sent, [kind |-> kind, len |-> len])
    /\ hostOut' = Message(Len(sent'), len)
    /\ UNCHANGED <<up, outVars, eventBufQ, inVars, ep3Int, hostIn, queued, received,
                   silenced, torn>>

HostPacket ==
    /\ up /\ hostOut # << >> /\ ep4 = << >>
    /\ ep4' = <<Head(hostOut)>>
    /\ hostOut' = Tail(hostOut)
    /\ UNCHANGED <<up, setup, cmdQueue, out, passed, eventBufQ, inVars, ep3Int, hostIn,
                   sent, queued, received, silenced, torn>>

(* The host reads the packet on EP3; one that is not full ends a transfer. *)
HostRead ==
    /\ up /\ ep3 # << >>
    /\ ep3' = << >>
    /\ IF TotalLen(ep3) < MaxPkt
         THEN received' = Append(received, hostIn \o ep3) /\ hostIn' = << >>
         ELSE hostIn' = hostIn \o ep3 /\ UNCHANGED received
    /\ UNCHANGED <<up, outVars, eventBufQ, in, ep3Int, hostOut, sent, queued, silenced,
                   torn>>
-----------------------------------------------------------------------------
(* send_buffer_via_fifo: the event joins the queue and the interrupt is    *)
(* enabled, whether or not it was.  evs is empty or one event's length.    *)
Queue(evs) ==
    /\ Len(queued) + Len(evs) <= MaxEvents
    /\ queued' = queued \o evs
    /\ eventBufQ' = eventBufQ \o [i \in DOMAIN evs |-> [n |-> Len(queued'), len |-> evs[i]]]
    /\ ep3Int' = IF evs = << >> THEN ep3Int ELSE TRUE
    /\ silenced' = IF evs = << >> THEN silenced ELSE FALSE

(* The target sends an event of its own: WMI, HTC credits.                 *)
SendEvent(len) ==
    /\ up
    /\ Queue(<<len>>)
    /\ UNCHANGED <<up, outVars, inVars, hostVars, torn>>

(* zfGenWrongEpidEvent: the interrupt is disabled and the event goes       *)
(* straight into the FIFO, whatever is in it or half sent.                 *)
GenWrongEpidEvent ==
    /\ ep3Int' = FALSE
    /\ ep3' = Append(ep3, WrongEpid)
    /\ torn' = (torn \/ ep3 # << >> \/ hostIn # << >> \/ ~in.new)
    /\ silenced' = (silenced \/ eventBufQ # << >> \/ ~in.new)
    /\ UNCHANGED <<eventBufQ, queued>>

(* HTCMsgRecvHandler_patch: the pipe a command's buffer is returned to.    *)
(* HTC and WMI return a command they accept to the command pipe.  Mutant:  *)
(* a command for WMI is not returned before setup is complete.             *)
ReturnPipe_Leak(c) ==
    CASE c.kind = "wmi" /\ ~setup -> "none"
      [] c.kind = "bad" /\ setup /\ c.len > MaxPkt -> "data"
      [] OTHER -> "command"

ReturnPipe(c) ==
    CASE c.kind \in {"setup", "suspend"} -> "command"
      [] c.kind = "wmi" -> "command"
      [] c.kind = "bad" /\ ~setup -> "none"
      [] c.kind = "bad" /\ setup -> IF c.len > MaxPkt THEN "data" ELSE "command"
      [] c.kind = "data" -> "data"
      [] c.kind = "other" -> IF setup THEN "command" ELSE "none"

(* _HIFusb_return_recv_buf for the command pipe.                           *)
Returned(q, c, buf) == IF ReturnPipe(c) = "command" THEN <<buf>> \o q ELSE q

(* _fw_usbfifo_recv_command, usbfifo_recv_command and                      *)
(* HTCMsgRecvHandler_patch: a command may be answered; one that is not     *)
(* from an endpoint of HTC's raises an event of its own; the pattern of    *)
(* the suspend command leads to the boot ROM.                              *)
RecvCommand(c) ==
    \/ /\ c.kind = "suspend"
       /\ up' = FALSE
       /\ UNCHANGED <<setup, eventBufQ, ep3Int, ep3, queued, silenced, torn>>
    \/ /\ c.kind = "bad" /\ setup /\ c.len <= MaxPkt
       /\ GenWrongEpidEvent
       /\ UNCHANGED <<up, setup>>
    \/ /\ c.kind # "suspend" /\ ~(c.kind = "bad" /\ setup /\ c.len <= MaxPkt)
       /\ setup' = (setup \/ c.kind = "setup")
       /\ \E evs \in {<< >>} \cup {<<l>> : l \in EvtLens} :
            /\ evs # << >> => c.kind = "setup" \/ (setup /\ c.kind # "bad")
            /\ Queue(evs)
       /\ UNCHANGED <<up, ep3, torn>>

(* usb_reg_out_patch.  usbfifo_get_command_buf takes the head of the list. *)
(* Mutant: the ROM's handler, which passes every packet up as a command.   *)
IsLast_EveryPacket(p) == TRUE

IsLast(p) == p.len < MaxPkt

(* An empty list is not tested: g_hifUSBCtx.cmdQueue = buf->next_buf reads *)
(* through NULL, and buf->next_buf = NULL writes through it.  The list may *)
(* become whatever that word holds, NULL or not, or the access raises an   *)
(* exception.                                                              *)
FirstBuf == IF cmdQueue = << >> THEN NoBuf ELSE Head(cmdQueue)

QueueBegun ==
    IF ~out.new THEN {cmdQueue}
    ELSE IF cmdQueue = << >> THEN {<< >>, <<Wild>>}
    ELSE {Tail(cmdQueue)}

(* What the handler works with: the statics, begun anew with a command.    *)
Begun ==
    IF out.new THEN [new |-> FirstBuf = NoBuf, len |-> 0, buf |-> FirstBuf,
                     data |-> << >>, wrapped |-> FALSE]
    ELSE out

(* cmd_len += usbfifolen, for every packet of a command that has a buffer. *)
(* Once it has wrapped, a packet is written behind the last one written,   *)
(* that is behind the buffer, while what is passed up is cmd_len bytes     *)
(* from the buffer's start.  What lies behind the buffer is not modelled.  *)
Counted(p) ==
    [Begun EXCEPT !.len = (@ + p.len) % LenMod,
                  !.wrapped = @ \/ Begun.len + p.len >= LenMod]
Drops(p) == Begun.buf = NoBuf \/ Counted(p).len > BufSize
WithPacket(p) == [Counted(p) EXCEPT !.data = Append(@, p)]

(* With an empty list, the exception: the handler sends an event of its    *)
(* own and jumps to the boot ROM.  With a pointer that is no buffer,       *)
(* anything: the model ends.                                               *)
RegOutWild ==
    /\ out.new /\ FirstBuf \in {NoBuf, Wild}
    /\ up' = FALSE
    /\ UNCHANGED <<setup, cmdQueue, out, passed, eventBufQ, ep3, ep3Int, queued,
                   silenced, torn>>

(* err: the packet is read out and forgotten; cmd_is_new is not set again. *)
RegOutDrop(p) ==
    /\ Drops(p)
    /\ out' = IF Begun.buf = NoBuf THEN Begun ELSE Counted(p)
    /\ cmdQueue' \in QueueBegun
    /\ UNCHANGED <<up, setup, passed, eventBufQ, ep3, ep3Int, queued, silenced, torn>>

RegOutKeep(p) ==
    /\ ~Drops(p) /\ ~IsLast(p)
    /\ out' = WithPacket(p)
    /\ cmdQueue' \in QueueBegun
    /\ UNCHANGED <<up, setup, passed, eventBufQ, ep3, ep3Int, queued, silenced, torn>>

(* The command is the one whose header is at the start of the buffer, with *)
(* the length in cmd_len.                                                  *)
RegOutPass(p) ==
    /\ ~Drops(p) /\ IsLast(p)
    /\ LET o == WithPacket(p)
           c == [kind |-> sent[Head(o.data).of].kind, len |-> o.len]
       IN  /\ passed' = Append(passed, [data |-> o.data, len |-> o.len, wrapped |-> o.wrapped])
           /\ RecvCommand(c)
           /\ \E q \in QueueBegun : cmdQueue' = Returned(q, c, o.buf)
           /\ out' = [o EXCEPT !.new = TRUE]

RegOut ==
    /\ up /\ ep4 # << >>
    /\ ep4' = << >>
    /\ \/ RegOutWild
       \/ /\ out.new => FirstBuf # Wild
          /\ RegOutDrop(Head(ep4)) \/ RegOutKeep(Head(ep4)) \/ RegOutPass(Head(ep4))
    /\ UNCHANGED <<in, hostVars>>
-----------------------------------------------------------------------------
(* usb_status_in_patch runs when EP3 is empty and its interrupt enabled.   *)
(* usbfifo_get_event_buf finds no event: the interrupt is disabled.        *)
(* Mutant: it is also when the last event has been taken from the queue    *)
(* and is half sent.                                                       *)
StatusInNone_HalfSent ==
    /\ up /\ ep3Int /\ ep3 = << >>
    /\ eventBufQ = << >>
    /\ ep3Int' = FALSE
    /\ UNCHANGED <<up, outVars, eventBufQ, inVars, hostVars, queued, silenced, torn>>

StatusInNone ==
    /\ up /\ ep3Int /\ ep3 = << >>
    /\ in.new /\ eventBufQ = << >>
    /\ ep3Int' = FALSE
    /\ UNCHANGED <<up, outVars, eventBufQ, inVars, hostVars, queued, silenced, torn>>

(* The event that is being sent, or the first of the queue.                *)
Current ==
    IF in.new THEN [new |-> FALSE, len |-> Head(eventBufQ).len, of |-> Head(eventBufQ).n]
    ELSE in
Sent(e) == NumPackets(queued[e.of]) - NumPackets(e.len)

(* Mutant: the statics are set up again with every packet.                 *)
AfterPacket_New(e) == [e EXCEPT !.new = TRUE, !.len = @ - MaxPkt]

AfterPacket(e) ==
    IF e.len > MaxPkt THEN [e EXCEPT !.len = @ - MaxPkt] ELSE [e EXCEPT !.new = TRUE]

StatusIn ==
    /\ up /\ ep3Int /\ ep3 = << >>
    /\ ~in.new \/ eventBufQ # << >>
    /\ eventBufQ' = IF in.new THEN Tail(eventBufQ) ELSE eventBufQ
    /\ LET e == Current
       IN  /\ ep3' = <<[of |-> e.of, at |-> Sent(e) + 1,
                        len |-> IF e.len > MaxPkt THEN MaxPkt ELSE e.len]>>
           /\ in' = AfterPacket(e)
    /\ UNCHANGED <<up, outVars, ep3Int, hostVars, queued, silenced, torn>>
-----------------------------------------------------------------------------
Next ==
    \/ \E k \in Kinds, l \in CmdLens : HostCommand(k, l)
    \/ HostPacket
    \/ HostRead
    \/ \E l \in EvtLens : SendEvent(l)
    \/ RegOut
    \/ StatusInNone
    \/ StatusIn

(* The main loop polls both endpoints for ever, the host sends the rest of *)
(* a command it has begun and polls its interrupt endpoint.                *)
Fairness == WF_vars(HostPacket) /\ WF_vars(HostRead) /\ WF_vars(RegOut) /\ WF_vars(StatusIn)

Spec == Init /\ [][Next]_vars /\ Fairness
-----------------------------------------------------------------------------
(* What usb_reg_out_patch passes up is one command of the host, whole and  *)
(* with its length, however many packets it has and whatever came before   *)
(* it: too long a command, no buffer, an answer.  The exception is the     *)
(* command with which the uint16_t cmd_len has wrapped: what is passed up  *)
(* then begins with a command too long for the buffer, and only such a     *)
(* command leads there.  In every case commands keep their order.          *)
CommandsWhole ==
    /\ \A i \in DOMAIN passed :
         LET n == Head(passed[i].data).of
         IN  IF passed[i].wrapped THEN sent[n].len > BufSize
             ELSE passed[i].data = Message(n, sent[n].len) /\ passed[i].len = sent[n].len
    /\ \A i, j \in DOMAIN passed :
         i < j => Head(passed[i].data).of < Head(passed[j].data).of

(* A transfer the host receives on EP3 is one event, whole and in the      *)
(* order of the queue, or a wrong endpoint's event by itself, unless such  *)
(* an event was written over one that was on its way.                      *)
EventsWhole ==
    torn \/ \A i \in DOMAIN received :
              \/ received[i] = <<WrongEpid>>
              \/ LET n == Cardinality({j \in 1..i : received[j] # <<WrongEpid>>})
                 IN  received[i] = Message(n, queued[n])

(* An event is received in the end, if no wrong endpoint disables the      *)
(* interrupt and the device is not suspended.                              *)
EventsDelivered ==
    \A n \in 1..MaxEvents :
        Len(queued) >= n ~> \/ silenced \/ torn \/ ~up
                            \/ \E i \in DOMAIN received : Last(received[i]).of = n

(* A command that the host sends is passed up in the end, unless it or one *)
(* before it was too long or was sent with a wrong endpoint.  In the       *)
(* meantime there was a free buffer: command buffers come back.            *)
Harmless(c) == c.len <= BufSize /\ c.kind \in {"setup", "wmi", "suspend"}
CommandsPassed ==
    \A n \in 1..MaxCommands :
        Len(sent) >= n ~> \/ \E i \in DOMAIN sent : i <= n /\ ~Harmless(sent[i])
                          \/ \E i \in DOMAIN sent : i <= n /\ sent[i].kind = "suspend"
                          \/ \E i \in DOMAIN passed : Head(passed[i].data).of = n
=============================================================================
