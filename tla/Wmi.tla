-------------------------------- MODULE Wmi --------------------------------
(***************************************************************************)
(* The command service of the firmware and what shares its buffers: the    *)
(* replies to commands, the events of the WLAN interrupt, and the status   *)
(* of transmitted frames that two of these events carry.                   *)
(*                                                                         *)
(* A handler runs to its end.  An interrupt and the tasklets it schedules  *)
(* are one step, because the main loop runs them before it looks for the   *)
(* next message.  Messages to the host keep their order; the buffer of a   *)
(* message comes back when it has been written to the FIFO of EP3, which   *)
(* holds one (UsbFifo).  The host, which is external, gives one command at *)
(* a time and waits for its reply.                                         *)
(***************************************************************************)
EXTENDS Naturals, Sequences, FiniteSets, SequencesExt

CONSTANTS
    MaxCmdReply,    \* ATH_WMI_MAX_CMD_REPLY: buffers for replies
    MaxEvents,      \* ATH_WMI_MAX_EVENTS: buffers for events
    MaxTxStatus,    \* HTC_MAX_TX_STATUS: status entries of an event
    Cookies         \* the numbers by which the host knows its frames

ASSUME PoolAssumption ==
    /\ MaxCmdReply \in Nat \ {0} /\ MaxEvents \in Nat /\ MaxTxStatus \in Nat \ {0}
    /\ Cookies \subseteq Nat /\ IsFiniteSet(Cookies)

VARIABLES
    wmi,      \* free buffers of the two pools; whether an assertion failed
    wire,     \* messages that wait for the FIFO, and what is in it
    intr,     \* whether the hardware may interrupt
    txs,      \* tx_status: per event its entries, and the ACK flag that each
              \* of its places held last
    frame,    \* per cookie: free, queued, or, while its status is on the way,
              \* what became of the frame
    cmd       \* the command the host waits for, or what became of it

vars == <<wmi, wire, intr, txs, frame, cmd>>

Fates == {"queued", "drained", "acked", "failed", "aggrfailed"}
Places == 1..MaxTxStatus
NoCommand == [st |-> "none", op |-> "none"]

\* "enable" stands for ath_init_tgt and ath_enable_intr_tgt, "memory" for
\* WMI_ACCESS_MEMORY_CMDID, "other" for register access, statistics, stations,
\* interfaces, rates and whatever else leaves this state alone; "unknown" is not
\* in the dispatch table.
Ops == {"enable", "disable", "abort", "drain", "drainall", "memory", "other", "unknown"}

\* The commands whose handlers send a reply.
Replying == Ops \ {"memory", "unknown"}

Init ==
    /\ wmi = [reply |-> MaxCmdReply, event |-> MaxEvents, assert |-> TRUE]
    /\ wire = [msgs |-> << >>, fifo |-> << >>]
    /\ intr = FALSE
    /\ txs = [e \in 1..2 |-> [list |-> << >>, old |-> [i \in Places |-> FALSE]]]
    /\ frame = [c \in Cookies |-> "free"]
    /\ cmd = NoCommand

----------------------------------------------------------------------------
(* Events and replies.  A step that sends takes a state s of the pools and *)
(* the wire and returns it.                                                *)

Now == [wmi |-> wmi, wire |-> wire]

\* WMI_AllocEvent, WMI_SendEvent
Send(s, pool, body) ==
    [wmi  |-> [s.wmi EXCEPT ![pool] = @ - 1],
     wire |-> [s.wire EXCEPT !.msgs = Append(@, [class |-> pool, body |-> body])]]

\* wmi_event: without a buffer the event is dropped.
Event(s, body) == IF s.wmi.event = 0 THEN s ELSE Send(s, "event", body)

\* wmi_cmd_rsp: without a buffer an assertion fails.
CmdRsp(s) ==
    IF s.wmi.reply = 0 THEN [s EXCEPT !.wmi.assert = FALSE]
    ELSE Send(s, "reply", << >>)

Sent(s) == wmi' = s.wmi /\ wire' = s.wire


\* _WMI_SendCompleteHandler: back to the pool of its class.
FreeBuf(class) == [wmi EXCEPT ![class] = @ + 1]

SendComplete ==
    /\ wire.msgs # << >> /\ wire.fifo = << >>
    /\ wmi' = FreeBuf(Head(wire.msgs).class)
    /\ wire' = [msgs |-> Tail(wire.msgs), fifo |-> <<Head(wire.msgs)>>]
    /\ UNCHANGED <<intr, txs, frame, cmd>>

----------------------------------------------------------------------------
(* Status of transmitted frames.                                           *)

(* Seeded fault: what is left from before is not discarded.                *)
StatusClear_Not(t) == t

\* ath_tx_status_clear: the entries go, the flags stay in their places.
StatusClear(t) == [e \in 1..2 |-> [t[e] EXCEPT !.list = << >>]]

\* ath_tx_status_get: the first event with room, or none.
WithRoom(t) == {e \in 1..2 : Len(t[e].list) < MaxTxStatus
                             /\ \A d \in 1..(e - 1) : Len(t[d].list) = MaxTxStatus}

\* ath_tx_status_update for a frame on its own, and ath_tx_status_update_aggr,
\* which does not reset the flags of the place it writes.
StatusUpdate(t, c, fate) ==
    IF WithRoom(t) = {} THEN t
    ELSE LET e == CHOOSE x \in WithRoom(t) : TRUE
             i == Len(t[e].list) + 1
             ack == fate = "acked" \/ (fate = "aggrfailed" /\ t[e].old[i])
         IN  [t EXCEPT ![e] = [list |-> Append(@.list, [cookie |-> c, ack |-> ack]),
                               old  |-> [@.old EXCEPT ![i] = ack]]]

\* owltgt_tx_processq: the completions of the frames of D, one after another,
\* each with its fate.
StatusUpdates(t, D, fate) ==
    FoldSet(LAMBDA c, u : StatusUpdate(u, c, fate[c]), t, D)

\* owltgt_tx_processq for a queue that is stopped: HAL_OK for every frame.
StatusDrain(t, D) == StatusUpdates(t, D, [c \in D |-> "acked"])

\* ath_tx_status_send: an event for each that has entries.
StatusSend(s, t) ==
    LET send(u, e) == IF t[e].list = << >> THEN u
                      ELSE Event(u, t[e].list)
    IN  send(send(s, 1), 2)

Queued == {c \in Cookies : frame[c] = "queued"}

Unread == wire.fifo \o wire.msgs
Entries == UNION {ToSet(m.body) : m \in ToSet(Unread)}
Reported == {e.cookie : e \in Entries}

\* A cookie whose status will never come is free once the host has given up.
Outcome(fate) ==
    [c \in Cookies |->
       IF c \notin DOMAIN fate THEN frame[c]
       ELSE IF fate[c] = "queued" \/ c \in Reported' THEN fate[c] ELSE "free"]

----------------------------------------------------------------------------
(* Interrupts and their tasklets.                                          *)

\* An event without a list: beacon alert, missed beacons, fatal error.
Alert == << >>

\* ath_intr, ath_fatal_tasklet: interrupts are off from now on.
FatalInterrupt ==
    /\ intr
    /\ intr' = FALSE
    /\ Sent(Event(Now, Alert))
    /\ UNCHANGED <<txs, frame, cmd>>

\* ath_intr: at the alert of a beacon the frames that wait for beacons are
\* drained as if they had been sent.  Then the tasklets, last scheduled first:
\* ath_bmiss_tasklet, and owl_tgt_tx_tasklet, which every interrupt schedules.
\* fate says what becomes of each queued frame: "queued" and it stays, "drained",
\* "acked", "failed" on its own, "aggrfailed" in an aggregate.
Interrupt(swba, bmiss, fate) ==
    /\ intr
    /\ LET Of(f) == {c \in DOMAIN fate : fate[c] \in f}
           Drained == Of({"drained"})
           Done == Of({"acked", "failed", "aggrfailed"})
           s0 == IF swba THEN Event(Now, Alert) ELSE Now
           s1 == IF bmiss THEN Event(s0, Alert) ELSE s0
           t0 == StatusDrain(txs, Drained)
           t1 == StatusUpdates(StatusClear(t0), Done, fate)
       IN  /\ swba \/ Drained = {}
           /\ Sent(StatusSend(s1, t1))
           /\ txs' = StatusClear(t1)
    /\ frame' = Outcome(fate)
    /\ UNCHANGED <<intr, cmd>>

----------------------------------------------------------------------------
(* Commands.                                                               *)

\* ath_init_tgt, ath_enable_intr_tgt, ath_disable_intr_tgt
IntrAfter(op) == IF op = "enable" THEN TRUE ELSE IF op = "disable" THEN FALSE ELSE intr

\* The frames that a command drains: ath_aborttxq_tgt and ath_draintxq_tgt those
\* of all queues, ath_tx_draintxq_tgt those of one.
MayDrain(op) == CASE op \in {"abort", "drainall"} -> {Queued}
                  [] op = "drain"                 -> SUBSET Queued
                  [] OTHER                        -> {{}}

\* Frames that are drained leave entries, but not with sc_tx_draining, which
\* ath_draintxq sets.
TxsAfter(op, D) == IF op = "drainall" THEN StatusClear(txs) ELSE StatusDrain(txs, D)

\* What has become of a command once its handler is done.  The handler of
\* "memory", dispatch_magpie_sys_cmds, is an assertion that always fails: it
\* stops the firmware, or, in a build whose assertion only reports, the command
\* is dropped.
StatesAfter(op) == CASE op \in Replying -> {"handled"}
                     [] op = "unknown"  -> {"dropped"}
                     [] op = "memory"   -> {"dropped", "halted"}

\* WMIRecvMessageHandler: a command that is not in the table is dropped.
RecvCommand ==
    /\ cmd.st = "sent"
    /\ intr' = IntrAfter(cmd.op)
    /\ \E D \in MayDrain(cmd.op) :
         /\ txs' = TxsAfter(cmd.op, D)
         /\ frame' = [c \in Cookies |-> IF c \in D THEN "free" ELSE frame[c]]
    /\ Sent(IF cmd.op \in Replying THEN CmdRsp(Now) ELSE Now)
    /\ \E st \in StatesAfter(cmd.op) : cmd' = [NoCommand EXCEPT !.st = st]

----------------------------------------------------------------------------
(* The host.                                                               *)

HostCommand(op) ==
    /\ cmd = NoCommand
    /\ cmd' = [NoCommand EXCEPT !.st = "sent", !.op = op]
    /\ UNCHANGED <<wmi, wire, intr, txs, frame>>

HostFrame(c) ==
    /\ frame[c] = "free"
    /\ frame' = [frame EXCEPT ![c] = "queued"]
    /\ UNCHANGED <<wmi, wire, intr, txs, cmd>>

\* The next message: the reply ends the wait, a status frees its cookies.
HostRead ==
    /\ wire.fifo # << >>
    /\ LET m == Head(wire.fifo)
           cs == {e.cookie : e \in ToSet(m.body)}
       IN  /\ cmd' = IF m.class = "reply" THEN NoCommand ELSE cmd
           /\ frame' = [c \in Cookies |-> IF c \in cs THEN "free" ELSE frame[c]]
    /\ wire' = [wire EXCEPT !.fifo = << >>]
    /\ UNCHANGED <<wmi, intr, txs>>

\* A command that was dropped has no answer.  Nor has one that halted the
\* firmware, but then the host gives no more commands.
HostTimeout ==
    /\ cmd.st = "dropped" /\ cmd' = NoCommand
    /\ UNCHANGED <<wmi, wire, intr, txs, frame>>

Target ==
    \/ SendComplete \/ FatalInterrupt \/ RecvCommand
    \/ \E swba, bmiss \in BOOLEAN, fate \in [Queued -> Fates] :
         Interrupt(swba, bmiss, fate)

\* No assertion has stopped the firmware.
Running == wmi.assert /\ cmd.st # "halted"

Next ==
    \/ Running /\ Target
    \/ /\ wmi.assert
       /\ \/ \E op \in Ops : HostCommand(op)
          \/ \E c \in Cookies : HostFrame(c)
          \/ HostRead \/ HostTimeout

Fairness ==
    /\ WF_vars(Running /\ RecvCommand)
    /\ WF_vars(wmi.assert /\ HostRead)
    /\ WF_vars(Running /\ SendComplete)

Spec == Init /\ [][Next]_vars /\ Fairness
----------------------------------------------------------------------------
(* A status event says of each frame at most once what became of it: it    *)
(* has no more entries than places, they name frames that the host waits   *)
(* for, a frame sent on its own is reported acknowledged exactly if it     *)
(* was, and one of an aggregate if it was.  Entries of drained frames,     *)
(* which claim that the frame was sent, are never seen.                    *)
StatusRight ==
    /\ \A i, j \in DOMAIN Unread :
         /\ Len(Unread[i].body) <= MaxTxStatus
         /\ \A k, l \in DOMAIN Unread[i].body :
              Unread[i].body[k].cookie = Unread[i].body[l].cookie => k = l
         /\ i # j => {e.cookie : e \in ToSet(Unread[i].body)}
                       \cap {e.cookie : e \in ToSet(Unread[j].body)} = {}
    /\ \A e \in Entries :
         /\ frame[e.cookie] \in {"acked", "failed", "aggrfailed"}
         /\ frame[e.cookie] = "acked" => e.ack
         /\ frame[e.cookie] = "failed" => ~e.ack

=============================================================================
