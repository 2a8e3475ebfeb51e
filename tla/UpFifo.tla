------------------------------- MODULE UpFifo -------------------------------
(***************************************************************************)
(* What the layers above expect of the queue of messages to the host: the  *)
(* buffers submitted are transmitted in order, each once, with the data    *)
(* they were submitted with, and come back to their sender in that order.  *)
(***************************************************************************)
EXTENDS Naturals, Sequences, SequencesExt

CONSTANTS
    Vbufs,      \* the buffers that carry messages to the host
    PktLen      \* the number of data segments of each

VARIABLES
    fifo,       \* buffers submitted and not yet returned, oldest first
    sent,       \* how many of them have been transmitted
    wire        \* the data of the last message transmitted

fifoVars == <<fifo, sent, wire>>

(* The data segments of a buffer, which stay its own for ever.             *)
Data(v) == [i \in 1..PktLen[v] |-> <<v, i>>]

Init ==
    /\ fifo = << >>
    /\ sent = 0
    /\ wire = << >>

Submit(v) ==
    /\ v \notin ToSet(fifo)
    /\ fifo' = Append(fifo, v)
    /\ UNCHANGED <<sent, wire>>

Transmit ==
    /\ sent < Len(fifo)
    /\ sent' = sent + 1
    /\ wire' = Data(fifo[sent + 1])
    /\ UNCHANGED fifo

Return ==
    /\ sent > 0
    /\ fifo' = Tail(fifo)
    /\ sent' = sent - 1
    /\ UNCHANGED wire

Next == (\E v \in Vbufs : Submit(v)) \/ Transmit \/ Return

(* What must never happen otherwise, and what must happen.                 *)
Safety == Init /\ [][Next]_fifoVars

Spec == /\ Safety
        /\ WF_fifoVars(Transmit) /\ WF_fifoVars(Return)
=============================================================================
