------------------------------- MODULE DnFifo -------------------------------
(***************************************************************************)
(* What the layers above expect of a queue of messages from the host: a    *)
(* message is delivered once, whole and in order of arrival, and nothing   *)
(* changes it while they hold it.                                          *)
(***************************************************************************)
EXTENDS Naturals, Sequences

CONSTANTS
    MaxLen,     \* the most buffers a message takes
    MaxMsgs     \* the most messages around at a time

VARIABLES
    arrived,    \* messages received and not delivered, oldest first
    held        \* messages delivered and not returned

dnVars == <<arrived, held>>

(* A message is the sequence of its segments, each with its number.        *)
Messages == {[i \in 1..k |-> <<m, i>>] : m \in 1..MaxMsgs, k \in 1..MaxLen}

Init == arrived = << >> /\ held = {}

(* A new message arrives.                                                  *)
Receive(m) ==
    /\ arrived' = Append(arrived, m)
    /\ UNCHANGED held

Deliver ==
    /\ arrived # << >>
    /\ held' = held \cup {Head(arrived)}
    /\ arrived' = Tail(arrived)

Return(m) ==
    /\ held' = held \ {m}
    /\ UNCHANGED arrived

Next ==
    \/ \E m \in Messages : Receive(m)
    \/ Deliver
    \/ \E m \in held : Return(m)

Spec == Init /\ [][Next]_dnVars
=============================================================================
