------------------------------- MODULE Cmnos -------------------------------
(***************************************************************************)
(* The main loop of the firmware with its two lists of things to do:       *)
(* tasklets, which the WLAN interrupt handler schedules, and timers.       *)
(*                                                                         *)
(* Both are singly linked through their elements and are modelled with     *)
(* these links.  The clock is a counter that wraps around: expiry times    *)
(* are compared by their signed difference.  A timer function arms and     *)
(* disarms timers, also its own.  The clients are library users as the     *)
(* self-test of the timers: they arm a timer that is not armed.  The       *)
(* expiry time of a timer that is not linked is never read and is kept 0.  *)
(* No tasklet function of the firmware schedules a tasklet, and none       *)
(* disables one.                                                           *)
(***************************************************************************)
EXTENDS Integers, FiniteSets

CONSTANTS
    Timers,
    Range,          \* the clock counts modulo Range
    MaxDelay,       \* the longest delay of a timer
    TicksPerLoop    \* how far the clock gets in one turn of the main loop

(* A delay and the turns of the loop it may be late are less than half the *)
(* range.                                                                  *)
ASSUME ClockAssumption ==
    /\ Range \in Nat /\ MaxDelay \in Nat \ {0} /\ TicksPerLoop \in Nat \ {0}
    /\ 2 * (MaxDelay + 2 * TicksPerLoop) < Range

Tasklets == {"fatal", "rx", "tx", "bmiss"}
Nil == "nil"

VARIABLES
    pc,        \* where the main loop is
    clock,     \* NOW() and the ticks of this turn
    tasks,     \* g_tasklet_ctx and the tasklets
    timers,    \* timer_list and the timers
    left       \* what the clients asked for: ticks until a timer is due

vars == <<pc, clock, tasks, timers, left>>

Unarmed == MaxDelay + 1

Init ==
    /\ pc = "isr"
    /\ clock = [now |-> 0, ticks |-> 0]
    /\ tasks = [head |-> Nil, next |-> [k \in Tasklets |-> Nil],
                state |-> [k \in Tasklets |-> "disable"]]
    /\ timers = [head |-> Nil, next |-> [t \in Timers |-> Nil],
                 expire |-> [t \in Timers |-> 0]]
    /\ left = [t \in Timers |-> Unarmed]

----------------------------------------------------------------------------
(* Tasklets.                                                               *)

(* Seeded fault: the tasklets in the list are forgotten.                   *)
Schedule_Forgets(s, k) ==
    IF s.state[k] = "scheduled" THEN s
    ELSE [s EXCEPT !.state[k] = "scheduled", !.head = k]

\* cmnos_tasklet_schedule: at the head of the list.
Schedule(s, k) ==
    IF s.state[k] = "scheduled" THEN s
    ELSE LET t == [s EXCEPT !.state[k] = "scheduled", !.head = k]
         IN  IF s.head = Nil THEN t ELSE [t EXCEPT !.next[k] = s.head]

\* ath_intr: what it schedules, in its order.  Fatal is all there is.
Interrupt(s, status) ==
    IF "fatal" \in status THEN Schedule(s, "fatal")
    ELSE LET rx == IF "rx" \in status THEN Schedule(s, "rx") ELSE s
             tx == Schedule(rx, "tx")
         IN  IF "bmiss" \in status THEN Schedule(tx, "bmiss") ELSE tx

\* wlan_pci_isr, with nothing pending or with any interrupts.
Isr ==
    /\ pc = "isr"
    /\ \/ UNCHANGED tasks
       \/ \E status \in SUBSET Tasklets : tasks' = Interrupt(tasks, status)
    /\ pc' = "tasklets"
    /\ UNCHANGED <<clock, timers, left>>

\* cmnos_tasklet_run: the next tasklet is unlinked and its function called.
TaskletStart ==
    /\ pc = "tasklets" /\ tasks.head # Nil
    /\ LET k == tasks.head
       IN  tasks' = [tasks EXCEPT !.head = tasks.next[k], !.next[k] = Nil,
                                  !.state[k] = "running"]
    /\ pc' = "tasklet"
    /\ UNCHANGED <<clock, timers, left>>

TaskletEnd ==
    /\ pc = "tasklet"
    /\ tasks' = [tasks EXCEPT !.state =
                   [k \in Tasklets |-> IF @[k] = "running" THEN "disable" ELSE @[k]]]
    /\ pc' = "tasklets"
    /\ UNCHANGED <<clock, timers, left>>

TaskletsDone ==
    /\ pc = "tasklets" /\ tasks.head = Nil
    /\ pc' = "timers"
    /\ UNCHANGED <<clock, tasks, timers, left>>

----------------------------------------------------------------------------
(* Timers.                                                                 *)

(* Seeded fault: the times themselves are compared, not their difference.  *)
IsEarlier_NoWrap(t1, t2) == t1 <= t2

\* TIMER_IS_EARLIER: the signed difference of unsigned numbers.
IsEarlier(t1, t2) ==
    LET d == (t1 - t2 + Range) % Range
    IN  d = 0 \/ 2 * d >= Range

\* The elements of the list in order, at most as many as there are timers.
Listed ==
    LET at[n \in 0..Cardinality(Timers)] ==
          IF n = 0 THEN timers.head
          ELSE IF at[n - 1] = Nil THEN Nil ELSE timers.next[at[n - 1]]
    IN  [n \in 1..Cardinality(Timers) |-> at[n - 1]]

\* The search of cmnos_timer_arm: the place of the first timer that is not
\* earlier than e.
Place(e) ==
    LET later == {n \in DOMAIN Listed : Listed[n] = Nil
                     \/ IsEarlier(e, timers.expire[Listed[n]])}
    IN  IF later = {} THEN Cardinality(Timers) + 1
        ELSE CHOOSE n \in later : \A m \in later : n <= m

\* cmnos_timer_arm
Arm(t, delay) ==
    LET e == (clock.now + delay) % Range
        n == Place(e)
        curr == IF n \in DOMAIN Listed THEN Listed[n] ELSE Nil
        linked == [timers EXCEPT !.next[t] = curr, !.expire[t] = e]
    IN  IF n = 1 THEN [linked EXCEPT !.head = t]
                 ELSE [linked EXCEPT !.next[Listed[n - 1]] = t]

\* cmnos_timer_disarm, of a timer that may be armed or not.
Disarm(t) ==
    LET at == {n \in DOMAIN Listed : Listed[n] = t}
        n == CHOOSE m \in at : TRUE
        cut == IF at = {} THEN timers
               ELSE IF n = 1 THEN [timers EXCEPT !.head = timers.next[t]]
               ELSE [timers EXCEPT !.next[Listed[n - 1]] = timers.next[t]]
    IN  [cut EXCEPT !.next[t] = Nil, !.expire[t] = 0]

\* The firmware arms and disarms at any of its steps; a function that the
\* handler called, until it returns.
MayCall == pc \in {"isr", "tasklet", "function"}

\* A timer function does not arm timers that are due at once, or the handler
\* would never return.
TimerArm(t) ==
    /\ MayCall
    /\ left[t] = Unarmed
    /\ \E delay \in (IF pc = "function" THEN 1 ELSE 0)..MaxDelay :
         /\ timers' = Arm(t, delay)
         /\ left' = [left EXCEPT ![t] = delay]
    /\ UNCHANGED <<pc, clock, tasks>>

TimerDisarm(t) ==
    /\ MayCall
    /\ timers' = Disarm(t)
    /\ left' = [left EXCEPT ![t] = Unarmed]
    /\ UNCHANGED <<pc, clock, tasks>>

Due == timers.head # Nil /\ IsEarlier(timers.expire[timers.head], clock.now)

\* cmnos_timer_handler: the first timer is unlinked, its function called.
TimerFire ==
    /\ pc = "timers" /\ Due
    /\ LET t == timers.head
       IN  /\ timers' = [timers EXCEPT !.head = timers.next[t], !.next[t] = Nil,
                                     !.expire[t] = 0]
           /\ left' = [left EXCEPT ![t] = Unarmed]
    /\ pc' = "function"
    /\ UNCHANGED <<clock, tasks>>

TimerReturn ==
    /\ pc = "function"
    /\ pc' = "timers"
    /\ UNCHANGED <<clock, tasks, timers, left>>

\* The handler returns, and with it a turn of wlan_task ends.
TimersDone ==
    /\ pc = "timers" /\ ~Due
    /\ pc' = "isr"
    /\ clock' = [clock EXCEPT !.ticks = 0]
    /\ UNCHANGED <<tasks, timers, left>>

\* The clock goes on, whatever the loop is doing.
Tick ==
    /\ clock.ticks < TicksPerLoop
    /\ clock' = [now |-> (clock.now + 1) % Range, ticks |-> clock.ticks + 1]
    /\ left' = [t \in Timers |-> IF left[t] = Unarmed THEN Unarmed ELSE left[t] - 1]
    /\ UNCHANGED <<pc, tasks, timers>>

Next ==
    \/ Isr \/ TaskletStart \/ TaskletEnd \/ TaskletsDone
    \/ \E t \in Timers : TimerArm(t) \/ TimerDisarm(t)
    \/ TimerFire \/ TimerReturn \/ TimersDone
    \/ Tick

(* The loop never stops, a function returns, and the clock goes on.        *)
Loop == Isr \/ TaskletStart \/ TaskletEnd \/ TaskletsDone
        \/ TimerFire \/ TimerReturn \/ TimersDone
Fairness == WF_vars(Loop) /\ WF_vars(Tick)

Spec == Init /\ [][Next]_vars /\ Fairness
----------------------------------------------------------------------------
(* A timer fires when it is due, before those that are due later, and no   *)
(* timer that is due is left behind when the handler returns: although the *)
(* clock wraps around and timer functions change the list that the handler *)
(* goes through.                                                           *)
TimersInOrder ==
    [][/\ pc = "timers" /\ pc' = "function" =>
            /\ left[timers.head] <= 0
            /\ \A t \in Timers : left[timers.head] <= left[t]
       /\ pc = "timers" /\ pc' = "isr" => \A t \in Timers : left[t] > 0]_vars

(* Nothing that was asked for is lost from the lists: a scheduled tasklet  *)
(* runs, and a timer fires unless it is disarmed.                          *)
NothingLost ==
    /\ \A k \in Tasklets : tasks.state[k] = "scheduled" ~> tasks.state[k] = "running"
    /\ \A t \in Timers : left[t] <= 0 ~> left[t] > 0
=============================================================================
