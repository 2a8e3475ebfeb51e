----------------------------- MODULE HtcProofs -----------------------------
(* Proofs about Htc for every number of endpoints, control buffers and     *)
(* credits.                                                                *)
EXTENDS Htc, FiniteSetTheorems, TLAPS

(* The credits of an endpoint that are on the target's side.               *)
TargetSum(h, e) == h.air[e] + h.CreditsToReturn[e] + h.CreditsConsumed[e]

(* The fields a sender of messages leaves alone.                           *)
SameCore(g, h) ==
    /\ g.CreditsConsumed = h.CreditsConsumed
    /\ g.Level = h.Level
    /\ g.HostNeedsCredit = h.HostNeedsCredit
    /\ g.CurrentEp = h.CurrentEp
    /\ g.SetupComplete = h.SetupComplete
    /\ g.fault = h.fault

(* The fields only the life of a control buffer changes.                   *)
SameBufs(g, h) ==
    /\ g.PendingCreditReports = h.PendingCreditReports
    /\ g.pool = h.pool
    /\ g.rptOf = h.rptOf
    /\ g.wire = h.wire

(* The pool is finite.                                                     *)
LEMMA CtrlBufsFinite == IsFiniteSet(CtrlBufs)
<1>1. 1 \in Int /\ NumCtrlBufs \in Int
  BY HtcAssumption
<1> QED BY <1>1, FS_Interval DEF CtrlBufs

(* A scaled threshold is at most what it is scaled from.                   *)
LEMMA ScaleBound ==
    ASSUME NEW level \in AllLevels, NEW n \in Int
    PROVE  /\ Scale(level, n) \in Int
           /\ n >= 0 => Scale(level, n) <= n
BY DEF Scale, AllLevels

(* What AdjustCreditThreshold changes.                                     *)
LEMMA AdjustFields ==
    ASSUME NEW h \in Contexts, NEW S \in SUBSET Endpoints,
           NEW g, g = AdjustCreditThreshold(h, S)
    PROVE  /\ g \in Contexts
           /\ SameCore(g, h)
           /\ SameBufs(g, h)
           /\ g.CreditsToReturn = h.CreditsToReturn
           /\ g.CreditPending = h.CreditPending
           /\ g.UpdateSoon = h.UpdateSoon
           /\ g.air = h.air
           /\ \A e \in Endpoints :
                g.Threshold[e] =
                    IF e \in S /\ h.Level[e] # "none"
                    THEN Scale(h.Level[e], h.CreditsToReturn[e] + h.CreditsConsumed[e])
                    ELSE h.Threshold[e]
<1> DEFINE T == [e \in Endpoints |->
                    IF e \in S /\ h.Level[e] # "none"
                    THEN Scale(h.Level[e], h.CreditsToReturn[e] + h.CreditsConsumed[e])
                    ELSE h.Threshold[e]]
<1>1. T \in [Endpoints -> Int]
  <2> SUFFICES ASSUME NEW e \in Endpoints PROVE T[e] \in Int
    OBVIOUS
  <2>1. h.Level[e] \in AllLevels /\ h.CreditsToReturn[e] + h.CreditsConsumed[e] \in Int
        /\ h.Threshold[e] \in Int
    BY DEF Contexts
  <2> QED BY <2>1, ScaleBound
<1>2. g = [h EXCEPT !.Threshold = T]
  BY DEF AdjustCreditThreshold
<1> HIDE DEF T
<1>3. g \in Contexts /\ g.Threshold = T
  BY <1>1, <1>2 DEF Contexts
<1>4. SameCore(g, h) /\ SameBufs(g, h) /\ g.CreditsToReturn = h.CreditsToReturn
      /\ g.CreditPending = h.CreditPending /\ g.UpdateSoon = h.UpdateSoon /\ g.air = h.air
  BY <1>2 DEF Contexts, SameCore, SameBufs
<1> QED BY <1>3, <1>4 DEF T

(* What _HTC_SendMsg changes: the reported endpoints' credits move from    *)
(* CreditsToReturn into the trailer.                                       *)
LEMMA SendMsgFields ==
    ASSUME NEW h \in Contexts, NEW room, NEW g, g = SendMsg(h, room)
    PROVE  /\ g \in Contexts
           /\ SameCore(g, h)
           /\ SameBufs(g, h)
           /\ g.UpdateSoon = h.UpdateSoon
           /\ g.CreditPending = h.CreditPending \ Reported(h, room)
           /\ \A e \in Endpoints :
                IF e \in Reported(h, room)
                THEN /\ g.CreditsToReturn[e] = 0
                     /\ g.air[e] = h.air[e] + (h.CreditsToReturn[e] % 256)
                     /\ g.Threshold[e] = IF h.Level[e] = "none" THEN h.Threshold[e]
                                         ELSE Scale(h.Level[e], h.CreditsConsumed[e])
                ELSE /\ g.CreditsToReturn[e] = h.CreditsToReturn[e]
                     /\ g.air[e] = h.air[e]
                     /\ g.Threshold[e] = h.Threshold[e]
<1> DEFINE r == Reported(h, room)
           A == [e \in Endpoints |->
                    IF e \in r THEN h.air[e] + (h.CreditsToReturn[e] % 256) ELSE h.air[e]]
           C == [e \in Endpoints |-> IF e \in r THEN 0 ELSE h.CreditsToReturn[e]]
           k == [h EXCEPT !.air = A, !.CreditsToReturn = C, !.CreditPending = @ \ r]
<1>1. A \in [Endpoints -> Nat] /\ C \in [Endpoints -> Int] /\ r \in SUBSET Endpoints
  <2>1. \A e \in Endpoints : h.air[e] \in Nat /\ h.CreditsToReturn[e] \in Int
    BY DEF Contexts
  <2>2. h.CreditPending \in SUBSET Endpoints
    BY DEF Contexts
  <2>3. r \in SUBSET Endpoints
    BY <2>2 DEF Reported
  <2>4. \A e \in Endpoints : h.CreditsToReturn[e] % 256 \in Nat
    BY <2>1
  <2> QED BY <2>1, <2>3, <2>4
<1>2. g = AdjustCreditThreshold(k, r)
  BY DEF SendMsg
<1>3. \A e \in Endpoints : A[e] = (IF e \in r THEN h.air[e] + (h.CreditsToReturn[e] % 256)
                                   ELSE h.air[e])
                        /\ C[e] = (IF e \in r THEN 0 ELSE h.CreditsToReturn[e])
  OBVIOUS
<1>4. h.CreditPending \ r \in SUBSET Endpoints
  BY DEF Contexts
<1> HIDE DEF r, A, C
<1>5. k \in Contexts
  BY <1>1, <1>4 DEF Contexts
<1>6. /\ k.air = A /\ k.CreditsToReturn = C /\ k.CreditPending = h.CreditPending \ r
      /\ SameCore(k, h) /\ SameBufs(k, h) /\ k.UpdateSoon = h.UpdateSoon
      /\ k.Threshold = h.Threshold
  BY DEF Contexts, SameCore, SameBufs
<1> HIDE DEF k
<1>7. /\ g \in Contexts /\ SameCore(g, k) /\ SameBufs(g, k)
      /\ g.CreditsToReturn = C /\ g.CreditPending = h.CreditPending \ r
      /\ g.UpdateSoon = h.UpdateSoon /\ g.air = A
      /\ \A e \in Endpoints :
            g.Threshold[e] = IF e \in r /\ k.Level[e] # "none"
                             THEN Scale(k.Level[e], C[e] + k.CreditsConsumed[e])
                             ELSE h.Threshold[e]
  BY <1>1, <1>2, <1>5, <1>6, AdjustFields
<1>8. SameCore(g, h) /\ SameBufs(g, h)
  BY <1>6, <1>7 DEF SameCore, SameBufs
<1>9. k.Level = h.Level /\ k.CreditsConsumed = h.CreditsConsumed
  BY <1>6 DEF SameCore
<1>10. \A e \in Endpoints : h.CreditsConsumed[e] \in Int
  BY DEF Contexts
<1>11. \A e \in Endpoints : e \in r => C[e] + h.CreditsConsumed[e] = h.CreditsConsumed[e]
  BY <1>3, <1>10
<1> QED BY <1>3, <1>7, <1>8, <1>9, <1>11 DEF r

(* A control buffer has room for the credits of every endpoint.            *)
LEMMA CtrlRoomSuffices ==
    ASSUME NEW h \in Contexts
    PROVE  Reported(h, CtrlRoom) = h.CreditPending
<1> SUFFICES ASSUME NEW e \in h.CreditPending
             PROVE  Cardinality({i \in h.CreditPending : i < e}) < CtrlRoom
  BY DEF Reported
<1> DEFINE below == {i \in h.CreditPending : i < e}
<1>1. h.CreditPending \subseteq 0..MaxEp /\ e \in 0..MaxEp
  BY DEF Contexts, Endpoints
<1>2. MaxEp \in Nat
  BY HtcAssumption
<1>3. IsFiniteSet(0..(MaxEp - 1)) /\ Cardinality(0..(MaxEp - 1)) <= MaxEp
  <2>1. 0 \in Int /\ MaxEp - 1 \in Int
    BY <1>2
  <2>2. IsFiniteSet(0..(MaxEp - 1))
        /\ Cardinality(0..(MaxEp - 1)) = IF 0 > MaxEp - 1 THEN 0 ELSE (MaxEp - 1) - 0 + 1
    BY <2>1, FS_Interval
  <2> QED BY <1>2, <2>2
<1>4. below \subseteq 0..(MaxEp - 1)
  BY <1>1, <1>2
<1>5. Cardinality(below) <= Cardinality(0..(MaxEp - 1)) /\ IsFiniteSet(below)
  BY <1>3, <1>4, FS_Subset
<1>6. Cardinality(below) \in Nat /\ Cardinality(0..(MaxEp - 1)) \in Nat
  BY <1>3, <1>5, FS_CardinalityType
<1> QED BY <1>2, <1>3, <1>5, <1>6 DEF CtrlRoom

----------------------------------------------------------------------------
(* The invariant of a context that every operator on contexts preserves.   *)

(* A control buffer is in the pool, once, or with HIF.                     *)
BufsOK(h) ==
    /\ \A i, j \in 1..Len(h.pool) : h.pool[i] = h.pool[j] => i = j
    /\ \A i \in 1..Len(h.pool) : h.pool[i] \notin h.wire
    /\ \A b \in CtrlBufs : b \in h.wire \/ \E i \in 1..Len(h.pool) : h.pool[i] = b

InFlight(h, e) == {b \in h.wire : h.rptOf[b] = e}

(* PendingCreditReports never counts more than the buffers whose           *)
(* completion will decrement it.                                           *)
ReportsOK(h) ==
    \A e \in Endpoints : h.PendingCreditReports[e] <= Cardinality(InFlight(h, e))

CreditsOK(h) ==
    \A e \in Endpoints :
        /\ h.CreditsToReturn[e] >= 0
        /\ h.CreditsConsumed[e] >= 0
        /\ TargetSum(h, e) <= 255

ThresholdOK(h) ==
    \A e \in Endpoints :
        /\ h.Threshold[e] <= h.CreditsToReturn[e] + h.CreditsConsumed[e]
        /\ h.Level[e] = "none" => h.Threshold[e] = 0
        /\ e >= h.CurrentEp => h.Level[e] = "none"

SoonOK(h) == h.UpdateSoon => h.wire # {}

ContextInv(h) ==
    /\ h \in Contexts
    /\ BufsOK(h)
    /\ ReportsOK(h)
    /\ CreditsOK(h)
    /\ ThresholdOK(h)
    /\ SoonOK(h)

(* NoStrandedCredit, except for the endpoints a handler will still check.  *)
NoneStrandedBut(h, S) ==
    \A e \in h.HostNeedsCredit \cap h.CreditPending :
        h.CreditsToReturn[e] >= h.Threshold[e] => h.UpdateSoon \/ e \in S

SameSums(g, h) == \A e \in Endpoints : TargetSum(g, e) = TargetSum(h, e)

(* A message's trailer moves credits and strands none.                     *)
LEMMA SendMsgInv ==
    ASSUME NEW h, NEW room, NEW S, ContextInv(h), NoneStrandedBut(h, S),
           NEW g, g = SendMsg(h, room)
    PROVE  ContextInv(g) /\ NoneStrandedBut(g, S) /\ SameCore(g, h) /\ SameSums(g, h)
<1> DEFINE r == Reported(h, room)
<1>1. h \in Contexts
  BY DEF ContextInv
<1>2. /\ g \in Contexts /\ SameCore(g, h) /\ SameBufs(g, h)
      /\ g.UpdateSoon = h.UpdateSoon
      /\ g.CreditPending = h.CreditPending \ r
      /\ \A e \in Endpoints :
                IF e \in r
                THEN /\ g.CreditsToReturn[e] = 0
                     /\ g.air[e] = h.air[e] + (h.CreditsToReturn[e] % 256)
                     /\ g.Threshold[e] = IF h.Level[e] = "none" THEN h.Threshold[e]
                                         ELSE Scale(h.Level[e], h.CreditsConsumed[e])
                ELSE /\ g.CreditsToReturn[e] = h.CreditsToReturn[e]
                     /\ g.air[e] = h.air[e]
                     /\ g.Threshold[e] = h.Threshold[e]
  BY <1>1, SendMsgFields
<1> HIDE DEF r
<1>3. \A e \in Endpoints : /\ h.air[e] \in Nat /\ h.CreditsToReturn[e] \in Int
                           /\ h.CreditsConsumed[e] \in Int /\ h.Threshold[e] \in Int
                           /\ h.Level[e] \in AllLevels
  BY <1>1 DEF Contexts
<1>4. \A e \in Endpoints : h.CreditsToReturn[e] \in 0..255 /\ h.CreditsConsumed[e] >= 0
  <2> SUFFICES ASSUME NEW e \in Endpoints
               PROVE  h.CreditsToReturn[e] \in 0..255 /\ h.CreditsConsumed[e] >= 0
    OBVIOUS
  <2>1. /\ h.CreditsToReturn[e] >= 0 /\ h.CreditsConsumed[e] >= 0
        /\ h.air[e] + h.CreditsToReturn[e] + h.CreditsConsumed[e] <= 255
    BY DEF ContextInv, CreditsOK, TargetSum
  <2> QED BY <1>3, <2>1
<1>5. \A e \in Endpoints : h.CreditsToReturn[e] % 256 = h.CreditsToReturn[e]
  BY <1>4
<1>6. SameSums(g, h)
  BY <1>2, <1>3, <1>4, <1>5 DEF SameSums, TargetSum, SameCore
<1>7. CreditsOK(g)
  BY <1>2, <1>3, <1>4, <1>6 DEF SameCore, SameSums, CreditsOK, ContextInv
<1>8. ThresholdOK(g)
  <2> SUFFICES ASSUME NEW e \in Endpoints
               PROVE  /\ g.Threshold[e] <= g.CreditsToReturn[e] + h.CreditsConsumed[e]
                      /\ h.Level[e] = "none" => g.Threshold[e] = 0
                      /\ e >= h.CurrentEp => h.Level[e] = "none"
    BY <1>2 DEF SameCore, ThresholdOK
  <2>1. /\ h.Threshold[e] <= h.CreditsToReturn[e] + h.CreditsConsumed[e]
        /\ h.Level[e] = "none" => h.Threshold[e] = 0
        /\ e >= h.CurrentEp => h.Level[e] = "none"
    BY DEF ContextInv, ThresholdOK
  <2>2. Scale(h.Level[e], h.CreditsConsumed[e]) <= h.CreditsConsumed[e]
    BY <1>3, <1>4, ScaleBound
  <2>3. CASE e \in r
    BY <1>2, <1>3, <1>4, <2>1, <2>2, <2>3
  <2>4. CASE e \notin r
    BY <1>2, <2>1, <2>4
  <2> QED BY <2>3, <2>4
<1>9. BufsOK(g) /\ ReportsOK(g) /\ SoonOK(g)
  BY <1>2 DEF ContextInv, BufsOK, ReportsOK, SoonOK, SameBufs, InFlight
<1>10. NoneStrandedBut(g, S)
  <2> SUFFICES ASSUME NEW e \in g.HostNeedsCredit \cap g.CreditPending,
                      g.CreditsToReturn[e] >= g.Threshold[e]
               PROVE  g.UpdateSoon \/ e \in S
    BY DEF NoneStrandedBut
  <2>1. e \in h.HostNeedsCredit \cap h.CreditPending /\ e \notin r
    BY <1>2 DEF SameCore
  <2>2. e \in Endpoints
    BY <1>1, <2>1 DEF Contexts
  <2> QED BY <1>2, <2>1, <2>2 DEF NoneStrandedBut
<1> QED BY <1>2, <1>6, <1>7, <1>8, <1>9, <1>10 DEF ContextInv

(* Allocating a control buffer for a report of e, or for none.             *)
Take(h, e) ==
    LET m == MarkReport(h, e)
    IN  [m EXCEPT !.pool = SubSeq(@, 1, Len(@) - 1), !.wire = @ \cup {Top(m)}]

(* A report and a response are both a buffer taken and a message sent.     *)
LEMMA SendCtrlIsTake ==
    ASSUME NEW h, NEW e
    PROVE  /\ SendCtrl(MarkReport(h, e)) = SendMsg(Take(h, e), CtrlRoom)
           /\ SendCtrl(h) = SendMsg(Take(h, NoEp), CtrlRoom)
BY DEF SendCtrl, Take, MarkReport

(* What taking a control buffer changes.                                   *)
TakeEffect(g, h, e) ==
    /\ g \in Contexts /\ SameCore(g, h)
    /\ g.CreditsToReturn = h.CreditsToReturn /\ g.Threshold = h.Threshold
    /\ g.CreditPending = h.CreditPending /\ g.UpdateSoon = h.UpdateSoon
    /\ g.air = h.air
    /\ Top(h) \in CtrlBufs
    /\ g.pool = SubSeq(h.pool, 1, Len(h.pool) - 1)
    /\ g.wire = h.wire \cup {Top(h)}
    /\ e = NoEp => /\ g.PendingCreditReports = h.PendingCreditReports
                   /\ g.rptOf = h.rptOf
    /\ e # NoEp =>
         /\ g.PendingCreditReports =
               [h.PendingCreditReports EXCEPT ![e] = h.PendingCreditReports[e] + 1]
         /\ g.rptOf = [h.rptOf EXCEPT ![Top(h)] = e]

(* Taking the buffer at the head of the pool changes what TakeEffect says. *)
LEMMA TakeFields ==
    ASSUME NEW h \in Contexts, h.pool # << >>, NEW e \in Endpoints \cup {NoEp},
           NEW g, g = Take(h, e)
    PROVE  TakeEffect(g, h, e)
<1> DEFINE m == MarkReport(h, e)
<1>1. h.pool \in Seq(CtrlBufs) /\ Len(h.pool) \in Nat \ {0}
  BY DEF Contexts
<1>2. Top(h) \in CtrlBufs /\ SubSeq(h.pool, 1, Len(h.pool) - 1) \in Seq(CtrlBufs)
  BY <1>1 DEF Top
<1>3. NoEp \notin Endpoints
  BY HtcAssumption DEF NoEp, Endpoints
<1>4. CASE e = NoEp
  <2>1. m = h
    BY <1>4 DEF MarkReport
  <2>2. g = [h EXCEPT !.pool = SubSeq(h.pool, 1, Len(h.pool) - 1),
                      !.wire = h.wire \cup {Top(h)}]
    BY <2>1 DEF Take
  <2>3. h.wire \cup {Top(h)} \in SUBSET CtrlBufs
    BY <1>2 DEF Contexts
  <2> HIDE DEF m
  <2>4. g \in Contexts
    BY <1>2, <2>2, <2>3 DEF Contexts
  <2> QED BY <1>2, <1>4, <2>2, <2>4 DEF Contexts, SameCore, TakeEffect
<1>5. CASE e \in Endpoints
  <2> DEFINE P == [h.PendingCreditReports EXCEPT ![e] = h.PendingCreditReports[e] + 1]
             R == [h.rptOf EXCEPT ![Top(h)] = e]
  <2>1. m = [h EXCEPT !.PendingCreditReports = P, !.rptOf = R]
    BY <1>3, <1>5 DEF MarkReport
  <2>2. m.pool = h.pool /\ m.wire = h.wire /\ Top(m) = Top(h)
    BY <2>1 DEF Contexts, Top
  <2>3. g = [h EXCEPT !.PendingCreditReports = P, !.rptOf = R,
                      !.pool = SubSeq(h.pool, 1, Len(h.pool) - 1),
                      !.wire = h.wire \cup {Top(h)}]
    BY <2>1, <2>2 DEF Take, Contexts
  <2>4. h.wire \cup {Top(h)} \in SUBSET CtrlBufs
    BY <1>2 DEF Contexts
  <2>5. P \in [Endpoints -> Int] /\ R \in [CtrlBufs -> Endpoints \cup {NoEp}]
    BY <1>2, <1>5 DEF Contexts
  <2> HIDE DEF m, P, R
  <2>6. g \in Contexts
    BY <1>2, <2>3, <2>4, <2>5, ZenonT(60) DEF Contexts
  <2>7. SameCore(g, h)
    BY <2>3 DEF Contexts, SameCore
  <2>8. g.CreditsToReturn = h.CreditsToReturn /\ g.Threshold = h.Threshold
           /\ g.CreditPending = h.CreditPending /\ g.UpdateSoon = h.UpdateSoon
           /\ g.air = h.air
    BY <2>3 DEF Contexts
  <2>9. /\ g.pool = SubSeq(h.pool, 1, Len(h.pool) - 1)
        /\ g.wire = h.wire \cup {Top(h)} /\ g.PendingCreditReports = P /\ g.rptOf = R
    BY <2>3 DEF Contexts
  <2> QED BY <1>2, <1>3, <1>5, <2>6, <2>7, <2>8, <2>9 DEF P, R, TakeEffect
<1> QED BY <1>4, <1>5

(* Taking a buffer keeps the invariant: the buffer was not with HIF, so    *)
(* the count of reports grows with the set it bounds.                      *)
LEMMA TakeInv ==
    ASSUME NEW h, ContextInv(h), h.pool # << >>, NEW e \in Endpoints \cup {NoEp},
           NEW g, g = Take(h, e)
    PROVE  ContextInv(g) /\ SameCore(g, h) /\ SameSums(g, h)
<1> DEFINE b == Top(h)
<1>1. h \in Contexts /\ h.pool \in Seq(CtrlBufs) /\ Len(h.pool) \in Nat \ {0}
  BY DEF ContextInv, Contexts
<1>2. /\ g \in Contexts /\ SameCore(g, h)
      /\ g.CreditsToReturn = h.CreditsToReturn /\ g.Threshold = h.Threshold
      /\ g.CreditPending = h.CreditPending /\ g.UpdateSoon = h.UpdateSoon
      /\ g.air = h.air
      /\ b \in CtrlBufs
      /\ g.pool = SubSeq(h.pool, 1, Len(h.pool) - 1)
      /\ g.wire = h.wire \cup {b}
      /\ e = NoEp => /\ g.PendingCreditReports = h.PendingCreditReports
                     /\ g.rptOf = h.rptOf
      /\ e # NoEp =>
           /\ g.PendingCreditReports =
                 [h.PendingCreditReports EXCEPT ![e] = h.PendingCreditReports[e] + 1]
           /\ g.rptOf = [h.rptOf EXCEPT ![b] = e]
  <2>1. TakeEffect(g, h, e)
    BY <1>1, TakeFields
  <2> QED BY <2>1 DEF TakeEffect
<1>3. /\ Len(g.pool) = Len(h.pool) - 1
      /\ \A i \in 1..Len(g.pool) : g.pool[i] = h.pool[i]
  BY <1>1, <1>2
<1>4. b = h.pool[Len(h.pool)]
  BY DEF Top
<1> HIDE DEF b
<1>5. b \notin h.wire
  BY <1>1, <1>4 DEF ContextInv, BufsOK
<1>6. BufsOK(g)
  <2>1. \A i, j \in 1..Len(g.pool) : g.pool[i] = g.pool[j] => i = j
    BY <1>1, <1>3 DEF ContextInv, BufsOK
  <2>2. \A i \in 1..Len(g.pool) : g.pool[i] \notin g.wire
    BY <1>1, <1>2, <1>3, <1>4 DEF ContextInv, BufsOK
  <2>3. ASSUME NEW c \in CtrlBufs, c \notin g.wire
        PROVE  \E i \in 1..Len(g.pool) : g.pool[i] = c
    <3>1. PICK i \in 1..Len(h.pool) : h.pool[i] = c
      BY <1>2, <2>3 DEF ContextInv, BufsOK
    <3>2. i # Len(h.pool)
      BY <1>2, <1>4, <2>3, <3>1
    <3> QED BY <1>1, <1>3, <3>1, <3>2
  <2> QED BY <2>1, <2>2, <2>3 DEF BufsOK
<1>7. IsFiniteSet(h.wire)
  <2>1. h.wire \subseteq CtrlBufs
    BY <1>1 DEF Contexts
  <2> QED BY <2>1, CtrlBufsFinite, FS_Subset
<1>8. ReportsOK(g)
  <2> SUFFICES ASSUME NEW i \in Endpoints
               PROVE  g.PendingCreditReports[i] <= Cardinality(InFlight(g, i))
    BY DEF ReportsOK
  <2>1. IsFiniteSet(InFlight(h, i)) /\ Cardinality(InFlight(h, i)) \in Nat
    <3>1. InFlight(h, i) \subseteq h.wire
      BY DEF InFlight
    <3> QED BY <1>7, <3>1, FS_Subset, FS_CardinalityType
  <2>2. h.PendingCreditReports[i] <= Cardinality(InFlight(h, i))
    BY DEF ContextInv, ReportsOK
  <2>3. h.PendingCreditReports \in [Endpoints -> Int] /\ h.rptOf \in [CtrlBufs -> Endpoints \cup {NoEp}]
        /\ h.wire \subseteq CtrlBufs
    BY <1>1 DEF Contexts
  <2>4. \A c \in h.wire : g.rptOf[c] = h.rptOf[c]
    BY <1>2, <1>5, <2>3
  <2>5. b \notin InFlight(h, i)
    BY <1>5 DEF InFlight
  <2>6. CASE g.rptOf[b] = i
    <3>1. InFlight(g, i) = InFlight(h, i) \cup {b}
      BY <1>2, <2>4, <2>6 DEF InFlight
    <3>2. Cardinality(InFlight(g, i)) = Cardinality(InFlight(h, i)) + 1
      BY <2>1, <2>5, <3>1, FS_AddElement
    <3>3. g.PendingCreditReports[i] <= h.PendingCreditReports[i] + 1
      BY <1>2, <2>3, SMTT(60)
    <3>4. g.PendingCreditReports[i] \in Int
      BY <1>2 DEF Contexts
    <3> QED BY <2>1, <2>2, <2>3, <3>2, <3>3, <3>4
  <2>7. CASE g.rptOf[b] # i
    <3>1. InFlight(g, i) = InFlight(h, i)
      BY <1>2, <2>4, <2>7 DEF InFlight
    <3>2. e = NoEp \/ e # i
      BY <1>2, <2>3, <2>7
    <3>3. g.PendingCreditReports[i] = h.PendingCreditReports[i]
      BY <1>2, <2>3, <3>2
    <3> QED BY <2>2, <3>1, <3>3
  <2> QED BY <2>6, <2>7
<1>9. CreditsOK(g) /\ SameSums(g, h)
  BY <1>2 DEF ContextInv, CreditsOK, SameCore, TargetSum, SameSums
<1>10. ThresholdOK(g) /\ SoonOK(g)
  BY <1>2 DEF ContextInv, ThresholdOK, SoonOK, SameCore
<1> QED BY <1>2, <1>6, <1>8, <1>9, <1>10 DEF ContextInv

(* Sending a control message leaves no credit pending at all.              *)
LEMMA SendCtrlInv ==
    ASSUME NEW h, ContextInv(h), h.pool # << >>, NEW e \in Endpoints \cup {NoEp},
           NEW g, g = SendMsg(Take(h, e), CtrlRoom)
    PROVE  ContextInv(g) /\ NoneStrandedBut(g, {}) /\ SameCore(g, h) /\ SameSums(g, h)
<1> DEFINE k == Take(h, e)
<1>1. ContextInv(k) /\ SameCore(k, h) /\ SameSums(k, h)
  BY TakeInv
<1> HIDE DEF k
<1>2. NoneStrandedBut(k, Endpoints)
  BY <1>1 DEF NoneStrandedBut, ContextInv, Contexts
<1>3. ContextInv(g) /\ SameCore(g, k) /\ SameSums(g, k)
  BY <1>1, <1>2, SendMsgInv DEF k
<1>4. g.CreditPending = {}
  <2>1. k \in Contexts
    BY <1>1 DEF ContextInv
  <2>2. g.CreditPending = k.CreditPending \ Reported(k, CtrlRoom)
    BY <2>1, SendMsgFields DEF k
  <2> QED BY <2>1, <2>2, CtrlRoomSuffices
<1> QED BY <1>1, <1>3, <1>4 DEF NoneStrandedBut, SameCore, SameSums

(* HTCCheckAndSendCreditReport settles the endpoints of its mask: they are *)
(* reported, not wanted, or promised to a completion that will come.       *)
LEMMA CheckAndSendInv ==
    ASSUME NEW h, ContextInv(h), NEW e \in Endpoints \cup {NoEp}, NEW mask,
           mask = IF e = NoEp THEN ANY ELSE {e},
           NoneStrandedBut(h, mask),
           NEW g, g = CheckAndSendCreditReport(h, mask, e)
    PROVE  ContextInv(g) /\ NoneStrandedBut(g, {}) /\ SameCore(g, h) /\ SameSums(g, h)
<1>1. h \in Contexts
  BY DEF ContextInv
<1>2. NoEp \notin Endpoints
  BY HtcAssumption DEF NoEp, Endpoints
<1>3. CASE ~ ReportWanted(h, mask, e)
  <2>1. g = h
    BY <1>3 DEF CheckAndSendCreditReport
  <2>2. ASSUME NEW i \in h.HostNeedsCredit \cap h.CreditPending,
               h.CreditsToReturn[i] >= h.Threshold[i], i \in mask
        PROVE  FALSE
    <3>1. h.CreditsToReturn[i] \in Int /\ h.Threshold[i] \in Int
      BY <1>1, <2>2 DEF Contexts
    <3>2. e # NoEp => i = e
      BY <2>2
    <3> QED BY <1>3, <2>2, <3>1, <3>2 DEF ReportWanted
  <2>3. NoneStrandedBut(h, {})
    BY <2>2 DEF NoneStrandedBut
  <2> QED BY <2>1, <2>3 DEF SameCore, SameSums
<1>4. CASE ReportWanted(h, mask, e) /\ ReportDeferred(h, e)
  <2>1. g = [h EXCEPT !.UpdateSoon = TRUE]
    BY <1>4 DEF CheckAndSendCreditReport
  <2>2. h.wire # {}
    <3>1. CASE h.pool = << >>
      <4>1. Len(h.pool) = 0 /\ 1 \in CtrlBufs
        BY <3>1, HtcAssumption DEF CtrlBufs
      <4> QED BY <4>1 DEF ContextInv, BufsOK
    <3>2. CASE e # NoEp /\ h.PendingCreditReports[e] >= MaxEpPendingCreditRpts
      <4>1. h.PendingCreditReports[e] <= Cardinality(InFlight(h, e))
            /\ h.PendingCreditReports[e] \in Int
        BY <1>1, <3>2 DEF ContextInv, ReportsOK, Contexts
      <4>2. ASSUME h.wire = {} PROVE FALSE
        <5>1. InFlight(h, e) = {}
          BY <4>2 DEF InFlight
        <5> QED BY <3>2, <4>1, <5>1, FS_EmptySet, HtcAssumption
      <4> QED BY <4>2
    <3> QED BY <1>4, <3>1, <3>2 DEF ReportDeferred
  <2>3. g \in Contexts /\ SameCore(g, h) /\ SameBufs(g, h) /\ g.UpdateSoon
        /\ g.CreditsToReturn = h.CreditsToReturn /\ g.Threshold = h.Threshold
        /\ g.CreditPending = h.CreditPending /\ g.air = h.air
    BY <1>1, <2>1 DEF Contexts, SameCore, SameBufs
  <2>4. BufsOK(g)
    <3>1. g.pool = h.pool /\ g.wire = h.wire
      BY <2>3 DEF SameBufs
    <3>2. BufsOK(h)
      BY DEF ContextInv
    <3> QED BY ONLY <3>1, <3>2 DEF BufsOK
  <2>7. SoonOK(g)
    BY <2>2, <2>3 DEF SoonOK, SameBufs
  <2>6. ReportsOK(g)
    BY <2>3 DEF ContextInv, ReportsOK, SameBufs, InFlight
  <2>5. CreditsOK(g) /\ SameSums(g, h) /\ ThresholdOK(g)
    BY <2>3, ZenonT(60) DEF ContextInv, CreditsOK, ThresholdOK, SameCore, TargetSum, SameSums
  <2> QED BY <2>3, <2>4, <2>5, <2>6, <2>7 DEF ContextInv, NoneStrandedBut
<1>5. CASE ReportWanted(h, mask, e) /\ ~ ReportDeferred(h, e)
  <2>1. h.pool # << >>
    BY <1>5 DEF ReportDeferred
  <2>2. g = SendMsg(Take(h, e), CtrlRoom)
    BY <1>5, SendCtrlIsTake DEF CheckAndSendCreditReport
  <2> QED BY <2>1, <2>2, SendCtrlInv
<1> QED BY <1>3, <1>4, <1>5

(* AdjustCreditThreshold sets a threshold that can be reached.             *)
LEMMA AdjustThresholdOK ==
    ASSUME NEW h \in Contexts, NEW S \in SUBSET Endpoints, CreditsOK(h), ThresholdOK(h),
           NEW g, g = AdjustCreditThreshold(h, S)
    PROVE  ThresholdOK(g)
<1>1. /\ SameCore(g, h) /\ g.CreditsToReturn = h.CreditsToReturn
      /\ \A e \in Endpoints :
                g.Threshold[e] =
                    IF e \in S /\ h.Level[e] # "none"
                    THEN Scale(h.Level[e], h.CreditsToReturn[e] + h.CreditsConsumed[e])
                    ELSE h.Threshold[e]
  BY AdjustFields
<1> SUFFICES ASSUME NEW e \in Endpoints
             PROVE  /\ g.Threshold[e] <= h.CreditsToReturn[e] + h.CreditsConsumed[e]
                    /\ h.Level[e] = "none" => g.Threshold[e] = 0
                    /\ e >= h.CurrentEp => h.Level[e] = "none"
  BY <1>1 DEF SameCore, ThresholdOK
<1>2. /\ h.Level[e] \in AllLevels /\ h.CreditsToReturn[e] \in Int
      /\ h.CreditsConsumed[e] \in Int
  BY DEF Contexts
<1>3. h.CreditsToReturn[e] + h.CreditsConsumed[e] >= 0
      /\ h.CreditsToReturn[e] + h.CreditsConsumed[e] \in Int
  BY <1>2 DEF CreditsOK
<1>4. Scale(h.Level[e], h.CreditsToReturn[e] + h.CreditsConsumed[e])
        <= h.CreditsToReturn[e] + h.CreditsConsumed[e]
  BY <1>2, <1>3, ScaleBound
<1> QED BY <1>1, <1>4 DEF ThresholdOK

(* n returned buffers turn consumed credits into pending ones.             *)
LEMMA AddCreditsInv ==
    ASSUME NEW h, ContextInv(h), h.SetupComplete, NEW e \in Endpoints,
           NoneStrandedBut(h, {e}), NEW n \in Nat, n <= h.CreditsConsumed[e],
           NEW g, g = AddCredits(h, e, n)
    PROVE  /\ ContextInv(g) /\ NoneStrandedBut(g, {e}) /\ SameSums(g, h)
           /\ g.CreditsConsumed = [h.CreditsConsumed EXCEPT ![e] = @ - n]
           /\ g.SetupComplete /\ g.fault = h.fault
<1>1. h \in Contexts
  BY DEF ContextInv
<1> DEFINE R == [h.CreditsToReturn EXCEPT ![e] = h.CreditsToReturn[e] + n]
           C == [h.CreditsConsumed EXCEPT ![e] = h.CreditsConsumed[e] - n]
           P == h.CreditPending \cup {e}
<1>2. g = [h EXCEPT !.CreditsToReturn = R, !.CreditsConsumed = C, !.CreditPending = P]
  BY DEF AddCredits
<1>3. R \in [Endpoints -> Int] /\ C \in [Endpoints -> Int] /\ P \in SUBSET Endpoints
  BY <1>1 DEF Contexts
<1>4. \A i \in Endpoints : /\ R[i] = IF i = e THEN h.CreditsToReturn[e] + n ELSE h.CreditsToReturn[i]
                           /\ C[i] = IF i = e THEN h.CreditsConsumed[e] - n ELSE h.CreditsConsumed[i]
  BY <1>1 DEF Contexts
<1> HIDE DEF R, C, P
<1>5. g \in Contexts
  BY <1>1, <1>2, <1>3 DEF Contexts
<1>6. /\ g.CreditsToReturn = R /\ g.CreditsConsumed = C /\ g.CreditPending = P
      /\ g.Threshold = h.Threshold /\ g.Level = h.Level /\ g.CurrentEp = h.CurrentEp
      /\ g.air = h.air /\ g.UpdateSoon = h.UpdateSoon /\ g.SetupComplete = h.SetupComplete
      /\ g.fault = h.fault /\ g.HostNeedsCredit = h.HostNeedsCredit
  BY <1>1, <1>2 DEF Contexts
<1>7. SameBufs(g, h)
  BY <1>1, <1>2 DEF Contexts, SameBufs
<1>8. \A i \in Endpoints : /\ h.air[i] \in Nat /\ h.CreditsToReturn[i] \in Int
                           /\ h.CreditsConsumed[i] \in Int
  BY <1>1 DEF Contexts
<1>9. ASSUME NEW i \in Endpoints
      PROVE  /\ R[i] >= 0 /\ C[i] >= 0
             /\ R[i] + C[i] = h.CreditsToReturn[i] + h.CreditsConsumed[i]
             /\ h.air[i] + R[i] + C[i] = h.air[i] + h.CreditsToReturn[i] + h.CreditsConsumed[i]
  <2>1. h.CreditsToReturn[i] >= 0 /\ h.CreditsConsumed[i] >= 0
    BY DEF ContextInv, CreditsOK
  <2>2. CASE i = e
    BY <1>4, <1>8, <2>1, <2>2
  <2>3. CASE i # e
    BY <1>4, <1>8, <2>1, <2>3
  <2> QED BY <2>2, <2>3
<1>10. SameSums(g, h)
  BY <1>6, <1>9 DEF SameSums, TargetSum
<1>11. CreditsOK(g)
  BY <1>6, <1>9, <1>10 DEF SameSums, CreditsOK, ContextInv
<1>12. ThresholdOK(g)
  BY <1>6, <1>9 DEF ThresholdOK, ContextInv
<1>13. BufsOK(g)
  <2>1. g.pool = h.pool /\ g.wire = h.wire /\ BufsOK(h)
    BY <1>7 DEF SameBufs, ContextInv
  <2> QED BY ONLY <2>1 DEF BufsOK
<1>14. ReportsOK(g) /\ SoonOK(g)
  BY <1>6, <1>7 DEF ContextInv, ReportsOK, SameBufs, InFlight, SoonOK
<1>15. NoneStrandedBut(g, {e})
  <2> SUFFICES ASSUME NEW i \in g.HostNeedsCredit \cap g.CreditPending, i # e,
                      g.CreditsToReturn[i] >= g.Threshold[i]
               PROVE  g.UpdateSoon
    BY DEF NoneStrandedBut
  <2>1. i \in h.HostNeedsCredit \cap h.CreditPending
    BY <1>6 DEF P
  <2>2. i \in Endpoints
    BY <1>1, <2>1 DEF Contexts
  <2>3. h.CreditsToReturn[i] >= h.Threshold[i]
    BY <1>4, <1>6, <2>2
  <2> QED BY <1>6, <2>1, <2>3 DEF NoneStrandedBut
<1> QED BY <1>5, <1>6, <1>10, <1>11, <1>12, <1>13, <1>14, <1>15 DEF ContextInv, C

(* A service that returns n buffers.                                       *)
ReturnEffect(g, h, e, n) ==
    /\ SameSums(g, h)
    /\ g.CreditsConsumed = [h.CreditsConsumed EXCEPT ![e] = @ - n]
    /\ g.SetupComplete /\ g.fault = h.fault

(* HTC_ReturnBuffers: the credits counted, then the check for a report.    *)
LEMMA ReturnBuffersInv ==
    ASSUME NEW h, ContextInv(h), h.SetupComplete, NEW e \in Endpoints,
           NoneStrandedBut(h, {e}), NEW n \in Nat, n <= h.CreditsConsumed[e],
           NEW g, g = CheckAndSendCreditReport(AddCredits(h, e, n), {e}, e)
    PROVE  ContextInv(g) /\ NoneStrandedBut(g, {}) /\ ReturnEffect(g, h, e, n)
<1> DEFINE k == AddCredits(h, e, n)
<1>1. /\ ContextInv(k) /\ NoneStrandedBut(k, {e}) /\ SameSums(k, h)
      /\ k.CreditsConsumed = [h.CreditsConsumed EXCEPT ![e] = @ - n]
      /\ k.SetupComplete /\ k.fault = h.fault
  BY AddCreditsInv
<1>2. NoEp \notin Endpoints
  BY HtcAssumption DEF NoEp, Endpoints
<1>3. g = CheckAndSendCreditReport(k, {e}, e)
  OBVIOUS
<1> HIDE DEF k
<1>4. ContextInv(g) /\ NoneStrandedBut(g, {}) /\ SameCore(g, k) /\ SameSums(g, k)
  BY <1>1, <1>2, <1>3, CheckAndSendInv
<1> QED BY <1>1, <1>4 DEF SameCore, SameSums, ReturnEffect

(* The header of a message: its credit is consumed once the set-up is      *)
(* complete.                                                               *)
HeaderEffect(g, h, e) ==
    /\ g.SetupComplete = h.SetupComplete /\ g.fault = h.fault
    /\ g.wire = h.wire /\ g.pool = h.pool /\ g.CurrentEp = h.CurrentEp
    /\ g.CreditsConsumed = IF h.SetupComplete
                           THEN [h.CreditsConsumed EXCEPT ![e] = @ + 1]
                           ELSE h.CreditsConsumed
    /\ \A i \in Endpoints :
          TargetSum(g, i) = TargetSum(h, i) + IF h.SetupComplete /\ i = e THEN 1 ELSE 0

(* The header of a message from the host: only its own endpoint may be left*)
(* with credits to promise.                                                *)
LEMMA RecvHeaderInv ==
    ASSUME NEW h, ContextInv(h), NoneStrandedBut(h, {}), NEW e \in Endpoints,
           NEW need \in BOOLEAN,
           h.SetupComplete => TargetSum(h, e) < 255,
           NEW g, g = RecvHeader(h, e, need)
    PROVE  ContextInv(g) /\ NoneStrandedBut(g, {e}) /\ HeaderEffect(g, h, e)
<1> DEFINE C == IF h.SetupComplete THEN [h.CreditsConsumed EXCEPT ![e] = h.CreditsConsumed[e] + 1]
                ELSE h.CreditsConsumed
           N == IF need THEN h.HostNeedsCredit \cup {e} ELSE h.HostNeedsCredit \ {e}
           T == IF need THEN h.Threshold ELSE [h.Threshold EXCEPT ![e] = 0]
           k == [h EXCEPT !.CreditsConsumed = C, !.HostNeedsCredit = N, !.Threshold = T]
<1>1. h \in Contexts
  BY DEF ContextInv
<1>2. g = IF need THEN AdjustCreditThreshold(k, {e}) ELSE k
  BY <1>1 DEF RecvHeader, Contexts
<1>3. C \in [Endpoints -> Int] /\ N \in SUBSET Endpoints /\ T \in [Endpoints -> Int]
  BY <1>1 DEF Contexts
<1>4. \A i \in Endpoints :
          C[i] = h.CreditsConsumed[i] + IF h.SetupComplete /\ i = e THEN 1 ELSE 0
  BY <1>1 DEF Contexts
<1>5. \A i \in Endpoints : T[i] = IF i = e /\ ~need THEN 0 ELSE h.Threshold[i]
  BY <1>1 DEF Contexts
<1>6. \A i \in N : i \in h.HostNeedsCredit \/ i = e
  OBVIOUS
<1>7. C = IF h.SetupComplete THEN [h.CreditsConsumed EXCEPT ![e] = @ + 1]
          ELSE h.CreditsConsumed
  OBVIOUS
<1> HIDE DEF C, N, T
<1>8. k \in Contexts
  BY <1>1, <1>3 DEF Contexts
<1>9. /\ k.CreditsConsumed = C /\ k.HostNeedsCredit = N /\ k.Threshold = T
      /\ k.CreditsToReturn = h.CreditsToReturn /\ k.Level = h.Level
      /\ k.CurrentEp = h.CurrentEp /\ k.CreditPending = h.CreditPending
      /\ k.air = h.air /\ k.UpdateSoon = h.UpdateSoon
      /\ k.SetupComplete = h.SetupComplete /\ k.fault = h.fault
  BY <1>1 DEF Contexts
<1>10. SameBufs(k, h)
  BY <1>1 DEF Contexts, SameBufs
<1> HIDE DEF k
<1>11. \A i \in Endpoints : /\ h.air[i] \in Nat /\ h.CreditsToReturn[i] \in Int
                            /\ h.CreditsConsumed[i] \in Int /\ h.Threshold[i] \in Int
  BY <1>1 DEF Contexts
<1>12. ASSUME NEW i \in Endpoints
       PROVE  TargetSum(k, i) = TargetSum(h, i) + IF h.SetupComplete /\ i = e THEN 1 ELSE 0
  BY <1>4, <1>9, <1>11, <1>12 DEF TargetSum
<1>13. CreditsOK(k)
  <2> SUFFICES ASSUME NEW i \in Endpoints
               PROVE  h.CreditsToReturn[i] >= 0 /\ C[i] >= 0 /\ TargetSum(k, i) <= 255
    BY <1>9 DEF CreditsOK
  <2>1. h.CreditsToReturn[i] >= 0 /\ h.CreditsConsumed[i] >= 0 /\ TargetSum(h, i) <= 255
        /\ TargetSum(h, i) \in Int
    BY <1>11 DEF ContextInv, CreditsOK, TargetSum
  <2> QED BY <1>4, <1>11, <1>12, <2>1
<1>14. ThresholdOK(k)
  <2> SUFFICES ASSUME NEW i \in Endpoints
               PROVE  /\ T[i] <= h.CreditsToReturn[i] + C[i]
                      /\ h.Level[i] = "none" => T[i] = 0
                      /\ i >= h.CurrentEp => h.Level[i] = "none"
    BY <1>9 DEF ThresholdOK
  <2>1. /\ h.Threshold[i] <= h.CreditsToReturn[i] + h.CreditsConsumed[i]
        /\ h.Level[i] = "none" => h.Threshold[i] = 0
        /\ i >= h.CurrentEp => h.Level[i] = "none"
        /\ h.CreditsToReturn[i] >= 0 /\ h.CreditsConsumed[i] >= 0
    BY DEF ContextInv, ThresholdOK, CreditsOK
  <2> QED BY <1>4, <1>5, <1>11, <2>1
<1>15. /\ g \in Contexts /\ SameCore(g, k) /\ SameBufs(g, k)
       /\ g.CreditsToReturn = k.CreditsToReturn /\ g.CreditPending = k.CreditPending
       /\ g.UpdateSoon = k.UpdateSoon /\ g.air = k.air
       /\ \A i \in Endpoints : i # e => g.Threshold[i] = k.Threshold[i]
       /\ ThresholdOK(g)
  <2>1. CASE need
    <3>1. g = AdjustCreditThreshold(k, {e}) /\ {e} \in SUBSET Endpoints
      BY <1>2, <2>1
    <3>2. \A i \in Endpoints : g.Threshold[i] =
                    IF i \in {e} /\ k.Level[i] # "none"
                    THEN Scale(k.Level[i], k.CreditsToReturn[i] + k.CreditsConsumed[i])
                    ELSE k.Threshold[i]
      BY <1>8, <3>1, AdjustFields
    <3>3. /\ g \in Contexts /\ SameCore(g, k) /\ SameBufs(g, k)
          /\ g.CreditsToReturn = k.CreditsToReturn /\ g.CreditPending = k.CreditPending
          /\ g.UpdateSoon = k.UpdateSoon /\ g.air = k.air
      BY <1>8, <3>1, AdjustFields
    <3>4. ThresholdOK(g)
      BY <1>8, <1>13, <1>14, <3>1, AdjustThresholdOK
    <3> QED BY <3>2, <3>3, <3>4
  <2>2. CASE ~need
    BY <1>2, <1>8, <1>14, <2>2 DEF SameCore, SameBufs
  <2> QED BY <2>1, <2>2
<1>16. CreditsOK(g) /\ \A i \in Endpoints : TargetSum(g, i) = TargetSum(k, i)
  BY <1>13, <1>15 DEF CreditsOK, TargetSum, SameCore
<1>17. g.pool = h.pool /\ g.wire = h.wire /\ g.rptOf = h.rptOf
       /\ g.PendingCreditReports = h.PendingCreditReports
  BY <1>10, <1>15 DEF SameBufs
<1>18. BufsOK(g)
  <2>1. BufsOK(h)
    BY DEF ContextInv
  <2> QED BY ONLY <1>17, <2>1 DEF BufsOK
<1>19. ReportsOK(g) /\ SoonOK(g)
  BY <1>9, <1>15, <1>17 DEF ContextInv, ReportsOK, InFlight, SoonOK
<1>20. NoneStrandedBut(g, {e})
  <2> SUFFICES ASSUME NEW i \in g.HostNeedsCredit \cap g.CreditPending, i # e,
                      g.CreditsToReturn[i] >= g.Threshold[i]
               PROVE  g.UpdateSoon
    BY DEF NoneStrandedBut
  <2>1. i \in h.HostNeedsCredit \cap h.CreditPending
    BY <1>6, <1>9, <1>15 DEF SameCore
  <2>2. i \in Endpoints
    BY <1>1, <2>1 DEF Contexts
  <2>3. h.CreditsToReturn[i] >= h.Threshold[i]
    BY <1>5, <1>9, <1>15, <2>2
  <2> QED BY <1>9, <1>15, <2>1, <2>3 DEF NoneStrandedBut
<1>21. ContextInv(g)
  BY <1>15, <1>16, <1>18, <1>19 DEF ContextInv
<1>22. g.SetupComplete = h.SetupComplete /\ g.fault = h.fault /\ g.CurrentEp = h.CurrentEp
       /\ g.CreditsConsumed = C
  BY <1>9, <1>15 DEF SameCore
<1> QED BY <1>7, <1>12, <1>16, <1>17, <1>20, <1>21, <1>22 DEF HeaderEffect

(* Fewer exceptions are a stronger statement.                              *)
LEMMA StrandedWeaken ==
    ASSUME NEW h, NEW S, NoneStrandedBut(h, {})
    PROVE  NoneStrandedBut(h, S)
BY DEF NoneStrandedBut

(* A completed control buffer goes back to the pool, and the report it was *)
(* counted for is no longer pending.                                       *)
LEMMA FreeCtrlBufInv ==
    ASSUME NEW h, ContextInv(h), NEW b \in h.wire,
           NEW f, f = FreeCtrlBuf(h, b)
    PROVE  /\ f \in Contexts /\ SameCore(f, h)
           /\ BufsOK(f) /\ ReportsOK(f) /\ CreditsOK(f) /\ ThresholdOK(f)
           /\ f.CreditsToReturn = h.CreditsToReturn /\ f.Threshold = h.Threshold
           /\ f.CreditPending = h.CreditPending /\ f.UpdateSoon = h.UpdateSoon
           /\ SameSums(f, h)
<1> DEFINE e == h.rptOf[b]
           P == IF e = NoEp THEN h.PendingCreditReports
                ELSE [h.PendingCreditReports EXCEPT ![e] = h.PendingCreditReports[e] - 1]
<1>1. /\ h \in Contexts /\ h.pool \in Seq(CtrlBufs) /\ b \in CtrlBufs
      /\ h.rptOf \in [CtrlBufs -> Endpoints \cup {NoEp}]
      /\ h.PendingCreditReports \in [Endpoints -> Int] /\ h.wire \in SUBSET CtrlBufs
  BY DEF ContextInv, Contexts
<1>2. f = [h EXCEPT !.PendingCreditReports = P, !.wire = h.wire \ {b},
                    !.pool = Append(h.pool, b)]
  <2>1. CASE e = NoEp
    BY <1>1, <2>1 DEF FreeCtrlBuf, Contexts
  <2>2. CASE e # NoEp
    BY <1>1, <2>2 DEF FreeCtrlBuf, Contexts
  <2> QED BY <2>1, <2>2
<1>3. P \in [Endpoints -> Int] /\ h.wire \ {b} \in SUBSET CtrlBufs
      /\ Append(h.pool, b) \in Seq(CtrlBufs)
  BY <1>1
<1>4. \A i \in Endpoints : P[i] = h.PendingCreditReports[i] - IF i = e THEN 1 ELSE 0
  BY <1>1, HtcAssumption DEF NoEp, Endpoints
<1> HIDE DEF P
<1>5. f \in Contexts
  BY <1>1, <1>2, <1>3, ZenonT(60) DEF Contexts
<1>6. /\ f.PendingCreditReports = P /\ f.wire = h.wire \ {b} /\ f.pool = Append(h.pool, b)
      /\ f.rptOf = h.rptOf
      /\ f.CreditsToReturn = h.CreditsToReturn /\ f.Threshold = h.Threshold
      /\ f.CreditPending = h.CreditPending /\ f.UpdateSoon = h.UpdateSoon /\ f.air = h.air
  BY <1>1, <1>2 DEF Contexts
<1>7. SameCore(f, h)
  BY <1>1, <1>2 DEF Contexts, SameCore
<1>8. /\ Len(f.pool) = Len(h.pool) + 1 /\ Len(h.pool) \in Nat
      /\ f.pool[Len(h.pool) + 1] = b
      /\ \A i \in 1..Len(h.pool) : f.pool[i] = h.pool[i]
  BY <1>1, <1>6
<1>9. BufsOK(f)
  <2>1. BufsOK(h)
    BY DEF ContextInv
  <2>2. \A i \in 1..Len(h.pool) : h.pool[i] # b
    BY <2>1 DEF BufsOK
  <2>3. \A i, j \in 1..Len(f.pool) : f.pool[i] = f.pool[j] => i = j
    BY <1>8, <2>1, <2>2, SMTT(60) DEF BufsOK
  <2>4. \A i \in 1..Len(f.pool) : f.pool[i] \notin f.wire
    BY <1>6, <1>8, <2>1 DEF BufsOK
  <2>5. ASSUME NEW c \in CtrlBufs, c \notin f.wire
        PROVE  \E i \in 1..Len(f.pool) : f.pool[i] = c
    <3>1. CASE c = b
      BY <1>8, <3>1
    <3>2. CASE c # b
      <4>1. PICK i \in 1..Len(h.pool) : h.pool[i] = c
        BY <1>6, <2>1, <2>5, <3>2 DEF BufsOK
      <4> QED BY <1>8, <4>1
    <3> QED BY <3>1, <3>2
  <2> QED BY <2>3, <2>4, <2>5 DEF BufsOK
<1>10. IsFiniteSet(h.wire)
  BY <1>1, CtrlBufsFinite, FS_Subset
<1>11. ReportsOK(f)
  <2> SUFFICES ASSUME NEW i \in Endpoints
               PROVE  P[i] <= Cardinality(InFlight(f, i))
    BY <1>6 DEF ReportsOK
  <2>1. IsFiniteSet(InFlight(h, i)) /\ Cardinality(InFlight(h, i)) \in Nat
    <3>1. InFlight(h, i) \subseteq h.wire
      BY DEF InFlight
    <3> QED BY <1>10, <3>1, FS_Subset, FS_CardinalityType
  <2>2. h.PendingCreditReports[i] <= Cardinality(InFlight(h, i))
        /\ h.PendingCreditReports[i] \in Int
    BY <1>1 DEF ContextInv, ReportsOK
  <2>3. CASE i = e
    <3>1. b \in InFlight(h, i) /\ InFlight(f, i) = InFlight(h, i) \ {b}
      BY <1>6, <2>3 DEF InFlight
    <3>2. Cardinality(InFlight(f, i)) = Cardinality(InFlight(h, i)) - 1
      BY <2>1, <3>1, FS_RemoveElement
    <3> QED BY <1>4, <2>1, <2>2, <2>3, <3>2
  <2>4. CASE i # e
    <3>1. InFlight(f, i) = InFlight(h, i)
      BY <1>6, <2>4 DEF InFlight
    <3> QED BY <1>4, <2>2, <2>4, <3>1
  <2> QED BY <2>3, <2>4
<1>12. CreditsOK(f) /\ SameSums(f, h) /\ ThresholdOK(f)
  BY <1>6, <1>7 DEF ContextInv, CreditsOK, ThresholdOK, SameCore, TargetSum, SameSums
<1> QED BY <1>5, <1>6, <1>7, <1>9, <1>11, <1>12

(* HTCControlSvcProcessSendComplete keeps the promise of UpdateSoon.       *)
LEMMA SendCompleteInv ==
    ASSUME NEW h, ContextInv(h), NoneStrandedBut(h, {}), NEW b \in h.wire,
           NEW g, g = SendComplete(h, b)
    PROVE  ContextInv(g) /\ NoneStrandedBut(g, {}) /\ SameCore(g, h) /\ SameSums(g, h)
<1> DEFINE f == FreeCtrlBuf(h, b)
           k == [f EXCEPT !.UpdateSoon = FALSE]
<1>1. /\ f \in Contexts /\ SameCore(f, h)
      /\ BufsOK(f) /\ ReportsOK(f) /\ CreditsOK(f) /\ ThresholdOK(f)
      /\ f.CreditsToReturn = h.CreditsToReturn /\ f.Threshold = h.Threshold
      /\ f.CreditPending = h.CreditPending /\ f.UpdateSoon = h.UpdateSoon
      /\ SameSums(f, h)
  BY FreeCtrlBufInv
<1>2. g = IF ~ f.UpdateSoon THEN f ELSE CheckAndSendCreditReport(k, ANY, NoEp)
  BY DEF SendComplete
<1> HIDE DEF f
<1>3. CASE ~ f.UpdateSoon
  <2>1. ContextInv(f)
    BY <1>1, <1>3 DEF ContextInv, SoonOK
  <2>2. NoneStrandedBut(f, {})
    BY <1>1, <1>3 DEF NoneStrandedBut, SameCore
  <2> QED BY <1>1, <1>2, <1>3, <2>1, <2>2
<1>4. CASE f.UpdateSoon
  <2>1. /\ k \in Contexts /\ SameCore(k, f) /\ SameBufs(k, f) /\ ~ k.UpdateSoon
        /\ k.CreditsToReturn = f.CreditsToReturn /\ k.Threshold = f.Threshold
        /\ k.air = f.air
    BY <1>1 DEF Contexts, SameCore, SameBufs
  <2>2. g = CheckAndSendCreditReport(k, ANY, NoEp)
    BY <1>2, <1>4
  <2> HIDE DEF k
  <2>3. BufsOK(k)
    <3>1. k.pool = f.pool /\ k.wire = f.wire /\ BufsOK(f)
      BY <1>1, <2>1 DEF SameBufs
    <3> QED BY ONLY <3>1 DEF BufsOK
  <2>4. ReportsOK(k) /\ SoonOK(k)
    BY <1>1, <2>1 DEF ReportsOK, InFlight, SameBufs, SoonOK
  <2>5. CreditsOK(k) /\ ThresholdOK(k) /\ SameSums(k, f)
    BY <1>1, <2>1 DEF CreditsOK, ThresholdOK, SameCore, TargetSum, SameSums
  <2>6. ContextInv(k)
    BY <2>1, <2>3, <2>4, <2>5 DEF ContextInv
  <2>7. NoneStrandedBut(k, ANY)
    BY <2>1 DEF NoneStrandedBut, Contexts, ANY
  <2>8. ContextInv(g) /\ NoneStrandedBut(g, {}) /\ SameCore(g, k) /\ SameSums(g, k)
    BY <2>2, <2>6, <2>7, CheckAndSendInv
  <2> QED BY <1>1, <2>1, <2>5, <2>8 DEF SameCore, SameSums
<1> QED BY <1>3, <1>4

(* Connecting a service gives an unused endpoint its flags.                *)
LEMMA ConnectEndpointInv ==
    ASSUME NEW h, ContextInv(h), NEW level \in AllLevels,
           NEW g, g = ConnectEndpoint(h, level)
    PROVE  /\ ContextInv(g) /\ SameSums(g, h)
           /\ g.CreditsConsumed = h.CreditsConsumed /\ g.SetupComplete = h.SetupComplete
           /\ g.fault = h.fault /\ g.pool = h.pool
<1>1. h \in Contexts /\ h.CurrentEp \in 0..(MaxEp + 1) /\ MaxEp \in Nat
  BY HtcAssumption DEF ContextInv, Contexts
<1>2. CASE h.CurrentEp > MaxEp
  <2>1. g = h
    BY <1>2 DEF ConnectEndpoint
  <2> QED BY <2>1 DEF SameSums
<1>3. CASE ~ (h.CurrentEp > MaxEp)
  <2> DEFINE F == [h.Level EXCEPT ![h.CurrentEp] = level]
  <2>1. h.CurrentEp \in Endpoints /\ h.CurrentEp + 1 \in 0..(MaxEp + 1)
    BY <1>1, <1>3 DEF Endpoints
  <2>2. g = [h EXCEPT !.Level = F, !.CurrentEp = h.CurrentEp + 1]
    BY <1>3 DEF ConnectEndpoint
  <2>3. F \in [Endpoints -> AllLevels]
        /\ \A i \in Endpoints : F[i] = IF i = h.CurrentEp THEN level ELSE h.Level[i]
    BY <1>1, <2>1 DEF Contexts
  <2> HIDE DEF F
  <2>4. g \in Contexts
    BY <1>1, <2>1, <2>2, <2>3, ZenonT(60) DEF Contexts
  <2>5. /\ g.Level = F /\ g.CurrentEp = h.CurrentEp + 1 /\ SameBufs(g, h)
        /\ g.CreditsToReturn = h.CreditsToReturn /\ g.Threshold = h.Threshold
        /\ g.CreditsConsumed = h.CreditsConsumed /\ g.air = h.air
        /\ g.UpdateSoon = h.UpdateSoon /\ g.SetupComplete = h.SetupComplete
        /\ g.fault = h.fault
    BY <1>1, <2>2 DEF Contexts, SameBufs
  <2>6. CreditsOK(g) /\ SameSums(g, h)
    BY <2>5 DEF CreditsOK, ContextInv, SameSums, TargetSum
  <2>7. ThresholdOK(g)
    <3> SUFFICES ASSUME NEW i \in Endpoints
                 PROVE  /\ h.Threshold[i] <= h.CreditsToReturn[i] + h.CreditsConsumed[i]
                        /\ F[i] = "none" => h.Threshold[i] = 0
                        /\ i >= h.CurrentEp + 1 => F[i] = "none"
      BY <2>5 DEF ThresholdOK
    <3>1. /\ h.Threshold[i] <= h.CreditsToReturn[i] + h.CreditsConsumed[i]
          /\ h.Level[i] = "none" => h.Threshold[i] = 0
          /\ i >= h.CurrentEp => h.Level[i] = "none"
      BY DEF ContextInv, ThresholdOK
    <3>2. i \in Int /\ h.CurrentEp \in Int
      BY <1>1 DEF Endpoints
    <3> QED BY <2>3, <3>1, <3>2
  <2>8. BufsOK(g)
    <3>1. g.pool = h.pool /\ g.wire = h.wire /\ BufsOK(h)
      BY <2>5 DEF SameBufs, ContextInv
    <3> QED BY ONLY <3>1 DEF BufsOK
  <2>9. ReportsOK(g) /\ SoonOK(g)
    BY <2>5 DEF ContextInv, ReportsOK, InFlight, SameBufs, SoonOK
  <2> QED BY <2>4, <2>5, <2>6, <2>7, <2>8, <2>9 DEF ContextInv, SameBufs
<1> QED BY <1>2, <1>3

(* Contexts that differ in Total, Assigned, SetupComplete or fault only.   *)
SameView(g, h) ==
    /\ SameBufs(g, h)
    /\ g.CreditsToReturn = h.CreditsToReturn /\ g.CreditsConsumed = h.CreditsConsumed
    /\ g.Threshold = h.Threshold /\ g.Level = h.Level /\ g.CurrentEp = h.CurrentEp
    /\ g.air = h.air /\ g.UpdateSoon = h.UpdateSoon
    /\ g.HostNeedsCredit = h.HostNeedsCredit /\ g.CreditPending = h.CreditPending

(* What no part of the invariant looks at may change.                      *)
LEMMA SameViewInv ==
    ASSUME NEW h, ContextInv(h), NEW S, NoneStrandedBut(h, S),
           NEW g \in Contexts, SameView(g, h)
    PROVE  ContextInv(g) /\ NoneStrandedBut(g, S) /\ SameSums(g, h)
<1>1. BufsOK(g)
  <2>1. g.pool = h.pool /\ g.wire = h.wire /\ BufsOK(h)
    BY DEF SameView, SameBufs, ContextInv
  <2> QED BY ONLY <2>1 DEF BufsOK
<1>2. ReportsOK(g) /\ SoonOK(g)
  BY DEF SameView, SameBufs, ContextInv, ReportsOK, InFlight, SoonOK
<1>3. CreditsOK(g) /\ ThresholdOK(g) /\ SameSums(g, h)
  BY DEF SameView, ContextInv, CreditsOK, ThresholdOK, SameSums, TargetSum
<1>4. NoneStrandedBut(g, S)
  BY DEF SameView, NoneStrandedBut
<1> QED BY <1>1, <1>2, <1>3, <1>4 DEF ContextInv

(* When no control buffer is with HIF, the pool has one.                   *)
LEMMA PoolNotEmpty ==
    ASSUME NEW h, ContextInv(h), h.wire = {}
    PROVE  h.pool # << >>
<1>1. 1 \in CtrlBufs
  BY HtcAssumption DEF CtrlBufs
<1>2. PICK i \in 1..Len(h.pool) : h.pool[i] = 1
  BY <1>1 DEF ContextInv, BufsOK
<1> QED BY <1>2

(* A response of the set-up dialogue, and the end of the receive handler.  *)
LEMMA SetupReplyInv ==
    ASSUME NEW h, ContextInv(h), h.pool # << >>, ~ h.SetupComplete,
           NEW g, g = RecvDone(RecycleCtrlMsg(SendResponse(h)), 0)
    PROVE  ContextInv(g) /\ NoneStrandedBut(g, {}) /\ SameCore(g, h) /\ SameSums(g, h)
<1> DEFINE k == SendMsg(Take(h, NoEp), CtrlRoom)
<1>1. SendResponse(h) = k
  BY SendCtrlIsTake DEF SendResponse
<1>2. ContextInv(k) /\ NoneStrandedBut(k, {}) /\ SameCore(k, h) /\ SameSums(k, h)
  BY SendCtrlInv
<1> HIDE DEF k
<1>3. RecycleCtrlMsg(k) = k
  BY <1>2 DEF RecycleCtrlMsg, SameCore
<1>4. g = CheckAndSendCreditReport(k, {0}, 0)
  BY <1>1, <1>3 DEF RecvDone
<1>5. 0 \in Endpoints /\ 0 # NoEp
  BY HtcAssumption DEF Endpoints, NoEp
<1>6. NoneStrandedBut(k, {0})
  BY <1>2, StrandedWeaken
<1>7. ContextInv(g) /\ NoneStrandedBut(g, {}) /\ SameCore(g, k) /\ SameSums(g, k)
  BY <1>2, <1>4, <1>5, <1>6, CheckAndSendInv
<1> QED BY <1>2, <1>7 DEF SameCore, SameSums

----------------------------------------------------------------------------
(* The inductive invariant of the specification.                           *)
HtcInv ==
    /\ TypeOK
    /\ ContextInv(htc)
    /\ NoneStrandedBut(htc, {})
    /\ ConsumedIsHeld
    /\ CreditConservation
    /\ ResponseHasBuffer
    /\ htc.SetupComplete = (phase = "run")
    /\ phase = "boot" => htc.wire = {}
    /\ phase # "run" => \A e \in Endpoints : held[e] = 0

(* The context as it is after the boot.                                    *)
LEMMA InitInv == Init => HtcInv
<1> SUFFICES ASSUME Init PROVE HtcInv
  OBVIOUS
<1>1. MaxEp \in Nat /\ NumCtrlBufs \in Nat \ {0} /\ TotalCredits \in Nat
      /\ HostAlloc \in [Endpoints -> 0..255]
  BY HtcAssumption
<1> DEFINE p == [i \in 1..NumCtrlBufs |-> i]
<1>2. p \in Seq(CtrlBufs) /\ Len(p) = NumCtrlBufs /\ \A i \in 1..NumCtrlBufs : p[i] = i
  BY <1>1 DEF CtrlBufs
<1>3. htc.pool = p
  BY DEF Init, ContextInit
<1> HIDE DEF p
<1>4. /\ htc.CreditsToReturn = [e \in Endpoints |-> 0]
      /\ htc.CreditsConsumed = [e \in Endpoints |-> 0]
      /\ htc.Threshold = [e \in Endpoints |-> 0]
      /\ htc.Level = [e \in Endpoints |-> "none"]
      /\ htc.PendingCreditReports = [e \in Endpoints |-> 0]
      /\ htc.HostNeedsCredit = {} /\ htc.CreditPending = {}
      /\ htc.CurrentEp = 1 /\ htc.Total = TotalCredits /\ htc.Assigned = 0
      /\ htc.SetupComplete = FALSE /\ htc.UpdateSoon = FALSE
      /\ htc.rptOf = [b \in CtrlBufs |-> NoEp] /\ htc.wire = {}
      /\ htc.air = [e \in Endpoints |-> 0] /\ htc.fault = FALSE
  BY DEF Init, ContextInit
<1>5. htc \in Contexts
  <2>1. ContextInit \in
          [CreditsToReturn: {htc.CreditsToReturn}, CreditsConsumed: {htc.CreditsConsumed},
           Threshold: {htc.Threshold}, Level: {htc.Level},
           PendingCreditReports: {htc.PendingCreditReports},
           HostNeedsCredit: {htc.HostNeedsCredit}, CreditPending: {htc.CreditPending},
           CurrentEp: {htc.CurrentEp}, Total: {htc.Total}, Assigned: {htc.Assigned},
           SetupComplete: {htc.SetupComplete}, UpdateSoon: {htc.UpdateSoon},
           pool: {htc.pool}, rptOf: {htc.rptOf}, wire: {htc.wire}, air: {htc.air},
           fault: {htc.fault}]
    BY DEF Init, ContextInit
  <2>2. htc.CreditsToReturn \in [Endpoints -> Int] /\ htc.CreditsConsumed \in [Endpoints -> Int]
        /\ htc.Threshold \in [Endpoints -> Int] /\ htc.Level \in [Endpoints -> AllLevels]
        /\ htc.PendingCreditReports \in [Endpoints -> Int] /\ htc.air \in [Endpoints -> Nat]
        /\ htc.rptOf \in [CtrlBufs -> Endpoints \cup {NoEp}]
    BY <1>4 DEF AllLevels
  <2>5. htc.CurrentEp \in 0..(MaxEp + 1) /\ htc.Total \in Nat /\ htc.Assigned \in Nat
    BY <1>1, <1>4
  <2>3. /\ htc.SetupComplete \in BOOLEAN /\ htc.UpdateSoon \in BOOLEAN
        /\ htc.fault \in BOOLEAN /\ htc.wire \in SUBSET CtrlBufs
        /\ htc.HostNeedsCredit \in SUBSET Endpoints /\ htc.CreditPending \in SUBSET Endpoints
        /\ htc.pool \in Seq(CtrlBufs)
    BY <1>2, <1>3, <1>4
  <2>4. htc = ContextInit
    BY DEF Init
  <2> QED BY <2>1, <2>2, <2>3, <2>4, <2>5 DEF Contexts
<1>6. TypeOK
  BY <1>1, <1>5 DEF Init, TypeOK
<1>7. BufsOK(htc)
  <2>1. CtrlBufs = 1..NumCtrlBufs
    BY DEF CtrlBufs
  <2> QED BY ONLY <1>2, <1>3, <1>4, <2>1 DEF BufsOK
<1>8. ReportsOK(htc)
  <2>1. \A e \in Endpoints : InFlight(htc, e) = {} /\ htc.PendingCreditReports[e] = 0
    BY <1>4 DEF InFlight
  <2> QED BY <2>1, FS_EmptySet DEF ReportsOK
<1>9. CreditsOK(htc) /\ ThresholdOK(htc) /\ SoonOK(htc)
  BY <1>4 DEF CreditsOK, ThresholdOK, SoonOK, TargetSum
<1>10. ConsumedIsHeld /\ CreditConservation
  <2>1. \A e \in Endpoints : HostAlloc[e] \in Int
    BY <1>1
  <2> QED BY <1>4, <2>1 DEF ConsumedIsHeld, CreditConservation, Init
<1>11. NoneStrandedBut(htc, {}) /\ ResponseHasBuffer
  BY <1>4 DEF NoneStrandedBut, ResponseHasBuffer
<1> QED BY <1>4, <1>5, <1>6, <1>7, <1>8, <1>9, <1>10, <1>11 DEF HtcInv, ContextInv, Init

(* The set-up dialogue does not touch the credits.                         *)
LEMMA SetupClose ==
    ASSUME HtcInv, ContextInv(htc'), NoneStrandedBut(htc', {}), SameSums(htc', htc),
           htc'.CreditsConsumed = htc.CreditsConsumed, htc'.fault = htc.fault,
           UNCHANGED <<host, held, lost>>, phase # "run",
           phase' \in {"setup", "run"}, htc'.SetupComplete = (phase' = "run")
    PROVE  HtcInv'
<1>1. htc' \in Contexts
  BY DEF ContextInv
<1>2. TypeOK'
  BY <1>1 DEF HtcInv, TypeOK
<1>3. ConsumedIsHeld' /\ (\A e \in Endpoints : held[e] = 0)'
  BY DEF HtcInv, ConsumedIsHeld
<1>4. CreditConservation'
  <2> SUFFICES ASSUME NEW e \in Endpoints
               PROVE  host'[e] + htc'.air[e] + htc'.CreditsToReturn[e]
                        + htc'.CreditsConsumed[e] + lost'[e] = HostAlloc[e]
    BY DEF CreditConservation
  <2>1. TargetSum(htc', e) = TargetSum(htc, e)
    BY DEF SameSums
  <2>2. /\ host[e] + htc.air[e] + htc.CreditsToReturn[e] + htc.CreditsConsumed[e]
                + lost[e] = HostAlloc[e]
    BY DEF HtcInv, CreditConservation
  <2>3. /\ host[e] \in Nat /\ lost[e] \in Nat /\ htc.air[e] \in Nat
        /\ htc.CreditsToReturn[e] \in Int /\ htc.CreditsConsumed[e] \in Int
        /\ htc'.air[e] \in Nat /\ htc'.CreditsToReturn[e] \in Int
        /\ htc'.CreditsConsumed[e] \in Int
    BY <1>1 DEF HtcInv, TypeOK, Contexts
  <2> QED BY <2>1, <2>2, <2>3 DEF TargetSum
<1>5. ResponseHasBuffer'
  BY DEF HtcInv, ResponseHasBuffer
<1> QED BY <1>2, <1>3, <1>4, <1>5 DEF HtcInv

(* The set-up dialogue keeps the invariant.                                *)
LEMMA SetupStep == HtcInv /\ SetupNext => HtcInv'
<1> SUFFICES ASSUME HtcInv, SetupNext PROVE HtcInv'
  OBVIOUS
<1>1. /\ ContextInv(htc) /\ NoneStrandedBut(htc, {}) /\ htc \in Contexts
      /\ (phase = "boot" => htc.wire = {})
  BY DEF HtcInv, ContextInv
<1>2. 0 \in Endpoints /\ 0 # NoEp
  BY HtcAssumption DEF Endpoints, NoEp
<1>3. ASSUME NEW need \in BOOLEAN, NEW h, h = RecvHeader(htc, 0, need), phase = "setup",
             htc.wire = {}
      PROVE  /\ ContextInv(h) /\ NoneStrandedBut(h, {0}) /\ ~ h.SetupComplete
             /\ h.fault = htc.fault /\ h.pool # << >> /\ SameSums(h, htc)
             /\ h.CreditsConsumed = htc.CreditsConsumed
  <2>1. ~ htc.SetupComplete
    BY <1>3 DEF HtcInv
  <2>2. ContextInv(h) /\ NoneStrandedBut(h, {0}) /\ HeaderEffect(h, htc, 0)
    BY <1>1, <1>2, <1>3, <2>1, RecvHeaderInv
  <2>3. htc.pool # << >>
    BY <1>1, <1>3, PoolNotEmpty
  <2>4. \A i \in Endpoints : TargetSum(htc, i) \in Int
    BY <1>1 DEF Contexts, TargetSum
  <2> QED BY <2>1, <2>2, <2>3, <2>4 DEF SameSums, HeaderEffect
<1>4. CASE Ready
  <2>1. htc.pool # << >> /\ phase = "boot"
    BY <1>1, <1>4, PoolNotEmpty DEF Ready
  <2>2. htc' = SendMsg(Take(htc, NoEp), CtrlRoom)
    BY <1>4, <2>1, SendCtrlIsTake DEF Ready, SendResponse
  <2>3. ContextInv(htc') /\ NoneStrandedBut(htc', {}) /\ SameCore(htc', htc)
        /\ SameSums(htc', htc)
    BY <1>1, <2>1, <2>2, SendCtrlInv
  <2>4. /\ ~ htc.SetupComplete /\ phase' = "setup" /\ UNCHANGED <<host, held, lost>>
    BY <1>4, <2>1 DEF HtcInv, Ready
  <2>5. htc'.SetupComplete = FALSE
    BY <2>3, <2>4 DEF SameCore, ContextInv, Contexts
  <2> QED BY <2>1, <2>3, <2>4, <2>5, SetupClose DEF SameCore
<1>5. ASSUME NEW need \in BOOLEAN, NEW level \in Levels, ConnectService(level, need)
      PROVE  HtcInv'
  <2> DEFINE h == RecvHeader(htc, 0, need)
             k == ConnectEndpoint(h, level)
  <2>1. /\ phase = "setup" /\ htc.wire = {} /\ phase' = phase
        /\ UNCHANGED <<host, held, lost>>
        /\ htc' = RecvDone(RecycleCtrlMsg(SendResponse(k)), 0)
    BY <1>5 DEF ConnectService, HostMayAsk
  <2>2. /\ ContextInv(h) /\ ~ h.SetupComplete /\ h.fault = htc.fault
        /\ h.pool # << >> /\ SameSums(h, htc) /\ h.CreditsConsumed = htc.CreditsConsumed
    BY <1>3, <2>1
  <2> HIDE DEF h
  <2>3. level \in AllLevels
    BY HtcAssumption
  <2>4. /\ ContextInv(k) /\ SameSums(k, h)
        /\ k.CreditsConsumed = h.CreditsConsumed /\ k.SetupComplete = h.SetupComplete
        /\ k.fault = h.fault /\ k.pool = h.pool
    BY <2>2, <2>3, ConnectEndpointInv
  <2> HIDE DEF k
  <2>5. ContextInv(htc') /\ NoneStrandedBut(htc', {}) /\ SameCore(htc', k)
        /\ SameSums(htc', k)
    BY <2>1, <2>2, <2>4, SetupReplyInv
  <2>6. /\ SameSums(htc', htc) /\ htc'.CreditsConsumed = htc.CreditsConsumed
        /\ htc'.fault = htc.fault /\ htc'.SetupComplete = FALSE
    BY <2>2, <2>4, <2>5 DEF SameSums, SameCore, ContextInv, Contexts
  <2> QED BY <2>1, <2>5, <2>6, SetupClose
<1>6. ASSUME NEW need \in BOOLEAN, ConnectRefused(need)
      PROVE  HtcInv'
  <2> DEFINE h == RecvHeader(htc, 0, need)
  <2>1. /\ phase = "setup" /\ htc.wire = {} /\ phase' = phase
        /\ UNCHANGED <<host, held, lost>>
        /\ htc' = RecvDone(RecycleCtrlMsg(SendResponse(h)), 0)
    BY <1>6 DEF ConnectRefused, HostMayAsk
  <2>2. /\ ContextInv(h) /\ ~ h.SetupComplete /\ h.fault = htc.fault
        /\ h.pool # << >> /\ SameSums(h, htc) /\ h.CreditsConsumed = htc.CreditsConsumed
    BY <1>3, <2>1
  <2> HIDE DEF h
  <2>5. ContextInv(htc') /\ NoneStrandedBut(htc', {}) /\ SameCore(htc', h)
        /\ SameSums(htc', h)
    BY <2>1, <2>2, SetupReplyInv
  <2>6. /\ SameSums(htc', htc) /\ htc'.CreditsConsumed = htc.CreditsConsumed
        /\ htc'.fault = htc.fault /\ htc'.SetupComplete = FALSE
    BY <2>2, <2>5 DEF SameSums, SameCore, ContextInv, Contexts
  <2> QED BY <2>1, <2>5, <2>6, SetupClose
<1>7. ASSUME NEW need \in BOOLEAN, NEW supported \in BOOLEAN, NEW count \in 1..TotalCredits,
             ConfigPipe(supported, count, need)
      PROVE  HtcInv'
  <2> DEFINE h == RecvHeader(htc, 0, need)
             k == AssignCredits(h, supported, count)
  <2>1. /\ phase = "setup" /\ htc.wire = {} /\ phase' = phase
        /\ UNCHANGED <<host, held, lost>>
        /\ htc' = RecvDone(RecycleCtrlMsg(SendResponse(k)), 0)
    BY <1>7 DEF ConfigPipe, HostMayAsk
  <2>2. /\ ContextInv(h) /\ NoneStrandedBut(h, {0}) /\ ~ h.SetupComplete
        /\ h.fault = htc.fault /\ h.pool # << >> /\ SameSums(h, htc)
        /\ h.CreditsConsumed = htc.CreditsConsumed
    BY <1>3, <2>1
  <2> HIDE DEF h
  <2>3. k \in Contexts /\ SameView(k, h) /\ k.SetupComplete = h.SetupComplete
        /\ k.fault = h.fault
    <3>1. h \in Contexts /\ h.Assigned + count \in Nat
      BY <2>2 DEF ContextInv, Contexts
    <3>2. CASE supported /\ h.Assigned + count <= h.Total
      <4>1. k = [h EXCEPT !.Assigned = h.Assigned + count]
        BY <3>2 DEF AssignCredits
      <4> QED BY <3>1, <4>1 DEF Contexts, SameView, SameBufs
    <3>3. CASE ~ (supported /\ h.Assigned + count <= h.Total)
      <4>1. k = h
        BY <3>3 DEF AssignCredits
      <4> QED BY <3>1, <4>1 DEF SameView, SameBufs
    <3> QED BY <3>2, <3>3
  <2> HIDE DEF k
  <2>4. ContextInv(k) /\ SameSums(k, h) /\ k.pool = h.pool
        /\ k.CreditsConsumed = h.CreditsConsumed
    BY <2>2, <2>3, SameViewInv DEF SameView, SameBufs
  <2>5. ContextInv(htc') /\ NoneStrandedBut(htc', {}) /\ SameCore(htc', k)
        /\ SameSums(htc', k)
    BY <2>1, <2>2, <2>3, <2>4, SetupReplyInv
  <2>6. /\ SameSums(htc', htc) /\ htc'.CreditsConsumed = htc.CreditsConsumed
        /\ htc'.fault = htc.fault /\ htc'.SetupComplete = FALSE
    BY <2>2, <2>3, <2>4, <2>5 DEF SameSums, SameCore, ContextInv, Contexts
  <2> QED BY <2>1, <2>5, <2>6, SetupClose
<1>8. ASSUME NEW need \in BOOLEAN, SetupComplete(need)
      PROVE  HtcInv'
  <2> DEFINE h == RecvHeader(htc, 0, need)
             k == [h EXCEPT !.SetupComplete = TRUE]
  <2>1. /\ phase = "setup" /\ htc.wire = {} /\ phase' = "run"
        /\ UNCHANGED <<host, held, lost>>
        /\ htc' = CheckAndSendCreditReport([RecycleCtrlMsg(h) EXCEPT !.SetupComplete = TRUE],
                                           {0}, 0)
    BY <1>8 DEF SetupComplete, HostMayAsk, RecvDone
  <2>2. /\ ContextInv(h) /\ NoneStrandedBut(h, {0}) /\ ~ h.SetupComplete
        /\ h.fault = htc.fault /\ SameSums(h, htc)
        /\ h.CreditsConsumed = htc.CreditsConsumed
    BY <1>3, <2>1
  <2> HIDE DEF h
  <2>3. htc' = CheckAndSendCreditReport(k, {0}, 0)
    BY <2>1, <2>2 DEF RecycleCtrlMsg
  <2>4. k \in Contexts /\ SameView(k, h) /\ k.SetupComplete /\ k.fault = h.fault
    BY <2>2 DEF ContextInv, Contexts, SameView, SameBufs
  <2> HIDE DEF k
  <2>5. ContextInv(k) /\ NoneStrandedBut(k, {0}) /\ SameSums(k, h)
        /\ k.CreditsConsumed = h.CreditsConsumed
    BY <2>2, <2>4, SameViewInv DEF SameView
  <2>6. ContextInv(htc') /\ NoneStrandedBut(htc', {}) /\ SameCore(htc', k)
        /\ SameSums(htc', k)
    BY <1>2, <2>3, <2>5, CheckAndSendInv
  <2>7. /\ SameSums(htc', htc) /\ htc'.CreditsConsumed = htc.CreditsConsumed
        /\ htc'.fault = htc.fault
    BY <2>2, <2>4, <2>5, <2>6 DEF SameSums, SameCore
  <2>8. htc'.SetupComplete = TRUE
    BY <2>4, <2>6 DEF SameCore, ContextInv, Contexts
  <2> QED BY <2>1, <2>6, <2>7, <2>8, SetupClose
<1> QED BY <1>4, <1>5, <1>6, <1>7, <1>8 DEF SetupNext

(* The counters of a context are integers.                                 *)
LEMMA ContextTypes ==
    ASSUME NEW h \in Contexts
    PROVE  /\ h.CreditsConsumed \in [Endpoints -> Int]
           /\ \A e \in Endpoints : TargetSum(h, e) \in Int
BY DEF Contexts, TargetSum

(* What remains to be shown of a step after the set-up's: the credits that *)
(* moved, and the buffers.                                                 *)
Balanced ==
    \A e \in Endpoints :
        /\ host'[e] + TargetSum(htc', e) + lost'[e] = host[e] + TargetSum(htc, e) + lost[e]
        /\ htc'.CreditsConsumed[e] - held'[e] = htc.CreditsConsumed[e] - held[e]

(* From the invariant of the new context to that of the new state.         *)
LEMMA RunClose ==
    ASSUME HtcInv, ContextInv(htc'), NoneStrandedBut(htc', {}), Balanced,
           htc'.SetupComplete = htc.SetupComplete, htc'.fault = htc.fault, phase' = phase,
           host' \in [Endpoints -> Nat], held' \in [Endpoints -> Nat],
           lost' \in [Endpoints -> Nat],
           phase = "boot" => htc'.wire = {},
           phase # "run" => held' = held
    PROVE  HtcInv'
<1>1. htc \in Contexts /\ htc' \in Contexts
  BY DEF HtcInv, ContextInv
<1>2. TypeOK'
  BY <1>1 DEF HtcInv, TypeOK
<1>3. ASSUME NEW e \in Endpoints
      PROVE  /\ host'[e] + htc'.air[e] + htc'.CreditsToReturn[e]
                   + htc'.CreditsConsumed[e] + lost'[e] = HostAlloc[e]
             /\ htc'.CreditsConsumed[e] = held'[e]
  <2>1. /\ host[e] + htc.air[e] + htc.CreditsToReturn[e] + htc.CreditsConsumed[e]
                + lost[e] = HostAlloc[e]
        /\ htc.CreditsConsumed[e] = held[e]
    BY DEF HtcInv, CreditConservation, ConsumedIsHeld
  <2>2. /\ host[e] \in Nat /\ lost[e] \in Nat /\ held[e] \in Nat
        /\ htc.air[e] \in Nat /\ htc.CreditsToReturn[e] \in Int
        /\ htc.CreditsConsumed[e] \in Int
    BY <1>1 DEF HtcInv, TypeOK, Contexts
  <2>3. /\ host'[e] \in Nat /\ lost'[e] \in Nat /\ held'[e] \in Nat
        /\ htc'.air[e] \in Nat /\ htc'.CreditsToReturn[e] \in Int
        /\ htc'.CreditsConsumed[e] \in Int
    BY <1>1 DEF Contexts
  <2> QED BY <2>1, <2>2, <2>3 DEF Balanced, TargetSum
<1>4. CreditConservation' /\ ConsumedIsHeld'
  BY <1>3 DEF CreditConservation, ConsumedIsHeld
<1>5. ResponseHasBuffer'
  BY DEF HtcInv, ResponseHasBuffer
<1>6. (htc.SetupComplete = (phase = "run"))'
  BY DEF HtcInv
<1>7. (phase # "run" => \A e \in Endpoints : held[e] = 0)'
  BY DEF HtcInv
<1> QED BY <1>2, <1>4, <1>5, <1>6, <1>7 DEF HtcInv

(* A message for endpoint e that the host paid for.                        *)
Paid(h, e) ==
    /\ h.SetupComplete /\ htc.SetupComplete /\ h.fault = htc.fault
    /\ h.CreditsConsumed = [htc.CreditsConsumed EXCEPT ![e] = @ + 1]
    /\ 1 <= h.CreditsConsumed[e]
    /\ \A i \in Endpoints : TargetSum(h, i) = TargetSum(htc, i) + IF i = e THEN 1 ELSE 0

(* A message the host paid for, as far as its header goes.                 *)
LEMMA PaidHeader ==
    ASSUME HtcInv, NEW e \in Endpoints, NEW need \in BOOLEAN, HostPays(e),
           NEW h, h = RecvHeader(htc, e, need)
    PROVE  ContextInv(h) /\ NoneStrandedBut(h, {e}) /\ Paid(h, e)
<1>1. ContextInv(htc) /\ NoneStrandedBut(htc, {}) /\ htc \in Contexts
  BY DEF HtcInv, ContextInv
<1>2. htc.SetupComplete
  BY DEF HtcInv, HostPays
<1>3. TargetSum(htc, e) < 255
  <2>1. /\ host[e] + htc.air[e] + htc.CreditsToReturn[e] + htc.CreditsConsumed[e]
                + lost[e] = HostAlloc[e]
    BY DEF HtcInv, CreditConservation
  <2>2. /\ host[e] \in Nat /\ lost[e] \in Nat /\ htc.air[e] \in Nat
        /\ htc.CreditsToReturn[e] \in Int /\ htc.CreditsConsumed[e] \in Int
        /\ HostAlloc[e] \in 0..255 /\ host[e] > 0
    BY <1>1, HtcAssumption DEF HtcInv, TypeOK, Contexts, HostPays
  <2> QED BY <2>1, <2>2 DEF TargetSum
<1>4. ContextInv(h) /\ NoneStrandedBut(h, {e}) /\ HeaderEffect(h, htc, e)
  BY <1>1, <1>3, RecvHeaderInv
<1>5. htc.CreditsConsumed[e] \in Int /\ htc.CreditsConsumed[e] >= 0
      /\ htc.CreditsConsumed \in [Endpoints -> Int]
  BY <1>1 DEF Contexts, ContextInv, CreditsOK
<1>6. h.CreditsConsumed = [htc.CreditsConsumed EXCEPT ![e] = @ + 1]
  BY <1>2, <1>4 DEF HeaderEffect
<1> QED BY <1>2, <1>4, <1>5, <1>6 DEF HeaderEffect, Paid

(* A message to the control endpoint keeps the invariant.                  *)
LEMMA RecvCtrlStep ==
    ASSUME HtcInv, NEW need \in BOOLEAN, RecvCtrlMsg(need)
    PROVE  HtcInv'
<1> DEFINE h == RecvHeader(htc, 0, need)
           k == ReturnBuffers(h, 0)
<1>1. 0 \in Endpoints /\ 0 # NoEp
  BY HtcAssumption DEF Endpoints, NoEp
<1>2. HostPays(0)
  BY DEF RecvCtrlMsg
<1>3. ContextInv(h) /\ NoneStrandedBut(h, {0}) /\ Paid(h, 0)
  BY <1>1, <1>2, PaidHeader
<1>4. htc' = CheckAndSendCreditReport(k, {0}, 0)
  BY <1>3 DEF RecvCtrlMsg, RecvDone, RecycleCtrlMsg, Paid
<1>5. k = CheckAndSendCreditReport(AddCredits(h, 0, 1), {0}, 0)
  BY <1>3 DEF ReturnBuffers, Paid
<1> HIDE DEF h, k
<1>6. ContextInv(k) /\ NoneStrandedBut(k, {}) /\ ReturnEffect(k, h, 0, 1)
  BY <1>1, <1>3, <1>5, ReturnBuffersInv DEF Paid
<1>7. ContextInv(htc') /\ NoneStrandedBut(htc', {}) /\ SameCore(htc', k) /\ SameSums(htc', k)
  BY <1>1, <1>4, <1>6, CheckAndSendInv, StrandedWeaken
<1>8. /\ htc \in Contexts /\ htc' \in Contexts /\ host \in [Endpoints -> Nat]
      /\ held \in [Endpoints -> Nat] /\ lost \in [Endpoints -> Nat]
  BY <1>7 DEF HtcInv, ContextInv, TypeOK
<1>9. /\ phase = "run" /\ phase' = phase /\ held' = held /\ lost' = lost /\ host[0] > 0
      /\ host' = [host EXCEPT ![0] = @ - 1]
  BY <1>2 DEF RecvCtrlMsg, HostPays
<1>10. Balanced
  <2> SUFFICES ASSUME NEW e \in Endpoints
               PROVE  /\ host'[e] + TargetSum(htc', e) + lost'[e]
                            = host[e] + TargetSum(htc, e) + lost[e]
                      /\ htc'.CreditsConsumed[e] - held'[e] = htc.CreditsConsumed[e] - held[e]
    BY DEF Balanced
  <2>1. htc'.CreditsConsumed[e] = htc.CreditsConsumed[e]
    <3>1. htc.CreditsConsumed \in [Endpoints -> Int]
      BY <1>8, ContextTypes
    <3>2. /\ htc'.CreditsConsumed = k.CreditsConsumed
          /\ k.CreditsConsumed = [h.CreditsConsumed EXCEPT ![0] = @ - 1]
          /\ h.CreditsConsumed = [htc.CreditsConsumed EXCEPT ![0] = @ + 1]
      BY <1>3, <1>6, <1>7 DEF SameCore, Paid, ReturnEffect
    <3> QED BY <1>1, <3>1, <3>2
  <2>2. TargetSum(htc', e) = TargetSum(htc, e) + IF e = 0 THEN 1 ELSE 0
    BY <1>3, <1>6, <1>7 DEF SameSums, Paid, ReturnEffect
  <2>3. TargetSum(htc, e) \in Int
    BY <1>8, ContextTypes
  <2> QED BY <1>8, <1>9, <2>1, <2>2, <2>3
<1>11. host' \in [Endpoints -> Nat]
  BY <1>1, <1>8, <1>9
<1>12. htc'.SetupComplete = htc.SetupComplete
  BY <1>3, <1>6, <1>7, <1>8 DEF SameCore, Contexts, Paid, ReturnEffect
<1>13. htc'.fault = htc.fault
  BY <1>3, <1>6, <1>7 DEF SameCore, Paid, ReturnEffect
<1> QED BY <1>7, <1>8, <1>9, <1>10, <1>11, <1>12, <1>13, RunClose

(* A message to a service keeps the invariant.                             *)
LEMMA RecvServiceStep ==
    ASSUME HtcInv, NEW e \in Endpoints, NEW need \in BOOLEAN, NEW rooms, NEW keep \in BOOLEAN,
           RecvServiceMsg(e, need, rooms, keep)
    PROVE  HtcInv'
<1> DEFINE h == RecvHeader(htc, e, need)
           a == IF rooms = {} THEN h ELSE SendMsg(h, CHOOSE r \in rooms : TRUE)
           k == IF keep THEN a ELSE ReturnBuffers(a, e)
<1>1. e # NoEp
  BY HtcAssumption DEF Endpoints, NoEp
<1>2. HostPays(e)
  BY DEF RecvServiceMsg
<1>3. ContextInv(h) /\ NoneStrandedBut(h, {e}) /\ Paid(h, e)
  BY <1>2, PaidHeader
<1>4. htc' = CheckAndSendCreditReport(k, {e}, e)
  BY DEF RecvServiceMsg, RecvDone, ServiceRecv
<1> HIDE DEF h
<1>5. ContextInv(a) /\ NoneStrandedBut(a, {e}) /\ Paid(a, e)
  <2>1. CASE rooms = {}
    BY <1>3, <2>1
  <2>2. CASE rooms # {}
    <3>1. PICK room : a = SendMsg(h, room)
      BY <2>2
    <3> HIDE DEF a
    <3>2. ContextInv(a) /\ NoneStrandedBut(a, {e}) /\ SameCore(a, h) /\ SameSums(a, h)
      BY <1>3, <3>1, SendMsgInv
    <3> QED BY <1>3, <3>2 DEF Paid, SameCore, SameSums
  <2> QED BY <2>1, <2>2
<1> HIDE DEF a
<1> DEFINE back == IF keep THEN 0 ELSE 1
<1>6. /\ ContextInv(k) /\ NoneStrandedBut(k, {e}) /\ ReturnEffect(k, a, e, back)
  <2>1. CASE keep
    <3>1. k = a
      BY <2>1
    <3>2. a.CreditsConsumed \in [Endpoints -> Int]
      BY <1>5, ContextTypes DEF ContextInv
    <3>3. a.CreditsConsumed = [a.CreditsConsumed EXCEPT ![e] = @ - 0]
      BY <3>2
    <3> QED BY <1>5, <2>1, <3>1, <3>3 DEF ReturnEffect, Paid, SameSums
  <2>2. CASE ~ keep
    <3>1. k = CheckAndSendCreditReport(AddCredits(a, e, 1), {e}, e)
      BY <1>5, <2>2 DEF ReturnBuffers, Paid
    <3> HIDE DEF k
    <3>2. ContextInv(k) /\ NoneStrandedBut(k, {}) /\ ReturnEffect(k, a, e, 1)
      BY <1>5, <3>1, ReturnBuffersInv DEF Paid
    <3> QED BY <2>2, <3>2, StrandedWeaken
  <2> QED BY <2>1, <2>2
<1> HIDE DEF k
<1>7. ContextInv(htc') /\ NoneStrandedBut(htc', {}) /\ SameCore(htc', k) /\ SameSums(htc', k)
  BY <1>1, <1>4, <1>6, CheckAndSendInv
<1>8. /\ htc \in Contexts /\ htc' \in Contexts /\ host \in [Endpoints -> Nat]
      /\ held \in [Endpoints -> Nat] /\ lost \in [Endpoints -> Nat]
  BY <1>7 DEF HtcInv, ContextInv, TypeOK
<1>9. /\ phase = "run" /\ phase' = phase /\ lost' = lost /\ host[e] > 0
      /\ host' = [host EXCEPT ![e] = @ - 1]
      /\ held' = [held EXCEPT ![e] = @ + 1 - back]
  <2>1. /\ phase = "run" /\ phase' = phase /\ lost' = lost /\ host[e] > 0
        /\ host' = [host EXCEPT ![e] = @ - 1]
        /\ held' = [held EXCEPT ![e] = IF keep THEN @ + 1 ELSE @]
    BY <1>2 DEF RecvServiceMsg, HostPays
  <2>2. (IF keep THEN held[e] + 1 ELSE held[e]) = held[e] + 1 - back
    BY <1>8
  <2> QED BY <2>1, <2>2
<1>10. Balanced
  <2> SUFFICES ASSUME NEW i \in Endpoints
               PROVE  /\ host'[i] + TargetSum(htc', i) + lost'[i]
                            = host[i] + TargetSum(htc, i) + lost[i]
                      /\ htc'.CreditsConsumed[i] - held'[i] = htc.CreditsConsumed[i] - held[i]
    BY DEF Balanced
  <2>1. htc'.CreditsConsumed[i] = htc.CreditsConsumed[i] + IF i = e THEN 1 - back ELSE 0
    <3>1. htc.CreditsConsumed \in [Endpoints -> Int]
      BY <1>8, ContextTypes
    <3>2. /\ htc'.CreditsConsumed = k.CreditsConsumed
          /\ k.CreditsConsumed = [a.CreditsConsumed EXCEPT ![e] = @ - back]
          /\ a.CreditsConsumed = [htc.CreditsConsumed EXCEPT ![e] = @ + 1]
      BY <1>5, <1>6, <1>7 DEF SameCore, Paid, ReturnEffect
    <3> QED BY <3>1, <3>2
  <2>2. TargetSum(htc', i) = TargetSum(htc, i) + IF i = e THEN 1 ELSE 0
    BY <1>5, <1>6, <1>7 DEF SameSums, Paid, ReturnEffect
  <2>3. TargetSum(htc, i) \in Int /\ htc.CreditsConsumed[i] \in Int
    BY <1>8, ContextTypes
  <2> QED BY <1>8, <1>9, <2>1, <2>2, <2>3
<1>11. host' \in [Endpoints -> Nat] /\ held' \in [Endpoints -> Nat]
  BY <1>8, <1>9
<1>12. htc'.SetupComplete = htc.SetupComplete
  BY <1>5, <1>6, <1>7, <1>8 DEF SameCore, Contexts, Paid, ReturnEffect
<1>13. htc'.fault = htc.fault
  BY <1>5, <1>6, <1>7 DEF SameCore, Paid, ReturnEffect
<1> QED BY <1>7, <1>8, <1>9, <1>10, <1>11, <1>12, <1>13, RunClose

(* n buffers that a service kept come back, one by one or as a list.       *)
LEMMA ReturnStep ==
    ASSUME HtcInv, NEW e \in Endpoints, NEW n \in Nat, n \in 1..held[e],
           held' = [held EXCEPT ![e] = @ - n],
           htc' = CheckAndSendCreditReport(AddCredits(htc, e, n), {e}, e),
           UNCHANGED <<phase, host, lost>>
    PROVE  HtcInv'
<1>1. /\ ContextInv(htc) /\ NoneStrandedBut(htc, {e}) /\ htc \in Contexts
      /\ host \in [Endpoints -> Nat] /\ held \in [Endpoints -> Nat]
      /\ lost \in [Endpoints -> Nat]
  BY StrandedWeaken DEF HtcInv, TypeOK
<1>2. phase = "run"
  BY <1>1 DEF HtcInv
<1>3. htc.SetupComplete
  BY <1>2 DEF HtcInv
<1>4. n <= htc.CreditsConsumed[e]
  BY DEF HtcInv, ConsumedIsHeld
<1>5. ContextInv(htc') /\ NoneStrandedBut(htc', {}) /\ ReturnEffect(htc', htc, e, n)
  BY <1>1, <1>3, <1>4, ReturnBuffersInv
<1>6. htc' \in Contexts
  BY <1>5 DEF ContextInv
<1>7. Balanced
  <2> SUFFICES ASSUME NEW i \in Endpoints
               PROVE  /\ host'[i] + TargetSum(htc', i) + lost'[i]
                            = host[i] + TargetSum(htc, i) + lost[i]
                      /\ htc'.CreditsConsumed[i] - held'[i] = htc.CreditsConsumed[i] - held[i]
    BY DEF Balanced
  <2>1. TargetSum(htc, i) \in Int /\ htc.CreditsConsumed \in [Endpoints -> Int]
    BY <1>1, ContextTypes
  <2>2. htc'.CreditsConsumed[i] = htc.CreditsConsumed[i] - IF i = e THEN n ELSE 0
    BY <1>5, <2>1 DEF ReturnEffect
  <2>3. TargetSum(htc', i) = TargetSum(htc, i)
    BY <1>5 DEF ReturnEffect, SameSums
  <2> QED BY <1>1, <2>1, <2>2, <2>3
<1>8. held' \in [Endpoints -> Nat]
  BY <1>1
<1>9. htc'.SetupComplete = htc.SetupComplete /\ htc'.fault = htc.fault
  BY <1>1, <1>3, <1>5, <1>6 DEF ReturnEffect, Contexts
<1> QED BY <1>1, <1>2, <1>5, <1>7, <1>8, <1>9, RunClose

(* A step that moves credits between the context and a sender's trailers.  *)
LEMMA SendStep ==
    ASSUME HtcInv, ContextInv(htc'), NoneStrandedBut(htc', {}), SameCore(htc', htc),
           SameSums(htc', htc), phase # "boot", UNCHANGED <<phase, host, held, lost>>
    PROVE  HtcInv'
<1>1. /\ host \in [Endpoints -> Nat] /\ held \in [Endpoints -> Nat]
      /\ lost \in [Endpoints -> Nat]
  BY DEF HtcInv, TypeOK
<1>2. Balanced
  BY DEF Balanced, SameCore, SameSums
<1> QED BY <1>1, <1>2, RunClose DEF SameCore

(* A message that HTCMsgRecvHandler drops takes its credit with it.        *)
LEMMA RedistributionStep ==
    ASSUME HtcInv, NEW e \in Endpoints, RecvRedistribution(e)
    PROVE  HtcInv'
<1>1. /\ ContextInv(htc) /\ NoneStrandedBut(htc, {}) /\ htc \in Contexts
      /\ host \in [Endpoints -> Nat] /\ held \in [Endpoints -> Nat]
      /\ lost \in [Endpoints -> Nat]
  BY DEF HtcInv, TypeOK
<1>2. /\ htc' = htc /\ phase = "run" /\ phase' = phase /\ held' = held /\ host[e] > 0
      /\ host' = [host EXCEPT ![e] = @ - 1] /\ lost' = [lost EXCEPT ![e] = @ + 1]
  BY DEF RecvRedistribution, HostPays
<1>3. Balanced
  <2> SUFFICES ASSUME NEW i \in Endpoints
               PROVE  host'[i] + TargetSum(htc, i) + lost'[i]
                            = host[i] + TargetSum(htc, i) + lost[i]
    BY <1>2 DEF Balanced
  <2>1. TargetSum(htc, i) \in Int
    BY <1>1, ContextTypes
  <2> QED BY <1>1, <1>2, <2>1
<1>4. host' \in [Endpoints -> Nat] /\ lost' \in [Endpoints -> Nat]
  BY <1>1, <1>2
<1> QED BY <1>1, <1>2, <1>3, <1>4, RunClose

(* The host reads k credits of endpoint e out of the trailers.             *)
LEMMA HostReadsStep ==
    ASSUME HtcInv, NEW e \in Endpoints, NEW k \in Nat, HostReadsCredits(e, k)
    PROVE  HtcInv'
<1>1. /\ ContextInv(htc) /\ NoneStrandedBut(htc, {}) /\ htc \in Contexts
      /\ host \in [Endpoints -> Nat] /\ held \in [Endpoints -> Nat]
      /\ lost \in [Endpoints -> Nat]
  BY DEF HtcInv, TypeOK
<1> DEFINE A == [htc.air EXCEPT ![e] = htc.air[e] - k]
<1>2. /\ k \in 1..htc.air[e] /\ htc' = [htc EXCEPT !.air = A]
      /\ host' = [host EXCEPT ![e] = @ + k] /\ UNCHANGED <<phase, held, lost>>
  BY <1>1 DEF HostReadsCredits, Contexts
<1>3. htc.air \in [Endpoints -> Nat]
  BY <1>1 DEF Contexts
<1>4. A \in [Endpoints -> Nat]
  BY <1>2, <1>3
<1> HIDE DEF A
<1>5. /\ htc' \in Contexts /\ htc'.air = A /\ SameCore(htc', htc) /\ SameBufs(htc', htc)
      /\ htc'.CreditsToReturn = htc.CreditsToReturn /\ htc'.Threshold = htc.Threshold
      /\ htc'.CreditPending = htc.CreditPending /\ htc'.UpdateSoon = htc.UpdateSoon
  BY <1>1, <1>2, <1>4 DEF Contexts, SameCore, SameBufs
<1>6. \A i \in Endpoints : TargetSum(htc', i) = TargetSum(htc, i) - IF i = e THEN k ELSE 0
  <2> SUFFICES ASSUME NEW i \in Endpoints
               PROVE  TargetSum(htc', i) = TargetSum(htc, i) - IF i = e THEN k ELSE 0
    OBVIOUS
  <2>1. htc.air[i] \in Nat /\ htc.CreditsToReturn[i] \in Int
        /\ htc.CreditsConsumed[i] \in Int
    BY <1>1 DEF Contexts
  <2>2. htc'.air[i] = htc.air[i] - IF i = e THEN k ELSE 0
    BY <1>3, <1>5, <2>1 DEF A
  <2> QED BY <1>5, <2>1, <2>2 DEF TargetSum, SameCore
<1>7. ContextInv(htc')
  <2>1. BufsOK(htc')
    <3>1. BufsOK(htc) /\ htc'.pool = htc.pool /\ htc'.wire = htc.wire
      BY <1>1, <1>5 DEF ContextInv, SameBufs
    <3> QED BY ONLY <3>1 DEF BufsOK
  <2>2. ReportsOK(htc') /\ SoonOK(htc')
    BY <1>1, <1>5 DEF ContextInv, ReportsOK, InFlight, SoonOK, SameBufs
  <2>3. CreditsOK(htc')
    <3> SUFFICES ASSUME NEW i \in Endpoints
                 PROVE  /\ htc'.CreditsToReturn[i] >= 0 /\ htc'.CreditsConsumed[i] >= 0
                        /\ TargetSum(htc', i) <= 255
      BY DEF CreditsOK
    <3>1. /\ htc.CreditsToReturn[i] >= 0 /\ htc.CreditsConsumed[i] >= 0
          /\ TargetSum(htc, i) <= 255 /\ TargetSum(htc, i) \in Int
      BY <1>1, ContextTypes DEF ContextInv, CreditsOK
    <3> QED BY <1>5, <1>6, <3>1 DEF SameCore
  <2>4. ThresholdOK(htc')
    BY <1>1, <1>5 DEF ContextInv, ThresholdOK, SameCore
  <2> QED BY <1>5, <2>1, <2>2, <2>3, <2>4 DEF ContextInv
<1>8. NoneStrandedBut(htc', {})
  BY <1>1, <1>5 DEF NoneStrandedBut, SameCore
<1>9. Balanced
  <2> SUFFICES ASSUME NEW i \in Endpoints
               PROVE  host'[i] + TargetSum(htc', i) + lost'[i]
                            = host[i] + TargetSum(htc, i) + lost[i]
    BY <1>2, <1>5 DEF Balanced, SameCore
  <2>1. TargetSum(htc, i) \in Int
    BY <1>1, ContextTypes
  <2> QED BY <1>1, <1>2, <1>6, <2>1
<1>10. host' \in [Endpoints -> Nat]
  BY <1>1, <1>2
<1>11. phase = "boot" => htc'.wire = {}
  BY <1>5 DEF HtcInv, SameBufs
<1> QED BY <1>1, <1>2, <1>5, <1>7, <1>8, <1>9, <1>10, <1>11, RunClose DEF SameCore

(* The operations of the services keep the invariant.                      *)
LEMMA ServiceStep == HtcInv /\ ServiceNext => HtcInv'
<1> SUFFICES ASSUME HtcInv, ServiceNext PROVE HtcInv'
  OBVIOUS
<1>1. ContextInv(htc) /\ NoneStrandedBut(htc, {}) /\ (phase = "boot" => htc.wire = {})
  BY DEF HtcInv
<1>2. ASSUME NEW e \in Endpoints, RecvRedistribution(e)
      PROVE  HtcInv'
  BY <1>2, RedistributionStep
<1>3. ASSUME NEW e \in Endpoints, ServiceReturn(e)
      PROVE  HtcInv'
  <2>1. held[e] \in Nat /\ held[e] > 0
    BY <1>3 DEF HtcInv, TypeOK, ServiceReturn
  <2>2. 1 \in Nat /\ 1 \in 1..held[e]
    BY <2>1
  <2>3. phase = "run"
    BY <2>1 DEF HtcInv
  <2>4. htc.SetupComplete
    BY <2>3 DEF HtcInv
  <2>5. /\ htc' = CheckAndSendCreditReport(AddCredits(htc, e, 1), {e}, e)
        /\ held' = [held EXCEPT ![e] = @ - 1] /\ UNCHANGED <<phase, host, lost>>
    BY <1>3, <2>4 DEF ServiceReturn, ReturnBuffers
  <2> QED BY <2>2, <2>5, ReturnStep
<1>4. ASSUME NEW e \in Endpoints, NEW n \in 1..HostAlloc[e], ServiceReturnList(e, n)
      PROVE  HtcInv'
  <2>1. n \in Nat
    BY HtcAssumption
  <2> QED BY <1>4, <2>1, ReturnStep DEF ServiceReturnList
<1>5. ASSUME NEW e \in Endpoints, NEW k \in 1..HostAlloc[e], HostReadsCredits(e, k)
      PROVE  HtcInv'
  <2>1. k \in Nat
    BY HtcAssumption
  <2> QED BY <1>5, <2>1, HostReadsStep
<1>6. ASSUME NEW room \in SvcRooms, ServiceSend(room)
      PROVE  HtcInv'
  <2>1. htc' = SendMsg(htc, room) /\ phase = "run" /\ UNCHANGED <<phase, host, held, lost>>
    BY <1>6 DEF ServiceSend
  <2>2. ContextInv(htc') /\ NoneStrandedBut(htc', {}) /\ SameCore(htc', htc)
        /\ SameSums(htc', htc)
    BY <1>1, <2>1, SendMsgInv
  <2> QED BY <2>1, <2>2, SendStep
<1>7. ASSUME NEW b \in CtrlBufs, SendDone(b)
      PROVE  HtcInv'
  <2>1. /\ b \in htc.wire /\ htc' = SendComplete(htc, b)
        /\ UNCHANGED <<phase, host, held, lost>>
    BY <1>7 DEF SendDone
  <2>2. ContextInv(htc') /\ NoneStrandedBut(htc', {}) /\ SameCore(htc', htc)
        /\ SameSums(htc', htc)
    BY <1>1, <2>1, SendCompleteInv
  <2>3. phase # "boot"
    BY <1>1, <2>1
  <2> QED BY <2>1, <2>2, <2>3, SendStep
<1> QED BY <1>2, <1>3, <1>4, <1>5, <1>6, <1>7 DEF ServiceNext

(* A step that changes nothing keeps whatever held.                        *)
LEMMA StutterStep == HtcInv /\ UNCHANGED vars => HtcInv'
<1> SUFFICES ASSUME HtcInv, UNCHANGED vars PROVE HtcInv'
  OBVIOUS
<1>1. htc' = htc /\ phase' = phase /\ host' = host /\ held' = held /\ lost' = lost
  BY DEF vars
<1>2. ContextInv(htc') /\ NoneStrandedBut(htc', {})
  BY <1>1 DEF HtcInv
<1>3. TypeOK' /\ ConsumedIsHeld' /\ CreditConservation' /\ ResponseHasBuffer'
  BY <1>1 DEF HtcInv, TypeOK, ConsumedIsHeld, CreditConservation, ResponseHasBuffer
<1> QED BY <1>1, <1>2, <1>3 DEF HtcInv

(* Every step keeps the invariant.                                         *)
LEMMA NextStep == HtcInv /\ [Next]_vars => HtcInv'
<1>1. ASSUME HtcInv, RecvNext PROVE HtcInv'
  BY <1>1, RecvCtrlStep, RecvServiceStep DEF RecvNext
<1> QED BY <1>1, SetupStep, ServiceStep, StutterStep DEF Next

(* The inductive invariant holds in every reachable state.                 *)
THEOREM HtcInvariant == Spec => []HtcInv
BY InitInv, NextStep, PTL DEF Spec

(* Every variable keeps its type.                                          *)
THEOREM HtcTyping == Spec => []TypeOK
<1>1. HtcInv => TypeOK
  BY DEF HtcInv
<1> QED BY <1>1, HtcInvariant, PTL

(* Credits are neither created nor destroyed, however the messages of the  *)
(* host, the returns of the services and the completions of HIF interleave.*)
THEOREM HtcConservation == Spec => []CreditConservation
<1>1. HtcInv => CreditConservation
  BY DEF HtcInv
<1> QED BY <1>1, HtcInvariant, PTL

(* CreditsConsumed counts the buffers that the services keep.              *)
THEOREM HtcConsumption == Spec => []ConsumedIsHeld
<1>1. HtcInv => ConsumedIsHeld
  BY DEF HtcInv
<1> QED BY <1>1, HtcInvariant, PTL

(* No threshold is out of the reach of the outstanding credits.            *)
THEOREM HtcThreshold == Spec => []ThresholdReachable
<1>1. HtcInv => ThresholdReachable
  BY DEF HtcInv, ContextInv, ThresholdOK, ThresholdReachable
<1> QED BY <1>1, HtcInvariant, PTL

(* Between two handlers, credits that the host needs and that reached      *)
(* their threshold are always promised to it.                              *)
THEOREM HtcNoneStranded == Spec => []NoStrandedCredit
<1>1. HtcInv => NoStrandedCredit
  BY DEF HtcInv, NoneStrandedBut, NoStrandedCredit
<1> QED BY <1>1, HtcInvariant, PTL

(* A promised report has a control buffer in flight that will trigger it.  *)
THEOREM HtcWakeup == Spec => []SoonHasWakeup
<1>1. HtcInv => SoonHasWakeup
  BY DEF HtcInv, ContextInv, SoonOK, SoonHasWakeup
<1> QED BY <1>1, HtcInvariant, PTL

(* The set-up dialogue never runs out of control buffers.                  *)
THEOREM HtcResponses == Spec => []ResponseHasBuffer
<1>1. HtcInv => ResponseHasBuffer
  BY DEF HtcInv
<1> QED BY <1>1, HtcInvariant, PTL
=============================================================================
