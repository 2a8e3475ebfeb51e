-------------------------------- MODULE Htc --------------------------------
(***************************************************************************)
(* The Host-Target Communication layer of the firmware (htc/htc.c): the    *)
(* set-up dialogue on endpoint 0, the credits with which the host may send *)
(* on an endpoint, and the credit reports that give them back, either in   *)
(* the trailer of any message or in an empty message of their own.         *)
(*                                                                         *)
(* The firmware runs to completion from one loop (wlan_task), so a handler *)
(* is one action.  HTC_CONTEXT is the record htc and the functions that    *)
(* handlers call in sequence are operators from contexts to contexts.      *)
(***************************************************************************)
EXTENDS Integers, Sequences, FiniteSets

CONSTANTS
    MaxEp,                   \* ENDPOINT_MAX - 1
    NumCtrlBufs,             \* buffers of POOL_ID_HTC_CONTROL
    MaxEpPendingCreditRpts,  \* credit reports an endpoint may have outstanding
    TotalCredits,            \* credits the target announces in HTC_READY_MSG
    HostAlloc,               \* the credits the host gives each of its endpoints
    SvcRooms,                \* numbers of reports that may fit behind a service's message
    Levels,                  \* connection flags the host uses
    MaxDrift                 \* bound: the host stops when PendingCreditReports is this far below 0

Endpoints == 0..MaxEp
CtrlBufs  == 1..NumCtrlBufs
ANY       == Endpoints       \* HTC_ANY_ENDPOINT_MASK
NoEp      == -1              \* pEndpoint == NULL; no HTC_FLAGS_CREDIT_RPT in htc_flags

(* HTC_CONNECT_FLAGS: "none" has no REDUCE_CREDIT_DRIBBLE.                 *)
AllLevels == {"none", "fourth", "half", "three_fourths", "unity"}

ASSUME HtcAssumption ==
    /\ MaxEp \in Nat
    /\ NumCtrlBufs \in Nat \ {0}
    /\ MaxEpPendingCreditRpts \in Nat \ {0}
    /\ TotalCredits \in Nat
    /\ HostAlloc \in [Endpoints -> 0..255]
    /\ SvcRooms \subseteq Nat
    /\ Levels \subseteq AllLevels
    /\ MaxDrift \in Nat

VARIABLES
    htc,     \* HTC_CONTEXT, its control buffers and what HIF carries for it
    phase,   \* "boot", "setup" or "run": how far the host's dialogue has come
    host,    \* credits the host holds, per endpoint
    held,    \* host buffers a service holds, per endpoint
    lost     \* buffers HTCMsgRecvHandler dropped, per endpoint

vars == <<htc, phase, host, held, lost>>

Contexts ==
    [CreditsToReturn: [Endpoints -> Int],
     CreditsConsumed: [Endpoints -> Int],
     Threshold: [Endpoints -> Int],            \* CreditReturnThreshhold
     Level: [Endpoints -> AllLevels],          \* ConnectionFlags
     PendingCreditReports: [Endpoints -> Int],
     HostNeedsCredit: SUBSET Endpoints,        \* EpHostNeedsCreditMap
     CreditPending: SUBSET Endpoints,          \* EpCreditPendingMap
     CurrentEp: 0..(MaxEp + 1),
     Total: Nat,                               \* TotalCredits
     Assigned: Nat,                            \* TotalCreditsAssigned
     SetupComplete: BOOLEAN,                   \* HTC_STATE_SETUP_COMPLETE
     UpdateSoon: BOOLEAN,                      \* HTC_SEND_CREDIT_UPDATE_SOON
     pool: Seq(CtrlBufs),                      \* free control buffers, the top last
     rptOf: [CtrlBufs -> Endpoints \cup {NoEp}], \* htc_flags of each buffer's context
     wire: SUBSET CtrlBufs,                    \* control buffers HIF has not completed
     air: [Endpoints -> Nat],                  \* credits in trailers the host has not read
     fault: BOOLEAN]                           \* a NULL buffer was dereferenced

ContextInit ==
    [CreditsToReturn      |-> [e \in Endpoints |-> 0],
     CreditsConsumed      |-> [e \in Endpoints |-> 0],
     Threshold            |-> [e \in Endpoints |-> 0],
     Level                |-> [e \in Endpoints |-> "none"],
     PendingCreditReports |-> [e \in Endpoints |-> 0],
     HostNeedsCredit      |-> {},
     CreditPending        |-> {},
     CurrentEp            |-> 1,
     Total                |-> TotalCredits,
     Assigned             |-> 0,
     SetupComplete        |-> FALSE,
     UpdateSoon           |-> FALSE,
     pool                 |-> [i \in 1..NumCtrlBufs |-> i],
     rptOf                |-> [b \in CtrlBufs |-> NoEp],
     wire                 |-> {},
     air                  |-> [e \in Endpoints |-> 0],
     fault                |-> FALSE]

(* _HTC_Init                                                               *)
Init ==
    /\ htc = ContextInit
    /\ phase = "boot"
    /\ host = HostAlloc
    /\ held = [e \in Endpoints |-> 0]
    /\ lost = [e \in Endpoints |-> 0]

----------------------------------------------------------------------------
(* The threshold below which an endpoint's credits are not reported.       *)
Scale(level, n) ==
    CASE level = "fourth"        -> n \div 4
      [] level = "half"          -> n \div 2
      [] level = "three_fourths" -> (n * 3) \div 4
      [] OTHER                   -> n

(* CHECK_AND_ADJUST_CREDIT_THRESHOLD, for every endpoint of S              *)
AdjustCreditThreshold(h, S) ==
    [h EXCEPT !.Threshold =
        [e \in Endpoints |->
            IF e \in S /\ h.Level[e] # "none"
            THEN Scale(h.Level[e], h.CreditsToReturn[e] + h.CreditsConsumed[e])
            ELSE h.Threshold[e]]]

(* The endpoints whose credits fit in a trailer of room reports.           *)
Reported(h, room) ==
    {e \in h.CreditPending : Cardinality({i \in h.CreditPending : i < e}) < room}

(* _HTC_SendMsg: the trailer takes the credits of the pending endpoints in *)
(* the order of their numbers.  A report's Credits is an A_UINT8.          *)
SendMsg(h, room) ==
    LET r == Reported(h, room)
    IN  AdjustCreditThreshold(
            [h EXCEPT
                !.air = [e \in Endpoints |->
                            IF e \in r THEN @[e] + (h.CreditsToReturn[e] % 256) ELSE @[e]],
                !.CreditsToReturn = [e \in Endpoints |-> IF e \in r THEN 0 ELSE @[e]],
                !.CreditPending = @ \ r],
            r)

(* A 64-byte control buffer has room for a report of every endpoint.       *)
CtrlRoom == MaxEp + 1

(* HTCAllocMsgBuffer followed by HTC_SendMsg on endpoint 0.                *)
Top(h) == h.pool[Len(h.pool)]
SendCtrl(h) ==
    SendMsg([h EXCEPT !.pool = SubSeq(@, 1, Len(@) - 1), !.wire = @ \cup {Top(h)}],
            CtrlRoom)

(* The responses of the set-up dialogue do not check the allocation.       *)
SendResponse(h) ==
    IF h.pool = << >> THEN [h EXCEPT !.fault = TRUE] ELSE SendCtrl(h)

(* HTCCheckAndSendCreditReport(pHTC, mask, pEndpoint, Eid)                 *)
ReportWanted(h, mask, e) ==
    /\ h.HostNeedsCredit \cap mask # {}
    /\ h.CreditPending \cap mask # {}
    /\ ~ (e # NoEp /\ h.Threshold[e] # 0 /\ h.CreditsToReturn[e] < h.Threshold[e])

ReportDeferred(h, e) ==
    \/ e # NoEp /\ h.PendingCreditReports[e] >= MaxEpPendingCreditRpts
    \/ h.pool = << >>

MarkReport(h, e) ==
    IF e = NoEp THEN h
    ELSE [h EXCEPT !.PendingCreditReports[e] = @ + 1, !.rptOf[Top(h)] = e]

(* Seeded fault: a deferred report is forgotten.                           *)
CheckAndSend_Forgets(h, mask, e) ==
    IF ~ ReportWanted(h, mask, e) \/ ReportDeferred(h, e) THEN h
    ELSE SendCtrl(MarkReport(h, e))

CheckAndSendCreditReport(h, mask, e) ==
    IF ~ ReportWanted(h, mask, e) THEN h
    ELSE IF ReportDeferred(h, e) THEN [h EXCEPT !.UpdateSoon = TRUE]
    ELSE SendCtrl(MarkReport(h, e))

(* Seeded fault: a returned buffer still counts as consumed.               *)
AddCredits_StillConsumed(h, e, n) ==
    IF h.SetupComplete
    THEN [h EXCEPT !.CreditsToReturn[e] = @ + n, !.CreditPending = @ \cup {e}]
    ELSE [h EXCEPT !.Total = @ + n]

(* ReturnBuffers(.., FALSE) for n buffers of endpoint e.                   *)
AddCredits(h, e, n) ==
    IF h.SetupComplete
    THEN [h EXCEPT !.CreditsToReturn[e] = @ + n,
                   !.CreditsConsumed[e] = @ - n,
                   !.CreditPending = @ \cup {e}]
    ELSE [h EXCEPT !.Total = @ + n]

(* _HTC_ReturnBuffers                                                      *)
ReturnBuffers(h, e) ==
    IF h.SetupComplete
    THEN CheckAndSendCreditReport(AddCredits(h, e, 1), {e}, e)
    ELSE AddCredits(h, e, 1)

(* Seeded fault: consumption is counted during the set-up too.             *)
RecvHeader_AlwaysConsumes(h, e, need) ==
    LET c == [h EXCEPT !.CreditsConsumed[e] = @ + 1]
    IN  IF need
        THEN AdjustCreditThreshold([c EXCEPT !.HostNeedsCredit = @ \cup {e}], {e})
        ELSE [c EXCEPT !.HostNeedsCredit = @ \ {e}, !.Threshold[e] = 0]

(* HTCMsgRecvHandler up to the call of the service.                        *)
RecvHeader(h, e, need) ==
    LET c == IF h.SetupComplete THEN [h EXCEPT !.CreditsConsumed[e] = @ + 1] ELSE h
    IN  IF need
        THEN AdjustCreditThreshold([c EXCEPT !.HostNeedsCredit = @ \cup {e}], {e})
        ELSE [c EXCEPT !.HostNeedsCredit = @ \ {e}, !.Threshold[e] = 0]

(* HTCMsgRecvHandler after it.                                             *)
RecvDone(h, e) == CheckAndSendCreditReport(h, {e}, e)

(* HTCControlSvcProcessMsg recycles the buffer of a control message.       *)
RecycleCtrlMsg(h) == IF h.SetupComplete THEN ReturnBuffers(h, 0) ELSE h

----------------------------------------------------------------------------
(* _HTC_Ready                                                              *)
Ready ==
    /\ phase = "boot"
    /\ phase' = "setup"
    /\ htc' = SendResponse(htc)
    /\ UNCHANGED <<host, held, lost>>

(* The host asks for one thing at a time: it waits for the response.       *)
HostMayAsk == phase = "setup" /\ htc.wire = {}

(* HTCProcessConnectMsg for a registered service: it gets the next         *)
(* endpoint, or HTC_SERVICE_NO_RESOURCES.                                  *)
ConnectEndpoint(h, level) ==
    IF h.CurrentEp > MaxEp THEN h
    ELSE [h EXCEPT !.Level[h.CurrentEp] = level, !.CurrentEp = @ + 1]

ConnectService(level, need) ==
    /\ HostMayAsk
    /\ htc' = RecvDone(RecycleCtrlMsg(SendResponse(
                  ConnectEndpoint(RecvHeader(htc, 0, need), level))), 0)
    /\ UNCHANGED <<phase, host, held, lost>>

(* HTCProcessConnectMsg: no such service, or the service refused.          *)
ConnectRefused(need) ==
    /\ HostMayAsk
    /\ htc' = RecvDone(RecycleCtrlMsg(SendResponse(RecvHeader(htc, 0, need))), 0)
    /\ UNCHANGED <<phase, host, held, lost>>

(* HTCProcessConfigPipeMsg: statuses 1 and 2 leave the assignment alone.   *)
AssignCredits(h, supported, count) ==
    IF supported /\ h.Assigned + count <= h.Total
    THEN [h EXCEPT !.Assigned = @ + count] ELSE h

ConfigPipe(supported, count, need) ==
    /\ HostMayAsk
    /\ htc' = RecvDone(RecycleCtrlMsg(SendResponse(
                  AssignCredits(RecvHeader(htc, 0, need), supported, count))), 0)
    /\ UNCHANGED <<phase, host, held, lost>>

(* HTC_MSG_SETUP_COMPLETE_ID: the message's own buffer is recycled before  *)
(* the flag is set, so that it earns the host no credit.                   *)
SetupComplete(need) ==
    /\ HostMayAsk
    /\ phase' = "run"
    /\ htc' = RecvDone([RecycleCtrlMsg(RecvHeader(htc, 0, need))
                           EXCEPT !.SetupComplete = TRUE], 0)
    /\ UNCHANGED <<host, held, lost>>

(* Any other control message, once the host pays for it with a credit.     *)
HostPays(e) ==
    /\ phase = "run"
    /\ e < htc.CurrentEp
    /\ host[e] > 0
    /\ \A i \in Endpoints : htc.PendingCreditReports[i] > -MaxDrift
    /\ host' = [host EXCEPT ![e] = @ - 1]

RecvCtrlMsg(need) ==
    /\ HostPays(0)
    /\ htc' = RecvDone(RecycleCtrlMsg(RecvHeader(htc, 0, need)), 0)
    /\ UNCHANGED <<phase, held, lost>>

(* A service's ProcessRecvMsg may answer with a message of its own and may *)
(* return the buffer before it comes back (as WMIRecvMessageHandler does)  *)
(* or keep it (as the data services do).                                   *)
ServiceRecv(h, e, rooms, keep) ==
    LET a == IF rooms = {} THEN h ELSE SendMsg(h, CHOOSE r \in rooms : TRUE)
    IN  IF keep THEN a ELSE ReturnBuffers(a, e)

RecvServiceMsg(e, need, rooms, keep) ==
    /\ e # 0
    /\ HostPays(e)
    /\ htc' = RecvDone(ServiceRecv(RecvHeader(htc, e, need), e, rooms, keep), e)
    /\ held' = [held EXCEPT ![e] = IF keep THEN @ + 1 ELSE @]
    /\ UNCHANGED <<phase, lost>>

(* HTC_FLAGS_CREDIT_REDISTRIBUTION: RedistributeCredit is empty and the    *)
(* handler returns without giving the buffer back.                         *)
RecvRedistribution(e) ==
    /\ e # 0
    /\ HostPays(e)
    /\ lost' = [lost EXCEPT ![e] = @ + 1]
    /\ UNCHANGED <<htc, phase, held>>

(* A service returns a buffer it kept: ath_free_tx_buf and others.         *)
ServiceReturn(e) ==
    /\ held[e] > 0
    /\ held' = [held EXCEPT ![e] = @ - 1]
    /\ htc' = ReturnBuffers(htc, e)
    /\ UNCHANGED <<phase, host, lost>>

(* _HTC_ReturnBuffersList: one check for the whole list.                   *)
ServiceReturnList(e, n) ==
    /\ n \in 1..held[e]
    /\ held' = [held EXCEPT ![e] = @ - n]
    /\ htc' = CheckAndSendCreditReport(AddCredits(htc, e, n), {e}, e)
    /\ UNCHANGED <<phase, host, lost>>

(* A service sends on its own account: a WMI event, a received frame.      *)
ServiceSend(room) ==
    /\ phase = "run"
    /\ htc' = SendMsg(htc, room)
    /\ UNCHANGED <<phase, host, held, lost>>

(* Seeded fault: a completed report stays pending.                         *)
FreeCtrlBuf_StaysPending(h, b) ==
    [h EXCEPT !.wire = @ \ {b}, !.pool = Append(@, b)]

(* Seeded fault: a completed buffer does not return to the pool.           *)
FreeCtrlBuf_Leaks(h, b) ==
    LET e == h.rptOf[b]
        d == IF e = NoEp THEN h
             ELSE [h EXCEPT !.PendingCreditReports[e] = @ - 1]
    IN  [d EXCEPT !.wire = @ \ {b}]

(* HTCSendDoneHandler and HTCControlSvcProcessSendComplete                 *)
FreeCtrlBuf(h, b) ==
    LET e == h.rptOf[b]
        d == IF e = NoEp THEN h
             ELSE [h EXCEPT !.PendingCreditReports[e] = @ - 1]
    IN  [d EXCEPT !.wire = @ \ {b}, !.pool = Append(@, b)]

(* Seeded fault: the promised report is not sent.                          *)
SendComplete_NoReport(h, b) == [FreeCtrlBuf(h, b) EXCEPT !.UpdateSoon = FALSE]

SendComplete(h, b) ==
    LET f == FreeCtrlBuf(h, b)
    IN  IF ~ f.UpdateSoon THEN f
        ELSE CheckAndSendCreditReport([f EXCEPT !.UpdateSoon = FALSE], ANY, NoEp)

SendDone(b) ==
    /\ b \in htc.wire
    /\ htc' = SendComplete(htc, b)
    /\ UNCHANGED <<phase, host, held, lost>>

(* The host reads trailers: k of the credits under way reach it.           *)
HostReadsCredits(e, k) ==
    /\ k \in 1..htc.air[e]
    /\ htc' = [htc EXCEPT !.air[e] = @ - k]
    /\ host' = [host EXCEPT ![e] = @ + k]
    /\ UNCHANGED <<phase, held, lost>>

SetupNext ==
    \/ Ready
    \/ \E need \in BOOLEAN :
        \/ \E level \in Levels : ConnectService(level, need)
        \/ ConnectRefused(need)
        \/ \E supported \in BOOLEAN, count \in 1..TotalCredits :
              ConfigPipe(supported, count, need)
        \/ SetupComplete(need)

RecvNext ==
    \E need \in BOOLEAN :
        \/ RecvCtrlMsg(need)
        \/ \E e \in Endpoints, rooms \in {{}} \cup {{r} : r \in SvcRooms}, keep \in BOOLEAN :
              RecvServiceMsg(e, need, rooms, keep)

ServiceNext ==
    \/ \E e \in Endpoints :
        \/ RecvRedistribution(e)
        \/ ServiceReturn(e)
        \/ \E n \in 1..HostAlloc[e] : ServiceReturnList(e, n)
        \/ \E k \in 1..HostAlloc[e] : HostReadsCredits(e, k)
    \/ \E room \in SvcRooms : ServiceSend(room)
    \/ \E b \in CtrlBufs : SendDone(b)

Next == SetupNext \/ RecvNext \/ ServiceNext

Spec == Init /\ [][Next]_vars

(* HIF completes what it was given, and a service returns what it keeps    *)
(* (a data frame's buffer, when its transmission completes).               *)
FairSpec ==
    /\ Spec
    /\ \A b \in CtrlBufs : WF_vars(SendDone(b))
    /\ \A e \in Endpoints : WF_vars(ServiceReturn(e))
----------------------------------------------------------------------------
(* Every variable has its type.                                            *)
TypeOK ==
    /\ htc \in Contexts
    /\ phase \in {"boot", "setup", "run"}
    /\ host \in [Endpoints -> Nat]
    /\ held \in [Endpoints -> Nat]
    /\ lost \in [Endpoints -> Nat]

(* No credit is ever created or destroyed: those the host gave an endpoint *)
(* are with the host, under way in a trailer, waiting to be reported,      *)
(* consumed by a buffer a service keeps, or went with a buffer that        *)
(* HTCMsgRecvHandler dropped.                                              *)
CreditConservation ==
    \A e \in Endpoints :
        host[e] + htc.air[e] + htc.CreditsToReturn[e] + htc.CreditsConsumed[e] + lost[e]
            = HostAlloc[e]

(* CreditsConsumed is the number of buffers the service really keeps, over *)
(* every order of receipts, returns and set-up.                            *)
ConsumedIsHeld == \A e \in Endpoints : htc.CreditsConsumed[e] = held[e]

(* AdjustCreditThreshold never sets a threshold that returning every       *)
(* outstanding buffer would not reach, and no later step strands one.      *)
ThresholdReachable ==
    \A e \in Endpoints :
        htc.Threshold[e] <= htc.CreditsToReturn[e] + htc.CreditsConsumed[e]

(* HTCCheckAndSendCreditReport leaves no credit behind: when the host      *)
(* needs credits of an endpoint and enough of them are pending, a report   *)
(* has been promised with HTC_SEND_CREDIT_UPDATE_SOON.                     *)
NoStrandedCredit ==
    \A e \in htc.HostNeedsCredit \cap htc.CreditPending :
        htc.CreditsToReturn[e] >= htc.Threshold[e] => htc.UpdateSoon

(* The promise is kept by the completion of a control buffer, so there     *)
(* must be one with HIF ("as soon as a buffer is reaped").                 *)
SoonHasWakeup == htc.UpdateSoon => htc.wire # {}

(* The unchecked allocations of _HTC_Ready, HTCProcessConnectMsg and       *)
(* HTCProcessConfigPipeMsg never meet an empty pool while the host waits   *)
(* for each response.                                                      *)
ResponseHasBuffer == ~ htc.fault

(* A host that needs credits gets those that were returned.                *)
CreditsReported ==
    \A e \in Endpoints :
        e \in htc.HostNeedsCredit \cap htc.CreditPending
            ~> e \notin htc.HostNeedsCredit \cap htc.CreditPending
=============================================================================
