CONSTANTS
    MaxEp = 1
    NumCtrlBufs = 2
    MaxEpPendingCreditRpts = 2
    TotalCredits = 1
    HostAlloc <- OneService
    SvcRooms = {0, 1}
    Levels = {"none", "half", "unity"}
    MaxDrift = 1
SPECIFICATION FairSpec
INVARIANTS
    CreditConservation
    ConsumedIsHeld
    NoStrandedCredit
    SoonHasWakeup
    ResponseHasBuffer
PROPERTY CreditsReported
CHECK_DEADLOCK FALSE
