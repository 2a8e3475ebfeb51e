CONSTANTS
    SeqMax = 8
    BawSize = 3
    TidMaxBufs = 4
    Tids = {t1}
    NumBufs = 4
    MaxRetries = 1
    MaxBarRetries = 1
    MaxAggr = 2
    HostOps = {"aggr", "node", "mgt"}
    QuietHost = TRUE
SPECIFICATION Spec
INVARIANTS
    BufferConservation
    WindowExact
    NoStuckTid
    PausedHasReason
PROPERTIES
    WindowAdvances
CHECK_DEADLOCK FALSE
