CONSTANTS
    SeqMax = 8
    BawSize = 3
    TidMaxBufs = 4
    Tids = {t1}
    NumBufs = 3
    MaxRetries = 1
    MaxBarRetries = 1
    MaxAggr = 2
    HostOps = {"mgt", "node"}
    QuietHost = FALSE
SPECIFICATION Spec
INVARIANT TxBufAvailable
CHECK_DEADLOCK FALSE
