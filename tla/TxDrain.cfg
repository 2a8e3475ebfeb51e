CONSTANTS
    SeqMax = 4
    BawSize = 2
    TidMaxBufs = 4
    Tids = {t1, t2}
    NumBufs = 3
    MaxRetries = 1
    MaxBarRetries = 1
    MaxAggr = 2
    HostOps = {"drain"}
    QuietHost = TRUE
SPECIFICATION Spec
SYMMETRY TidSymmetry
INVARIANTS
    BufferConservation
    WindowExact
    TidqOnce
CHECK_DEADLOCK FALSE
