CONSTANTS
    MaxPkt = 2
    BufSize = 4
    LenMod = 8
    NumBufs = 2
    Kinds = {"setup", "wmi", "bad", "suspend"}
    CmdLens = {1, 3, 5}
    EvtLens = {1, 3}
    MaxCommands = 3
    MaxEvents = 2
SPECIFICATION Spec
INVARIANTS
    CommandsWhole
    EventsWhole
PROPERTIES
    EventsDelivered
    CommandsPassed
CHECK_DEADLOCK FALSE
