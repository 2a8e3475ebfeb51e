CONSTANTS
    NULL = NULL
    NumDescs = 3
    MaxLen = 2
    MaxMsgs = 2
SPECIFICATION Spec
INVARIANTS
    DescConservation
    EngineArmed
PROPERTIES
    ImplementsFifo
    PacketsReaped
