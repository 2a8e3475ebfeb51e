\* One station, three completions, one rate update between them.
SPECIFICATION Spec
CONSTANTS
    Info <- MCInfo
    Caps <- MCCaps
    Outcomes <- MCOutcomes
    MaxAir = 1
    MaxUpdates = 3
    MaxAssocs = 1
INVARIANTS
    RatesValid
    PerMonotone
CHECK_DEADLOCK FALSE
