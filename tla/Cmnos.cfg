\* The main loop: three timers, a clock that wraps around.
SPECIFICATION Spec
CONSTANTS
    Timers = {t1, t2, t3}
    Range = 13
    MaxDelay = 2
    TicksPerLoop = 2
PROPERTIES
    TimersInOrder
    NothingLost
