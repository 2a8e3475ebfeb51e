\* Receive ring: safety and liveness.
SPECIFICATION Spec
CONSTANTS
    NumDescs = 5
    MaxSegs = 3
    MaxFrames = 4
    MaxStarts = 2
INVARIANTS
    BufferConservation
    HwInRing
    WholeFramesInOrder
PROPERTIES
    RecvResumes
    FramesDelivered
CHECK_DEADLOCK FALSE
