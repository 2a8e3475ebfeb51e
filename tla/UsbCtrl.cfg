\* Control transfers and restarts: safety and liveness.
SPECIFICATION Spec
CONSTANTS
    DownloadPackets = 2
    StringPackets = 2
INVARIANTS
    AnswersRight
    EndpointsReady
PROPERTIES
    TransferEnds
    WatchdogReported
