\* Commands, events, status of frames with pools of two buffers.
SPECIFICATION Spec
CONSTANTS
    MaxCmdReply = 2
    MaxEvents = 2
    MaxTxStatus = 1
    Cookies = {1, 2, 3}
INVARIANTS
    StatusRight
 
\* A failed assertion stops the firmware; that none fails is part of
\* CommandsAnswered.
CHECK_DEADLOCK FALSE
