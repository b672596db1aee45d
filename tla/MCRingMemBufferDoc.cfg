SPECIFICATION RingSpec
CONSTANTS
    RingSize = 4
    PushSizes = {1, 2, 3}
    MaxPushed = 9
INVARIANTS
    UnreadKept
CHECK_DEADLOCK FALSE
