SPECIFICATION Spec
CONSTANTS
    Signals = {"TERM", "USR1"}
    Delays = {0, 3}
    MinDelay = 2
    Interval = 4
    Round = 6
    MaxTimeout = 30
    MaxSignals = 3
    LastSignal = 5
    LastWork = 5
    MaxNow = 18
    None = None
INVARIANTS
    DelayKept
    TimersOnTime
PROPERTIES
    NoTickWhileStopping
    StopFinishes
    ReloadTaken
    StopCompletes
CHECK_DEADLOCK FALSE
