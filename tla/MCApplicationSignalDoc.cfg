SPECIFICATION Spec
CONSTANTS
    Signals = {"USR1"}
    Delays = {0, 3}
    MinDelay = 2
    Interval = 4
    Round = 6
    MaxTimeout = 30
    MaxSignals = 2
    LastSignal = 5
    LastWork = 6
    MaxNow = 12
    None = None
PROPERTIES
    ReloadOnSignal
CHECK_DEADLOCK FALSE
