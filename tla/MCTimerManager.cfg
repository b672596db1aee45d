SPECIFICATION Spec
CONSTANTS
    Timers = {t1, t2}
    SlotSize = 8
    StartTime = 5
    Delays = {0, 1, 9, 64}
    Steps = {1, 7, 9}
    MaxNow = 19
    Unlinked = Unlinked
INVARIANTS
    Placement
    WakeUpInTime
PROPERTIES
    RunReturns
    Served
    ImplementsService
CHECK_DEADLOCK FALSE
