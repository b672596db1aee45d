SPECIFICATION CalendarSpec
CONSTANTS
    DaySeconds = 3
    Zone = 1
    LastSecond = 50
INVARIANTS
    NearestAsSaid
CHECK_DEADLOCK FALSE
