SPECIFICATION CalendarSpec
CONSTANTS
    DaySeconds = 3
    Zone = 1
    LastSecond = 50
INVARIANTS
    WeeksAsSaid
CHECK_DEADLOCK FALSE
