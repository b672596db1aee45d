SPECIFICATION SaverSpec
CONSTANTS
    Names = {x}
    Values = {1}
    Absent = Absent
    Torn = Torn
    MaxSaves = 2
    MaxCrashes = 1
PROPERTIES
    OldIsRestored
