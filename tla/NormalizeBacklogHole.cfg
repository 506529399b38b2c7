SPECIFICATION Spec
CONSTANTS
    Interval = 2
    Watermark = 1
    LagThreshold = 2
    HourSlots = 8
    KeysPerPage = 3
    LookbackHours = 10
    MaxWindowsPerTick = 2
    Modes = {"live_priority"}
    Outcomes = {"success"}
    MaxClock = 11
    MaxFaults = 0
INVARIANTS
    HistoryContiguous
CHECK_DEADLOCK FALSE
