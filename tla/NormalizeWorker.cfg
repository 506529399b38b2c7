SPECIFICATION FairSpec
CONSTANTS
    Interval = 2
    Watermark = 1
    LagThreshold = 2
    HourSlots = 6
    KeysPerPage = 3
    LookbackHours = 10
    MaxWindowsPerTick = 3
    Modes = {"sequential", "live_priority", "live_priority_only"}
    Outcomes = {"success", "empty", "blocked"}
    MaxClock = 9
    MaxFaults = 1
INVARIANTS
    IndexedIsClosed
    NoWindowSkipped
    LiveFirst
PROPERTIES
    OneRunPerDrain
    CatchesUp
CHECK_DEADLOCK FALSE
