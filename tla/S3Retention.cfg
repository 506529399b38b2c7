SPECIFICATION FairSpec
CONSTANTS
    Retainers = {a, b}
    Run = {r1, r2}
    Slots = {1}
    DaySlots = 2
    Artifacts = {"symbol_universe_snapshot/"}
    Retention = 2
    MaxDeletes = 1
    RunTime = 1
    MaxClock = 4
    MaxFaults = 1
INVARIANTS
    YoungIsReadable
PROPERTIES
    DeletedIsExpired
    ExpiredGoes
