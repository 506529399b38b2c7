SPECIFICATION SpoolSpec
CONSTANTS
    RawPartition = {raw}
    HealthPartition = {}
    SymbolHealthPartition = {}
    GapPartition = {gap}
    NoPartition = NoPartition
    FlushRecords = 1
    MaxReportedObjects = 1
    MaxReportedFailures = 1
    LiveNats = "off"
    MaxOrdinal = 3
    MaxRuns = 1
    Evictors = {e1, e2}
    SafetyFloor = 1
    MaxClock = 3
INVARIANTS
    EvictedIsDurable
    InFlightFileStays
PROPERTIES
    ObjectsImmutable
CHECK_DEADLOCK FALSE
