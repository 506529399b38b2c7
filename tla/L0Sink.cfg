SPECIFICATION Spec
CONSTANTS
    RawPartition = {raw}
    HealthPartition = {}
    SymbolHealthPartition = {}
    GapPartition = {gap}
    NoPartition = NoPartition
    FlushRecords = 2
    MaxReportedObjects = 1
    MaxReportedFailures = 1
    LiveNats = "required"
    MaxOrdinal = 2
    MaxRuns = 2
INVARIANTS
    SealedIsDurable
    NothingForgotten
    ReportHonest
    NoRecordStoredTwice
CHECK_DEADLOCK FALSE
