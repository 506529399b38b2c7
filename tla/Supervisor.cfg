SPECIFICATION SupFairSpec
CONSTANTS
    Lookback = 2
    MaxChunks = 3
    Subchunks = 1
    SlotCount = 2
    Outcomes = {"success", "empty", "blocked"}
    MaxFaults = 2
    Venues = {"binance", "upbit"}
    BootstrapEnabled = TRUE
INVARIANTS
    FullOnlyAfterBootstrap
    CompleteIsEarned
PROPERTIES
    ProcessEnds
    FullWorkerForGood
    SuccessIsFinal
CHECK_DEADLOCK FALSE
