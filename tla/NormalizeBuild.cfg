SPECIFICATION Spec
CONSTANTS
    InputStart = 100
    InputEnd = 120
    WindowMs = 10
    ProjectionLookback = 20
    ScanMargin = 10
    ClockSkewMargin = 2
    MaxLatency = 5
    Venue = "binance"
    HourMs = 45
    RunKeyOverlap = 10
    FIFTEEN_MINUTES_MS = 10
    ONE_HOUR_MS = 20
    DerivativeSpan = 10
    Btc = "a"
    Eth = "b"
    Worlds <- MCWorlds
    MaxFaults = 1
CHECK_DEADLOCK FALSE
INVARIANTS
    InputsListed
    BuildIsExact
    CompleteIsClean
    
