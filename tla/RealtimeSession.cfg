SPECIFICATION Spec
CONSTANTS
    Venues = {"binance", "upbit"}
    LiveNats = "required"
    MaxStoredGapAlerts = 2
    InitialBackoff = 1
    MaxBackoff = 3
    Multiplier = 2
    StaleTimeout = 1
    MaxEvents = 3
    MaxWire = 1
    MaxReconnects = 2
    MaxFaults = 2
INVARIANTS
    HolesAreSurfaced
    ExitOkIsDurable
    HealthyIsComplete
PROPERTIES
    ShutdownCompletes
    MuteConnectionEnds
