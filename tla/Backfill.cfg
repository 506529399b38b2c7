SPECIFICATION Spec
CONSTANTS
    Venues = {"binance", "upbit"}
    Histories <- MCHistories
    QuietHistories <- MCQuietHistories
    PageLimit = 2
    InputStart = 2
    InputEnd = 5
    Second = 2
    MaxLive = 1
    MaxFaults = 1
INVARIANTS ManifestIsExact
PROPERTIES PagingEnds
