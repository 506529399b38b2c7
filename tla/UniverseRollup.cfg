SPECIFICATION Spec
CONSTANTS
    Publisher = {p1, p2}
    Ranges <- MCRanges
    Slices <- MCSlices
    DaySlots = 2
    BOOTSTRAP_ROLLUP_DAYS = 2
    MIN_BOOTSTRAP_DAYS = 2
    MIN_REFERENCE_WARMUP_BOOTSTRAP_DAYS = 1
    MAX_APPROVED_RANK = 2
    MAX_MEDIAN_SPREAD_BPS = 50
    MAX_GAP_PERCENT = 5
    MaxAttempts = 2
    MaxRuns = 3
INVARIANTS
    CountedOnce
    ApprovedIsEarned
SYMMETRY PublisherSymmetry
CHECK_DEADLOCK FALSE
