SPECIFICATION Spec
CONSTANTS
    Publisher = {p1, p2}
    Slots = {1, 2}
    Ranges = {{1, 2}, {2}}
    MaxAttempts = 2
    Concurrency = 2
    MaxRuns = 2
INVARIANT PointedIsComplete
INVARIANT OkMeansPublished
INVARIANT ReaderNeverStranded
PROPERTY ImplementsIndex
SYMMETRY PublisherSymmetry
CHECK_DEADLOCK FALSE
