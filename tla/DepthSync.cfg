SPECIFICATION Spec
CONSTANTS
    MaxBufferedEvents = 2
    MaxId = 5
    MaxSpan = 2
    MaxFaults = 3
INVARIANTS
    BookFaithful
    LagIsAlerted
    RetriedWithinBuffer
CHECK_DEADLOCK FALSE
