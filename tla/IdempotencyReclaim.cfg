SPECIFICATION Spec
CONSTANTS
    Requests = {r1, r2, r3}
    Prints = {p1, p2}
    Oversized = {}
    TTL = 2
    ProcessingTimeout = 2
    FailedRetryBackoff = 1
    None = None
    MaxClock = 2
    MaxFaults = 0
SYMMETRY Symmetry
CHECK_DEADLOCK FALSE
INVARIANT
    OnceWithinTTL
