SPECIFICATION Spec
CONSTANTS
    Requests = {r1, r2, r3}
    Prints = {p1, p2}
    Oversized = {r3}
    TTL = 2
    ProcessingTimeout = 1
    FailedRetryBackoff = 1
    None = None
    MaxClock = 3
    MaxFaults = 1
SYMMETRY Symmetry
CHECK_DEADLOCK FALSE
INVARIANTS
    ReplayIsReal
    OneExecutor
    OnceWhileCalm
    AnsweredIsStored
