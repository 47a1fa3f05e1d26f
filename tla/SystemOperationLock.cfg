SPECIFICATION Spec
CONSTANTS
    Attempts = {a1, a2, a3}
    Operations = {o1, o2}
    None = None
    Lease = 2
    Interval = 1
    TTL = 3
    MaxClock = 3
    MaxFaults = 1
SYMMETRY Symmetry
CHECK_DEADLOCK FALSE
INVARIANTS
    OneOperation
    FirstIsRenewed
