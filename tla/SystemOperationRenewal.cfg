SPECIFICATION Spec
CONSTANTS
    Attempts = {a1, a2}
    Operations = {o1, o2}
    None = None
    Lease = 2
    Interval = 1
    TTL = 3
    MaxClock = 3
    MaxFaults = 0
SYMMETRY Symmetry
CHECK_DEADLOCK FALSE
INVARIANTS
    RenewedWhileHeld
