SPECIFICATION Spec
CONSTANTS
    Jobs = {j1}
    Workers = {w1, w2}
    None = None
    Hold = 1
    Start = 1
    Elsewhere = 1
    MaxRetries = 2
    MaxFaults = 3
    MaxLapses = 1
SYMMETRY Symmetry
CHECK_DEADLOCK FALSE
INVARIANTS
    TypeOK
    OneSettlement
    PoolIsBacked
    CompletedIsPaid
    NoStrandedHold
PROPERTY CompletedIsFinal
