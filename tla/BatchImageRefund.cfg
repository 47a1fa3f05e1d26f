SPECIFICATION Spec
CONSTANTS
    Jobs = {j1}
    Workers = {w1}
    None = None
    Hold = 1
    Start = 1
    Elsewhere = 1
    MaxRetries = 2
    MaxFaults = 0
    MaxLapses = 0
CHECK_DEADLOCK FALSE
INVARIANT NoRefundWhileRunning
