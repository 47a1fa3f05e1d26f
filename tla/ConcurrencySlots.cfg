\* Three requests in two processes; one slot, one place to wait, one fault.
SPECIFICATION Spec
CONSTANTS
    r1 = r1
    r2 = r2
    r3 = r3
    i1 = i1
    i2 = i2
    Requests = {r1, r2, r3}
    Instances = {i1, i2}
    Home <- MCHome
    Limit = 1
    MaxWaiting = 1
    MaxFaults = 1
CHECK_DEADLOCK FALSE
INVARIANTS
    TypeOK
    LimitKept
    QueueKept
    NoPhantomWaiter
PROPERTIES
    EverythingReclaimed
