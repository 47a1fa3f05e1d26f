\* No fault at all: a second instance starts while the first one serves.
\* Expected to fail.
SPECIFICATION Spec
CONSTANTS
    r1 = r1
    r2 = r2
    r3 = r3
    i1 = i1
    i2 = i2
    Requests = {r1, r2, r3}
    Instances = {i1, i2}
    Home <- MCHome
    Limit = 1
    MaxWaiting = 1
    MaxFaults = 0
CHECK_DEADLOCK FALSE
INVARIANT
    LivingKeepSlots
