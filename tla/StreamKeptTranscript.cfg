\* One visit to another conversation; two events, two logs.
SPECIFICATION StreamSpec
CONSTANTS
    Buffer = 1
    Outbox = 1
    Pending = 1
    MaxSeq = 2
    MaxEpochs = 2
    MaxSubs = 2
    MaxBreaks = 1
CHECK_DEADLOCK FALSE
INVARIANT EverythingShown
