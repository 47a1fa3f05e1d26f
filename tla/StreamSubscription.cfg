\* Queues and buffers of one; three events, two logs, one break.
SPECIFICATION StreamSpec
CONSTANTS
    Buffer = 1
    Outbox = 1
    Pending = 1
    MaxSeq = 3
    MaxEpochs = 2
    MaxSubs = 2
    MaxBreaks = 1
CHECK_DEADLOCK FALSE
INVARIANTS
    StreamTypeOK
    NothingMissed
    NeverDeadEnd
PROPERTIES
    CatchesUp
