\* Both kinds of order, two handlers, one fault.
SPECIFICATION FairSpec
CONSTANTS
    Workers = {w1, w2}
    Kinds = {"balance", "subscription"}
    MaxFaults = 1
CHECK_DEADLOCK FALSE
INVARIANTS
    AckedIsAccounted
    SettledIsDelivered
    GrantedOnlyIfPaid
PROPERTIES
    ImplementsContract
    PaidIsSettled
    PendingEnds
