\* Safety only, two faults, the handlers interchangeable.
SPECIFICATION Spec
CONSTANTS
    Workers = {w1, w2}
    Kinds = {"balance", "subscription"}
    MaxFaults = 2
SYMMETRY Symmetry
CHECK_DEADLOCK FALSE
INVARIANTS
    TypeOK
    AckedIsAccounted
    SettledIsDelivered
    GrantedOnlyIfPaid
PROPERTIES
    ImplementsContract
