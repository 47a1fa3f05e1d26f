SPECIFICATION Spec
CONSTANTS
    Workers = {w1, w2}
    Total = 2
    Queryable = {TRUE, FALSE}
    MaxRefunds = 2
    MaxFaults = 1
SYMMETRY Symmetry
CHECK_DEADLOCK FALSE
INVARIANTS
    RestoredIsUndeducted
    NeverOvercharged
    RefundedIsReal
PROPERTIES
    RefundedIsFinal
