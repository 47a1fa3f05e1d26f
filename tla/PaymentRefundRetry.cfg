SPECIFICATION Spec
CONSTANTS
    Workers = {w1}
    Total = 1
    Queryable = {TRUE}
    MaxRefunds = 2
    MaxFaults = 1
CHECK_DEADLOCK FALSE
PROPERTIES
    RetryNeverDeductsAgain
