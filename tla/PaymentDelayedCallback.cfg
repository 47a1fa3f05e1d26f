\* Balance orders, one handler, no fault: the claim of docs/PAYMENT.md.
SPECIFICATION FairSpec
CONSTANTS
    Workers = {w1}
    Kinds = {"balance"}
    MaxFaults = 0
CHECK_DEADLOCK FALSE
PROPERTIES
    DelayedCallbackReconciled
