SPECIFICATION OwnerSpec
CONSTANTS
    Workers = {w1, w2}
    Kinds = {"balance"}
    MaxFaults = 3
CHECK_DEADLOCK FALSE
PROPERTIES
    StaleWorkerNeverOverwrites
