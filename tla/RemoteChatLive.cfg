\* One run, two messages under way, two faults.
SPECIFICATION LiveSpec
CONSTANTS
    Runs = {r1}
    None = None
    Memory = 2
    Ageing = {r1}
    MaxUp = 2
    MaxFaults = 2
CHECK_DEADLOCK FALSE
PROPERTIES
    TerminalArrives
    AnyAgent
