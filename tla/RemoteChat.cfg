\* Two runs, one message of the desktop under way, one fault.
SPECIFICATION Spec
CONSTANTS
    Runs = {r1, r2}
    None = None
    Memory = 2
    Ageing = {}
    MaxUp = 1
    MaxFaults = 1
SYMMETRY Symmetry
CHECK_DEADLOCK FALSE
INVARIANTS
    TypeOK
    FinishedOnce
    OneOpenRun
    MessageOnceIfCalm
