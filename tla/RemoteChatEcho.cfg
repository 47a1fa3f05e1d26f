\* The safety instance, with two messages under way.
SPECIFICATION Spec
CONSTANTS
    Runs = {r1, r2}
    None = None
    Memory = 2
    Ageing = {}
    MaxUp = 2
    MaxFaults = 1
SYMMETRY Symmetry
CHECK_DEADLOCK FALSE
INVARIANTS
    MessageOnce
