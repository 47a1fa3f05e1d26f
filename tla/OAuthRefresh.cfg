SPECIFICATION Spec
CONSTANTS
    b = b
    c = c
    a = a
    i1 = i1
    i2 = i2
    Background = {b}
    Requests = {c}
    Admins = {a}
    Instances = {i1, i2}
    Home <- MCHome
    Nobody = Nobody
    Platforms = {"openai", "grok"}
    MaxRetries = 1
    MaxPairs = 2
    MaxFaults = 1
CHECK_DEADLOCK FALSE
INVARIANTS
    TokenKept
    RaceIsNoError
