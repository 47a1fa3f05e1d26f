SPECIFICATION Spec
CONSTANTS
    b = b
    c = c
    a = a
    i1 = i1
    i2 = i2
    Background = {b, c}
    Requests = {}
    Admins = {}
    Instances = {i1, i2}
    Home <- MCHome
    Nobody = Nobody
    Platforms = {"openai", "grok"}
    MaxRetries = 2
    MaxPairs = 2
    MaxFaults = 3
CHECK_DEADLOCK FALSE
PROPERTIES
    DueIsRefreshed
