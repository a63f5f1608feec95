\* Two requests on one record, with two faults between them.
SPECIFICATION Spec
CONSTANTS
    k1 = k1
    k2 = k2
    k3 = k3
    r1 = r1
    r2 = r2
    r3 = r3
    Keys = {k1, k2, k3}
    Requests = {r1, r2}
    SessionCap = 2
    Idle = 2
    Lifetime = 3
    LeaseSeconds = 1
    WriteAttempts = 2
    MaxTime = 3
    MaxTokens = 3
    MaxFaults = 2
    First = k1
    None = None
PROPERTIES TokensSafe WritesKept
CHECK_DEADLOCK FALSE
SYMMETRY Symmetry
