\* Two requests of one session, under fairness.
SPECIFICATION FairSpec
CONSTANTS
    k1 = k1
    k2 = k2
    k3 = k3
    r1 = r1
    r2 = r2
    r3 = r3
    Keys = {k1}
    Requests = {r1, r2}
    SessionCap = 2
    Idle = 3
    Lifetime = 3
    LeaseSeconds = 1
    WriteAttempts = 2
    MaxTime = 2
    MaxTokens = 2
    MaxFaults = 1
    First = k1
    None = None
CHECK_DEADLOCK FALSE
PROPERTIES RequestsEnd
