\* Retries, limits, refusals and kills, until every report is decided.
SPECIFICATION TriageSpec
CONSTANTS
    s1 = s1  s2 = s2  k1 = k1  k2 = k2
    Reports = {1, 2, 3, 4, 5}
    ScopeOf <- MCScopeOf
    ClaimOf <- MCClaimOf
    Registered = {s1}
    Runners = {r1}
    FiledBefore = {1, 2, 3, 4}
    Samples = 1
    Needed = 1
    Interruptions = 1
    Seconds = 1
    RegionBudget = 2
    PageBudget = 3
PROPERTIES LedgerHolds ReportsServed
CHECK_DEADLOCK FALSE
