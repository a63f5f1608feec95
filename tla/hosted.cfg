\* The hosted deployment, one publisher: stops, damage, quarantine and retries of the updater.
SPECIFICATION FairSpec
CONSTANTS
    b1 = b1
    b2 = b2
    b3 = b3
    u1 = u1
    u2 = u2
    u3 = u3
    d1 = d1
    d2 = d2
    p1 = p1
    p2 = p2
    lockA = lockA
    lockB = lockB
    Builds = {b1, b2}
    Pubs = {u1, u2}
    Digests = {d1, d2}
    PubId <- MCPubId
    Files <- MCFiles
    Publishers = {p1}
    Local = {}
    LockOf <- MCOwnLocks
    Updater = Updater
    Fragile = {u1}
    None = None
    Damaged = Damaged
INVARIANTS PointersHold HistoryConfirmed
PROPERTIES Progress PointerSpec
