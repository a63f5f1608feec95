\* The hosted deployment: two publishers with their own state directories contend.
SPECIFICATION Spec
CONSTANTS
    b1 = b1
    b2 = b2
    b3 = b3
    u1 = u1
    u2 = u2
    u3 = u3
    d1 = d1
    d2 = d2
    p1 = p1
    p2 = p2
    lockA = lockA
    lockB = lockB
    Builds = {b1, b2, b3}
    Pubs = {u1, u2}
    Digests = {d1}
    PubId <- MCPubIdConflict
    Files <- MCOneFile3
    Publishers = {p1, p2}
    Local = {}
    LockOf <- MCOwnLocks
    Updater = Updater
    Fragile = {}
    None = None
    Damaged = Damaged
PROPERTY HistoryWhole
