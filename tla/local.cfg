\* The local deployment: two commands share one publisher lock and one runtime.
SPECIFICATION Spec
CONSTANTS
    b1 = b1
    b2 = b2
    b3 = b3
    u1 = u1
    u2 = u2
    u3 = u3
    d1 = d1
    d2 = d2
    p1 = p1
    p2 = p2
    lockA = lockA
    lockB = lockB
    Builds = {b1, b2, b3}
    Pubs = {u1, u2, u3}
    Digests = {d1}
    PubId <- MCPubId3
    Files <- MCOneFile3
    Publishers = {p1, p2}
    Local = {p1, p2}
    LockOf <- MCOneLock
    Updater = Updater
    Fragile = {u1}
    None = None
    Damaged = Damaged
PROPERTY NoStaleOverwrite
