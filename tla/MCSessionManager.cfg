SPECIFICATION ManagerSpec
CONSTANTS
    a1 = a1
    a2 = a2
    s1 = s1
    s2 = s2
    s3 = s3
    g1 = g1
    g2 = g2
    p1 = p1
    Addrs = {a1, a2}
    Sessions = {s1, s2, s3}
    Destroyers = {g1, g2}
    Proxies = {p1}
    NoSession = NoSession
INVARIANTS
    ManagerTypeOK
    MapHoldsNoDestroyed
    RemovedIsClosed
CHECK_DEADLOCK FALSE
