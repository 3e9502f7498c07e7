SPECIFICATION Spec
CONSTANTS
    k1 = k1
    Chans = {k1}
    MaxRequests = 1
    None = None
INVARIANTS
    ProxiedWhileWanted
CHECK_DEADLOCK FALSE
