SPECIFICATION Spec
CONSTANTS
    k1 = k1
    Chans = {k1}
    MaxRequests = 1
    None = None
INVARIANTS
    TypeOK
    ShutOnce
    ShutBeforeEmit
PROPERTIES
    ProxyEnds
CHECK_DEADLOCK FALSE
