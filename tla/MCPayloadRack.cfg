SPECIFICATION Spec
CONSTANTS
    Payloads = {b1, b2}
    Loaders = {l1, l2}
    Releasers = {r1, r2}
    Keeper = keeper
    None = None
INVARIANTS
    TypeOK
    SettledOnce
    ImmediateNeverFails
PROPERTIES
    LoadSettles
    ReleaseReturns
    KeepsPromise
CHECK_DEADLOCK FALSE
