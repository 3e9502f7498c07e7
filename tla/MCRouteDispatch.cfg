SPECIFICATION Spec
CONSTANTS
    rIo = rIo
    rSession = rSession
    rExec = rExec
    rAny = rAny
    rAlt = rAlt
    q1 = q1
    q2 = q2
    q3 = q3
    h1 = h1
    Routes = {rIo, rSession, rExec, rAny, rAlt}
    Root = rIo
    From <- Tree
    Inverted = {rAlt}
    Segments = {"io", "session", "exec", "other"}
    Accepts <- Patterns
    Requests = {q1, q2, q3}
    PathOf <- Paths
    MadeWith <- NoHandlers
    Handlers = {h1}
    None = None
INVARIANTS
    TypeOK
    DeliveredWhereMatched
    OneRack
CHECK_DEADLOCK FALSE
