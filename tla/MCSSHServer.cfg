SPECIFICATION Spec
CONSTANTS
    c1 = c1
    c2 = c2
    k1 = k1
    k2 = k2
    Conns = {c1, c2}
    Chans = {k1, k2}
    ConnOf <- BothOfFirst
    None = None
INVARIANTS
    TypeOK
PROPERTIES
    DropClosesServed
    BacklogMoves
    ChannelsAnswered
CHECK_DEADLOCK FALSE
