SPECIFICATION CommandSpec
CONSTANTS
    u1 = u1
    u2 = u2
    Users = {u1, u2}
    Lengths = {5, 251, 252, 260}
    MaxDials = 2
INVARIANTS
    CommandTypeOK
    LineRunsWhole
PROPERTIES
    CommandReturns
CHECK_DEADLOCK FALSE
