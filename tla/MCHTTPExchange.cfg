SPECIFICATION Spec
CONSTANTS
    l1 = l1
    l2 = l2
    Listeners = {l1, l2}
    Lengths <- Bodies
INVARIANTS
    TypeOK
    AnsweredInTime
PROPERTIES
    RequestSettles
CHECK_DEADLOCK FALSE
