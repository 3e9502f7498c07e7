SPECIFICATION Spec
CONSTANTS
    MaxChunks <- OneEach
    MaxCalls <- OneEach
PROPERTIES
    EndClosesOther
CHECK_DEADLOCK FALSE
