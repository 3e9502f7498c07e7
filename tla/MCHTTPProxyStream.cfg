SPECIFICATION StreamSpec
CONSTANTS
    MaxChunks <- FromSrc
    MaxCalls <- OneEach
INVARIANTS
    StreamTypeOK
    FlushedAtEnd
PROPERTIES
    ErrorsReported
    BrokersReturn
    
    HandlerReturns
CHECK_DEADLOCK FALSE
