SPECIFICATION Spec
CONSTANTS
    Length = 2
    Streams <- Clients
    Installations <- Servers
    None = None
INVARIANTS
    TypeOK
    AnsweredOnce
PROPERTIES
    AllAnswered
CHECK_DEADLOCK FALSE
