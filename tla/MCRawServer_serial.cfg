SPECIFICATION FairSpec
CONSTANTS
    c1 = c1
    c2 = c2
    c3 = c3
    Clients <- ThreeClients
    Inputs <- LinesWithConnect
    NThreads = 2
    OneAtATime = TRUE
    MaxTyped = 2
    MaxFaults = 1
INVARIANTS
    TypeOK
    OneClaim
    EchoNumbers
PROPERTIES
    ImplementsPool
    Answered
CHECK_DEADLOCK FALSE
