SPECIFICATION FairSpec
CONSTANTS
    c1 = c1
    c2 = c2
    c3 = c3
    Clients <- ThreeClients
    NoClient = NoClient
    QUEUE_SIZE = 2
    MaxStops = 2
INVARIANTS
    TypeOK
    OneOwner
    OneAnswer
PROPERTIES
    AnsweredWhenCalm
CHECK_DEADLOCK FALSE
