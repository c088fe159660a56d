SPECIFICATION MCSpec
CONSTANTS
    ann = ann
    bob = bob
    eve = eve
    Clients <- AllClients
    MaxSubs = 3
    QueueMax = 1
    MaxLines = 2
INVARIANTS
    TypeOK
    OwnIds
    InOrder
PROPERTIES
    Reaches
    ServerEnds
CHECK_DEADLOCK FALSE
