SPECIFICATION FairSpec
CONSTANTS
    c1 = c1
    c2 = c2
    Clients <- TwoClients
    QuietStart = TRUE
    MaxInputs = 2
INVARIANTS
    TypeOK
    OwnIds
    BlocksGuarded
    InOrder
    LineInOnePlace
PROPERTIES
    Settles
CHECK_DEADLOCK FALSE
