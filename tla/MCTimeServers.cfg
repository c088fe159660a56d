SPECIFICATION ServersFairSpec
CONSTANTS
    c1 = c1
    c2 = c2
    c3 = c3
    u1 = u1
    u2 = u2
    Clients <- ThreeClients
    NoClient = NoClient
    NThreads = 2
    Steps <- TwoOrMany
    MaxClients = 3
    UdpClients <- TwoUdpClients
    MaxFaults = 1
INVARIANTS
    ServersTypeOK
    NewPortWhenAlone
    ServedByOwnThread
PROPERTIES
    EveryoneServed
    ShutdownEnds
CHECK_DEADLOCK FALSE
