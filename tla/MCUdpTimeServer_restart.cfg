SPECIFICATION Spec
CONSTANTS
    c1 = c1
    c2 = c2
    c3 = c3
    Clients <- TwoClients
    NoClient = NoClient
    QUEUE_SIZE = 2
    MaxStops = 1
INVARIANTS
    EveryWakeFindsMessage
CHECK_DEADLOCK FALSE
