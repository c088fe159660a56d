SPECIFICATION Spec
CONSTANTS
    c1 = c1
    c2 = c2
    c3 = c3
    Clients <- TwoClients
    Inputs <- Lines
    NThreads = 2
    OneAtATime = FALSE
    MaxTyped = 1
    MaxFaults = 0
INVARIANTS
    PortExclusive
CHECK_DEADLOCK FALSE
