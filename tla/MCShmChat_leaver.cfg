SPECIFICATION Spec
CONSTANTS
    c1 = c1
    c2 = c2
    Clients <- TwoClients
    QuietStart = TRUE
    MaxInputs = 2
INVARIANTS
    LeaverDeleted
CHECK_DEADLOCK FALSE
