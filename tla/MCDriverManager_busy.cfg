SPECIFICATION FairSpec
CONSTANTS
    d1 = d1
    d2 = d2
    Drivers <- OneDriver
    NULL = NULL
    Wild = Wild
    Nothing = Nothing
    Times <- SomeTimes
    Prompt = TRUE
    MaxTasks = 3
PROPERTIES
    BusyRefused
CHECK_DEADLOCK FALSE
