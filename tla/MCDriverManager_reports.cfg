SPECIFICATION FairSpec
CONSTANTS
    d1 = d1
    d2 = d2
    Drivers <- TwoDrivers
    NULL = NULL
    Wild = Wild
    Nothing = Nothing
    Times <- SomeTimes
    Prompt = TRUE
    MaxTasks = 2
INVARIANTS
    TypeOK
    NoOverwork
    ReportedBusy
PROPERTIES
    EndReported
CHECK_DEADLOCK FALSE
