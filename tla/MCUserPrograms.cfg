SPECIFICATION ProgramsSpec
CONSTANTS
    a = a
    b = b
    p1 = p1
    p2 = p2
    p3 = p3
    p4 = p4
    Names <- TwoNames
    Cells <- FourCells
    Mine = p1
    NULL = NULL
    Wild = Wild
    Garbage = Garbage
    All = All
    Capacity = 3
    TcacheMax = 1
    MaxRuined = 3
    Size = 5
    Empty = Empty
    Deleted = Deleted
    Nothing = Nothing
    HISTORY_SIZE = 2
    PipeMax = 1
    MaxOut = 2
    MaxCommands = 4
INVARIANTS
    ProgramsTypeOK
    KeepsBook
    NoBadPointer
    ShowsRecords
PROPERTIES
    OperationsEnd
    NeverGrowsAgain
CHECK_DEADLOCK FALSE
