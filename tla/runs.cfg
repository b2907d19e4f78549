SPECIFICATION RunsSpec
CONSTANTS
    Nodes <- MCNodes
    NoNode = "none"
    top = top
    t1 = t1
    t2 = t2
    t3 = t3
    Tasks <- MCTasks
    Top = top
    Fans <- MCFans
    Folders <- MCFolders
    MaxVisits = 4
    FullWalks <- MCFullWalks
    MaxCalls = 1
    MaxCancels = 2
INVARIANTS
    NothingLeftBehind
    ToldWhatHappened
    RecordsMatchExecutions
PROPERTY
    ClosedRecordsKeepCalls
SYMMETRY TaskSymmetry
CHECK_DEADLOCK FALSE
