SPECIFICATION ScansSpec
CONSTANTS
    Requests <- AllRequests
    Cap = 6
    MaxRounds = 3
    NParts = 3
    Node = {n1, n2}
    Scans <- AllScans
    MaxRetries = 1
    MaxFaults = 2
    MaxPages = 7
    Calls <- AllCalls
INVARIANTS
    FreedWhenQuiet
    AnsweredOnce
    NoErrorLost
    NoDuplicates
    NothingForgotten
    OkMeansAll
PROPERTIES
    EventuallyOver
CHECK_DEADLOCK FALSE
