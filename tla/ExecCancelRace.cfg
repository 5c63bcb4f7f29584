SPECIFICATION ScansSpec
CONSTANTS
    Requests <- RefusedQuery
    Cap = 3
    MaxRounds = 1
    NParts = 3
    Node = {n1, n2}
    Scans <- AllScans
    MaxRetries = 1
    MaxFaults = 2
    MaxPages = 7
    Calls <- AllCalls
PROPERTIES
    NotUsedAfterRefusal
CHECK_DEADLOCK FALSE
