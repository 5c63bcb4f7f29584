SPECIFICATION ClientSpec
CONSTANTS
    A = A
    Cmd = {c1, c2}
    Cluster = {A}
    ClusterOf <- InCluster
    MaxInProcess = 1
    MaxInQueue = 0
    ConnLimit = 2
    MaxRetries = 1
    TotalTimeout = TRUE
    SocketTimeout = FALSE
    Auth = TRUE
    Chained = TRUE
    MaxErrors = 2
    Closing = {A}
    OtherLoops = TRUE
    Refusals = FALSE
    MaxFaults = 1
    TaskSetups <- AllTasks
    ConfigSetups <- AllConfigs
INVARIANTS
    NothingUsedAfterClose
    RunsAsFile
PROPERTIES
    BalanceKeepsMinimum
    EverythingEnds
CHECK_DEADLOCK FALSE
