SPECIFICATION EngineSpec
CONSTANTS
    c1 = c1
    c2 = c2
    c3 = c3
    A = A
    Cmd <- Three
    Cluster = {A}
    ClusterOf <- InThree
    MaxInProcess = 1
    MaxInQueue = 1
    ConnLimit = 1
    MaxRetries = 1
    TotalTimeout = TRUE
    SocketTimeout = FALSE
    Auth = FALSE
    Chained = TRUE
    MaxErrors = 2
    Closing = {}
    OtherLoops = FALSE
    Refusals = FALSE
    MaxFaults = 1
    SocketSetups <- AllSockets
    PipeSetups <- AllPipes
SYMMETRY Alike
INVARIANTS
    WorkConserving
    CountsExact
    ReportedOnce
    HonestInDoubt
    EventsReachCommands
    AnswersMatch
PROPERTIES
    NoOvertaking
CHECK_DEADLOCK FALSE
