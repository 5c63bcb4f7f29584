SPECIFICATION RequestsSpec
CONSTANTS
    Setups <- MCSetups
    Nodes = {1, 2, 3}
    Owners <- MCOwners
    Rack <- MCRack
    Replicas = 3
    KeySetups <- AllCalls
    QueryPreds <- AllPreds
    QueryUdfs <- AllUdfs
    QueryOpLists <- AllOpLists
INVARIANTS
    EveryRequestFits
    RequestsMeanRecords
    BatchAnswers
    QueryResumed
CHECK_DEADLOCK FALSE
