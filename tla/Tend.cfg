SPECIFICATION FairSpec
CONSTANTS
    Hosts = {1, 2, 3}
    Names = {1, 2}
    Replicas = 2
    Seeds <- SeedHosts
    Setups <- AllSetups
    Rack <- Racks
    FailureMax = 2
    Reader = {t1}
    Prompt = TRUE
CHECK_DEADLOCK FALSE
INVARIANTS
    RefsExact
PROPERTY
    EventuallyKnows
