SPECIFICATION NodeSpec
CONSTANTS
    Thread = {t1, t2}
    Configs <- AllConfigs
    MaxFaults = 2
    Tokens = {1, 2, 3, 4, 5}
    SessionSetups <- AllSessions
INVARIANTS
    PoolsExact
    HonestInDoubt
    SessionLives
    ReadAsAsked
PROPERTIES
    EventuallyServed
