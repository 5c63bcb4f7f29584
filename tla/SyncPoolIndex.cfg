SPECIFICATION NodeSpec
CONSTANTS
    Thread = {t1, t2, t3}
    Configs <- ThreePools
    MaxFaults = 2
    Tokens = {1}
    SessionSetups = {}
INVARIANTS
    InRange
