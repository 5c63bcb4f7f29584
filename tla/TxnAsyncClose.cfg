SPECIFICATION Spec
CONSTANTS
    Key = {k1, k2}
    Async = TRUE
    AbortInDoubt = FALSE
    MaxVersion = 2
    MaxFaults = 1
INVARIANTS
    Covered
