SPECIFICATION TxnSpec
CONSTANTS
    Key = {k1, k2}
    Async = FALSE
    AbortInDoubt = FALSE
    MaxVersion = 2
    MaxFaults = 2
    ReplySetups <- AllReplies
INVARIANTS
    AllOrNothing
    CommitHolds
    AbortHolds
    Covered
    AsyncHolds
    ToldAsSent
PROPERTIES
    ReadsAreSnapshot
    KeepsSets
    EventuallyResolved
CHECK_DEADLOCK FALSE
