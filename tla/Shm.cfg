SPECIFICATION FairSpec
CONSTANTS
    Proc = {p1, p2, p3}
    Names = {n1}
    Threshold = 2
    MaxLag = 1
    ReadyWait = 2
    CrashAt = {"off", "wait", "copy", "start", "reset", "init", "sleep", "tend", "removed", "add", "added", "stamp", "clock", "check", "spin", "sync"}
    MasterFails = FALSE
    Running = {p1, p2, p3}
    MaxEvents = 2
CHECK_DEADLOCK FALSE
INVARIANTS
    SecondTenderRaced
PROPERTIES
    EventuallyTended
