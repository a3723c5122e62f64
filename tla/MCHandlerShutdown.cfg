SPECIFICATION FairShutdownSpec
CONSTANTS
    Handlers = {active, h1}
    Active = active
    Procs = {p1, p2}
    Ids = {i1, i2}
    None = None
    SplitAbove = 1
    MergeBelow = 2
INVARIANT ShutdownInv
PROPERTIES
    OnlyUnservedIsDeleted
    StoppedThreadsEnd
CHECK_DEADLOCK FALSE
