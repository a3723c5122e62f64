SPECIFICATION FairSpec
CONSTANTS
    Handlers = {active, h1, h2}
    Active = active
    Procs = {p1, p2}
    Ids = {i1, i2}
    None = None
    SplitAbove = 1
    MergeBelow = 2
INVARIANTS
    TypeOK
    OneOwner
    NobodyStranded
    OneThreadPerHandler
    ChainComplete
    NoDangling
    RegistryAgrees
PROPERTIES
    GoneAreClosed
    MergedArePruned
