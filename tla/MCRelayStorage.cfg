SPECIFICATION FairSpec
CONSTANTS
    c1 = c1
    c2 = c2
    c3 = c3
    Conns = {c1, c2}
    Workers = {w1, w2}
    Acceptor = acceptor
    NoConn = NoConn
    NoThread = NoThread
    FrameLengths = {3}
    BytesToWrite = 2
    Uninitialised = {0}
    MaxReads <- TwoShortTalkers
INVARIANTS
    TypeOK
    PinnedWhileUsed
    RegistryIsLive
    DibsCoverHolders
    LastOneFrees
    WritesToOpenSocket
    NeverRefused
PROPERTIES
    ImplementsClientLifetime
    CallsEnd
