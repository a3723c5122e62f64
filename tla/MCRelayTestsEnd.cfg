SPECIFICATION FairTestSpec
CONSTANTS
    Conns = {c1, c2}
    Workers = {w1}
    Acceptor = acceptor
    NoConn = NoConn
    NoThread = NoThread
    FrameLengths = {3}
    BytesToWrite = 2
    Uninitialised = {0}
    MaxReads <- Unbounded
    Clients = {k1, k2}
    Work <- OneRelay
    Times = 1
    Length = 3
PROPERTY TestsEnd
CHECK_DEADLOCK FALSE
