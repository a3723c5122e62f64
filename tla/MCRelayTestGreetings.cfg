SPECIFICATION FairTestSpec
CONSTANTS
    Conns = {c1, c2, c3, c4}
    Workers = {w1, w2}
    Acceptor = acceptor
    NoConn = NoConn
    NoThread = NoThread
    FrameLengths = {3}
    BytesToWrite = 2
    Uninitialised = {0}
    MaxReads <- Unbounded
    Clients = {k1, k2}
    Work <- OneReconnect
    Times = 1
    Length = 3
PROPERTY GreetingsArrive
CHECK_DEADLOCK FALSE
