SPECIFICATION FairSpec
CONSTANTS
    Servers = {s1, s2}
    Conns = {c1, c2, c3}
    Ports = {p1, p2}
    None = None
    MaxFds = 4
    MaxClients = 1
    Backlog = 1
INVARIANTS
    ServerTypeOK
    TestersFindServer
PROPERTIES
    PortTakenByLeftovers
    
    PendingAccepted
CHECK_DEADLOCK FALSE
