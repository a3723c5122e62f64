SPECIFICATION Spec
CONSTANTS
    IdSpace = 5
    Sockets = {s1, s2}
    Refused = Refused
INVARIANTS
    TypeOK
    ProbingEnds
PROPERTY
    ImplementsIdPool
