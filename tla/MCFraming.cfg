SPECIFICATION Spec
CONSTANTS
    Ids <- MCIds
    Base = 8
    R = 3
    Bodies <- MCBodies
    MaxSent <- TwoAndOne
    BytesToWrite = 512
    NoticeLength = 3
    None = None
INVARIANT FramingInv
PROPERTY ImplementsMessageChannel
CHECK_DEADLOCK FALSE
