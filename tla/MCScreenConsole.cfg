SPECIFICATION FairSpec
CONSTANTS
    Messages = {m1, m2, m3}
    MaxLines = 2
INVARIANT ConsoleTypeOK
PROPERTIES
    ImplementsPrintQueue
    MessagesAreShown
CHECK_DEADLOCK FALSE
