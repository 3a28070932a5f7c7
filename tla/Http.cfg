SPECIFICATION FairSpec
CONSTANTS
    c1 = c1
    c2 = c2
    Connections = {c1, c2}
    Requests <- AnyAndOne
    Fds = {4, 5}
    None = None
CHECK_DEADLOCK FALSE
INVARIANTS TypeOK OwnSocket ReadBeforeAnswer
PROPERTIES ImplementsService HandlersReturn
