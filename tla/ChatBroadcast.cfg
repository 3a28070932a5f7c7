CONSTANTS
    Conns = {c1, c2}
    Workers = {w1, w2}
    Fds = {4, 5}
    None = None
    MsgWords = 2
    RecvWords = 3
    Kinds = {"CHAT", "QUIT"}
    MaxMsgs = 3
SPECIFICATION FairSpec
PROPERTY BroadcastReachesAll
CHECK_DEADLOCK FALSE
