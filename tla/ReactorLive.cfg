CONSTANTS
    s1 = s1
    s2 = s2
    f1 = f1
    f2 = f2
    f3 = f3
    Sockets = {s1, s2}
    Fds = {f1, f2, f3}
    Listener = Listener
    Timer = Timer
    MsgLen = 1
    RespLen = 2
    SndBuf = 1
    IdleLimit = 0
    MaxEvents = 4
    AcceptMayFail = TRUE
    MaxSent <- OneSender
SPECIFICATION FairSpec
PROPERTIES
    RequestsAnswered
    DoomedConnectionsReaped
CHECK_DEADLOCK FALSE
