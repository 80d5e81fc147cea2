CONSTANTS
    s1 = s1
    s2 = s2
    f1 = f1
    f2 = f2
    f3 = f3
    Sockets = {s1}
    Fds = {f1, f2}
    Listener = Listener
    Timer = Timer
    MsgLen = 1
    RespLen = 2
    SndBuf = 1
    IdleLimit = 1
    MaxEvents = 3
    AcceptMayFail = FALSE
    MaxSent <- OneSender
SPECIFICATION Spec
PROPERTIES
    HalfCloseCompletes
CHECK_DEADLOCK FALSE
