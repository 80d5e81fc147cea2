CONSTANTS
    s1 = s1
    s2 = s2
    f1 = f1
    f2 = f2
    f3 = f3
    Sockets = {s1, s2, s3}
    Fds = {f1, f2}
    Listener = Listener
    Timer = Timer
    MsgLen = 1
    RespLen = 2
    SndBuf = 1
    IdleLimit = 0
    MaxEvents = 2
    AcceptMayFail = FALSE
    MaxSent <- OneSender
SYMMETRY FdSymmetry
SPECIFICATION Spec
INVARIANTS
    DiesOnlyWhenFull
CHECK_DEADLOCK FALSE
