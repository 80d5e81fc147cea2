CONSTANTS
    s1 = s1
    s2 = s2
    f1 = f1
    f2 = f2
    f3 = f3
    Sockets = {s1, s2}
    Fds = {f1, f2, f3}
    Listener = Listener
    Timer = Timer
    MsgLen = 2
    RespLen = 3
    SndBuf = 1
    IdleLimit = 1
    MaxEvents = 3
    AcceptMayFail = TRUE
    MaxSent <- TwoAndOne
SYMMETRY FdSymmetry
SPECIFICATION Spec
INVARIANTS
    TypeOK
    TablesAgree
    WriteInterestIffPending
    OutputMatchesInput
PROPERTIES
    ClosedForCause
    GracefulCloseAnswersAll
CHECK_DEADLOCK FALSE
