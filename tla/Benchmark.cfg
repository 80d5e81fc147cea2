SPECIFICATION FairSpec
CONSTANTS
    Workers = {w1, w2}
    Main = main
    Free = free
    Requests = 2
    FrameLen = 2
    Latencies = {1, 3}
INVARIANTS
    TypeOK
    GateHolds
    NoMissedNotify
    ResultsAddUp
    MedianReported
PROPERTIES
    BenchmarkEnds
CHECK_DEADLOCK FALSE
