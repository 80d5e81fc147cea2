CONSTANTS
    Delays <- FutureDelays
    Intervals = {0, 1}
    IdlePeriod = 2
    SlowCallbacks = FALSE
    NoTimer = NoTimer
    SeqSpan = 8
    MaxTimers = 3
    MaxLate = 2
SPECIFICATION FairSpec
INVARIANTS
    TimerfdCoversHeap
PROPERTIES
    TimersFire
