CONSTANTS
    Delays <- FutureDelays
    Intervals = {0, 1}
    IdlePeriod = 2
    SlowCallbacks = TRUE
    NoTimer = NoTimer
    SeqSpan = 8
    MaxTimers = 2
    MaxLate = 2
SPECIFICATION FairSpec
PROPERTIES
    IdleCheckRecurs
