CONSTANTS
    Delays <- AnyDelays
    Intervals = {0, 1}
    IdlePeriod = 2
    SlowCallbacks = TRUE
    NoTimer = NoTimer
    SeqSpan = 8
    MaxTimers = 4
    MaxLate = 2
SPECIFICATION Spec
INVARIANTS
    TypeOK
PROPERTIES
    CancelledNeverFires
    FiresOnceAndOnTime
