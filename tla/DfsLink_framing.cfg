CONSTANTS
    Names <- AllLengths
    Counters <- SomeCounters
    RecordedIds = {0, 7}
    MaxNameLen = 30
    MayRestart = FALSE
    None = None
SPECIFICATION Spec
INVARIANTS DummyMeansMounted
CHECK_DEADLOCK FALSE
