CONSTANTS
    Names <- AllLengths
    Counters <- SomeCounters
    RecordedIds = {0, 7}
    MaxNameLen = 30
    MayRestart = TRUE
    None = None
SPECIFICATION Spec
INVARIANTS IInv OneWordInFlight NameArrivesWhole NoMutualWait ReadyMeansMounted CountedIsRecorded
PROPERTIES SessionEnds ImplementsDfsBoot
CHECK_DEADLOCK FALSE
