CONSTANTS
    Programs <- SomePrograms
    Texts <- OneText
    Stale <- SomeStale
    Noise = {255}
    WaitLimit = 1
    MaxSize = 1
    MaxChars = 2
    MaxWaiting = 4
    MaxDeploys = 2
    MaxFaults = 1
SPECIFICATION Spec
INVARIANTS IInv HandsOver
PROPERTIES BootEnds Boots ImplementsDfsBoot
CHECK_DEADLOCK FALSE
