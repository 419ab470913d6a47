CONSTANTS
    NumBlocks = 2
    BlockSize = 2
    AddrSpace = 4
    Values = {v1, v2}
    Torn = Torn
    MaxTries = 2
SPECIFICATION Spec
INVARIANTS IInv SuccessIsTrue ModeAgrees ClockFits FailsForCause
PROPERTIES CallsEnd ImplementsBlockDevice
