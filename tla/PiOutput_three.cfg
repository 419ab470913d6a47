CONSTANTS
    NumPies = 3
    ExitString <- ShortExit
    Chatter = "c"
    Scripts <- SomeScripts
    Rounds = 3
SPECIFICATION Spec
INVARIANTS IInv DoneIsItsOwn NoneLeftOpen
PROPERTIES Ends
CHECK_DEADLOCK FALSE
