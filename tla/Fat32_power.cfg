CONSTANTS
    LastCluster = 7
    W = 7
    R = 2
    S = 2
    RootLen = 1
    Names = {"FS32-DFSCFG", "kernel"}
    Cfg = "FS32-DFSCFG"
    NoName = "none"
    Sizes = {0, 3}
    Volumes <- SoundVolumes
    Tables <- OneTable
    Junk <- JunkWords
    MayLosePower = TRUE
SPECIFICATION Spec
INVARIANTS IInv Sound SizeUnlessFull ConfigFoundAgain
PROPERTIES ImplementsFileStore FilesKept
