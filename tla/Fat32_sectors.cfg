CONSTANTS
    LastCluster = 17
    W = 4
    R = 2
    S = 2
    RootLen = 1
    Names = {"FS32-DFSCFG", "kernel"}
    Cfg = "FS32-DFSCFG"
    NoName = "none"
    Sizes = {0, 1, 3}
    Volumes <- LargeVolumes
    Tables <- OneTable
    Junk <- JunkWords
    MayLosePower = FALSE
SPECIFICATION Spec
INVARIANT GivenIsFree
