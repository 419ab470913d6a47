CONSTANTS
    LastCluster = 8
    W = 9
    R = 3
    S = 2
    RootLen = 1
    Names = {"FS32-DFSCFG", "kernel"}
    Cfg = "FS32-DFSCFG"
    NoName = "none"
    Sizes = {0, 1, 3}
    Volumes <- LongNameVolumes
    Tables <- OneTable
    Junk <- JunkWords
    MayLosePower = FALSE
SPECIFICATION Spec
INVARIANT ListingAgrees
