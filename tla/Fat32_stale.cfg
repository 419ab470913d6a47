CONSTANTS
    LastCluster = 7
    W = 8
    R = 2
    S = 2
    RootLen = 2
    Names = {"FS32-DFSCFG", "kernel"}
    Cfg = "FS32-DFSCFG"
    NoName = "none"
    Sizes = {0, 1, 3}
    Volumes <- StaleVolumes
    Tables <- AnyTables
    Junk <- JunkWords
    MayLosePower = FALSE
SPECIFICATION Spec
PROPERTIES ImplementsFileStore OnlyItsVolume ComesBack
