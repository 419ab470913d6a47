CONSTANTS
    Disks = {d1, d2}
    FsNames <- ApartNames
    NumEntries = 2
    IdSpace = 3
    MaxDeploys = 2
    MayBeKilled = TRUE
    MayFailWrite = TRUE
    Unread <- Zeros
    None = None
SPECIFICATION Spec
INVARIANTS IInv UniqueIds NoIdSkipped ToldIsRecorded
PROPERTIES RootNeverRegresses ImplementsRegistry DeployEnds
