CONSTANTS
    Disks = {d1, d2}
    FsNames <- NestedNames
    NumEntries = 2
    IdSpace = 3
    MaxDeploys = 2
    MayBeKilled = FALSE
    MayFailWrite = FALSE
    Unread <- NoMemory
    None = None
SPECIFICATION Spec
INVARIANTS ClaimsItsOwnId
