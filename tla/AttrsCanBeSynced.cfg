SPECIFICATION Spec
CONSTANTS
    Path <- MCPath
    Full <- MCFull
    Long <- MCLong
    CutTo <- MCCutTo
    Archives <- MCArchives
    Byte = {x}
    Nul = x
    MaxFileSize = 1
    MaxFiles = 2
    MaxDirs = 2
    MaxRows = 3
    AttrPath <- MCAnyPath
INVARIANTS
    AttrsCanBeSynced
CHECK_DEADLOCK FALSE
