SPECIFICATION Spec
CONSTANTS
    Path <- MCPath
    Full <- MCFull
    Long <- MCLong
    CutTo <- MCCutTo
    Archives <- MCArchives
    Byte = {x}
    Nul = x
    MaxFileSize = 1
    MaxFiles = 2
    MaxDirs = 2
    MaxRows = 3
    AttrPath <- MCNone
INVARIANTS
    TreeSound
    InodesSound
    FsInv
    ParentsAgree
PROPERTIES
    WritesKept
    OthersLeftAlone
    ReadOnlyKept
CHECK_DEADLOCK FALSE
