SPECIFICATION Spec
CONSTANTS
    Path <- MCFlatPath
    Full <- MCNone
    Long <- MCNone
    CutTo <- MCNoCut
    Archives <- MCFlatArchives
    Byte = {x}
    Nul = x
    MaxFileSize = 1
    MaxFiles = 2
    MaxDirs = 1
    MaxRows = 3
    AttrPath <- MCFlatAttrPath
INVARIANTS
    TypeOK
PROPERTIES
    WritesKept
    OthersLeftAlone
    NoneExtended
CHECK_DEADLOCK FALSE
