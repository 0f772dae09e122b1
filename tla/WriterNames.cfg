CONSTANTS
    x = x
    Names = {1, 2}
    PathSize = 2
    Bytes <- OneByte
    Alignment = 1
    MaxId = 3
    DiskSize = 6
    Chunk = 3
    RawPaths <- NamePaths
    Data <- NoData
    MaxDirRows = 3
SPECIFICATION Spec
INVARIANTS
    IdsUnique
    RowsReferenced
    SearchIsScan
    NamesAgree
    IdsAgree
PROPERTIES
    IdsNeverReused
