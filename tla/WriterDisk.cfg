CONSTANTS
    x = x
    Names = {1, 2}
    PathSize = 2
    Bytes <- OneByte
    Alignment = 2
    MaxId = 3
    DiskSize = 9
    Chunk = 3
    RawPaths <- DiskPaths
    Data <- SmallData
    MaxDirRows = 2
SPECIFICATION Spec
INVARIANTS
    TypeOK
    BlocksSeparate
    ContentIntact
    CleanMeansReadable
    IInv
    ReadInv
    TailKept
    CheckPasses
    OrphansSeen
    CleanVerifies
PROPERTIES
    DropKeepsReadable
    StoreRefined
