CONSTANTS
    a = a
    b = b
    Proc <- TwoProcs
    Compactor <- OnlyA
    Writer <- OnlyB
    File <- Inodes
    None = None
    Partial = Partial
SPECIFICATION Spec
PROPERTY
    SyncIsFound
