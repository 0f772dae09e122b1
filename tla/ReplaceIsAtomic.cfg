CONSTANTS
    a = a
    b = b
    Proc <- TwoProcs
    Compactor <- TwoProcs
    Writer <- OnlyA
    File <- Inodes
    None = None
    Partial = Partial
SPECIFICATION Spec
PROPERTY
    ReplaceIsAtomic
