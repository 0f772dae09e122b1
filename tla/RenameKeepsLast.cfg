CONSTANTS
    Names = {1, 2, 3, 4}
    PathSize = 2
    Data = {1, 2, 3}
    NoData = 0
    Archives <- MCReachable
    Requests <- MCRequests
    Numbered <- MCNumbered
SPECIFICATION Spec
PROPERTIES
    RenameKeepsLast
CHECK_DEADLOCK FALSE
