SPECIFICATION Spec
CONSTANTS
    FSSIZE = 13
    BSIZE = 2
    NDIRECT = 2
    LOGSIZE = 1
    NINODES = 4
    IPB = 4
    Procs = {p1, p2}
    p1 = p1
    p2 = p2
    Fds = {f1, f2}
    f1 = f1
    f2 = f2
    MAXOPBLOCKS = 6
    Reads = {1}
    Writes = {7}
    MaxCalls = 3
    Images <- MCImages
SYMMETRY Swap
INVARIANTS BlocksOwned CommittedOwned OpFits
PROPERTY OnlyWritten
\* calls are bounded
CHECK_DEADLOCK FALSE
