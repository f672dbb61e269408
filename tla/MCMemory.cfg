SPECIFICATION Spec
CONSTANTS
    NPROC = 2
    PGSIZE = 4
    MAXU = 10000
    End = 2
    PHYSTOP = 40
    trampoline = 1
    MAXARG = 3
    MaxSz = 16
    Execs <- MCExecs
    MaxCalls = 4
    Sbrks <- MCSbrks
    Reads <- MCReads
    Lefts <- MCLefts
INVARIANTS PagesAccounted SizeIsMapped CopiesRight
PROPERTY PrivateMemory
\* the bound on calls ends every behaviour
CHECK_DEADLOCK FALSE
