SPECIFICATION Spec
CONSTANTS
    p1 = p1
    p2 = p2
    b1 = b1
    b2 = b2
    b3 = b3
    Procs = {p1, p2}
    Blocks = {b1, b2, b3}
    Vals = {0, 1}
    Zero = 0
    LOGSIZE = 4
    MAXOPBLOCKS = 2
    LogBlocks = 4
    OpWrites = 1
    MaxCrashes = 2
    NoBlock = NoBlock
    NotCached = NotCached
SYMMETRY Symmetry
INVARIANTS QuietIsDurable LogInv NoPanic SleeperHasWaker
PROPERTIES Atomic WriteAhead
