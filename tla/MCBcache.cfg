SPECIFICATION FairSpec
CONSTANTS
    p1 = p1
    p2 = p2
    Procs = {p1, p2}
    b1 = b1
    b2 = b2
    Bufs = {b1, b2}
    c1 = c1
    c2 = c2
    c3 = c3
    Blocks = {c1, c2, c3}
    Vals = {0, 1}
    Zero = 0
    NoProc = NoProc
    NoBlock = NoBlock
    NoBuf = NoBuf
\* bget() panics when every buffer is in use
CHECK_DEADLOCK FALSE
INVARIANTS OneBufferPerBlock RefsCounted
PROPERTIES IsStore SleepersTryAgain
