SPECIFICATION Spec
CONSTANTS
    p1 = p1
    p2 = p2
    g1 = g1
    Procs = {p1, p2}
    First = p1
    NFILE = 3
    NOFILE = 2
    Pages = {g1}
INVARIANTS RefsCounted PipeEnds
