SPECIFICATION Spec
CONSTANTS
    p1 = p1
    p2 = p2
    p3 = p3
    a = a
    Procs = {p1, p2, p3}
    Names = {a}
    NInodes = 3
    NINODE = 2
    Nobody = Nobody
SYMMETRY Symmetry
INVARIANTS EntriesCurrent LinksCounted InUseIsAllocated IputWontBlock
\* iget() panics when every entry is in use
CHECK_DEADLOCK FALSE
