SPECIFICATION Spec
CONSTANTS
    Procs = {p1, p2}
    Nobody = Nobody
    Inums = {1, 2, 3, 4}
    Root = 1
    Names <- MCNames
    Calls <- MCCalls
    Disk <- MCDisk
    Starts = {1, 3}
    MaxCalls = 4
    p1 = p1
    p2 = p2
SYMMETRY Perms
INVARIANT TreeShape NoLockCycle
CHECK_DEADLOCK FALSE
