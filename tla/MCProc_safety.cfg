SPECIFICATION Spec
CONSTANTS
    c1 = c1
    c2 = c2
    CPUs = {c1, c2}
    NPROC = 3
    KillPids = {3}
    MaxPid = 4
SYMMETRY Symmetry
\* init's exit stops the kernel
CHECK_DEADLOCK FALSE
INVARIANTS StackOwned FreeSlotIdle NoMissedExit ParentAlive
