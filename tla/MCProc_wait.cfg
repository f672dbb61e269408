SPECIFICATION FairSpec
CONSTANTS
    c1 = c1
    CPUs = {c1}
    NPROC = 3
    KillPids = {2}
    MaxPid = 3
\* init's exit stops the kernel
CHECK_DEADLOCK FALSE
PROPERTY WaitReturns
