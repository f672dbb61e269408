SPECIFICATION FairSpec
CONSTANTS
    p1 = p1
    p2 = p2
    p3 = p3
    Procs = {p1, p2, p3}
    NUM = 7
    Wrap = 7
    MaxKills = 1
    Answers = {0, 1}
    Nobody = Nobody
    Intr = Intr
INVARIANTS ChainsPartition DmaSafe
PROPERTIES RequestsFinish DescWaitersRetry
\* the driver panics when the device reports an error
CHECK_DEADLOCK FALSE
