SPECIFICATION Spec
CONSTANTS
    r1 = r1
    r2 = r2
    w1 = w1
    w2 = w2
    Readers = {r1, r2}
    Writers = {w1, w2}
    PIPESIZE = 2
    Wrap = 4
    MaxN = 3
    MaxBytes = 4
    MaxKills = 1
    NoProc = NoProc
SYMMETRY Symmetry
\* every process may have closed its end
CHECK_DEADLOCK FALSE
INVARIANTS RingHoldsStream NobodyForgotten
