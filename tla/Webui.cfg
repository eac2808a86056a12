SPECIFICATION Spec
CONSTANTS
    t1 = t1
    t2 = t2
    k1 = k1
    k2 = k2
    Tabs = {t1, t2}
    Keys = {k1}
    Start = k1
    QueueMax = 2
    MaxMsgs = 2
    MaxConns = 2
    MaxProgress = 1
    MaxActs = 1
SYMMETRY TabSymmetry
INVARIANTS OneJobAtATime NobodyWaitsForNothing SteeredOrQueued
CHECK_DEADLOCK FALSE
