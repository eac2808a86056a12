SPECIFICATION FairSpec
CONSTANTS
    t1 = t1
    t2 = t2
    k1 = k1
    k2 = k2
    Tabs = {t1, t2}
    Keys = {k1, k2}
    Start = k1
    QueueMax = 2
    MaxMsgs = 2
    MaxConns = 1
    MaxProgress = 0
    MaxActs = 1
PROPERTIES KeepsPromise SessionsSettle
CHECK_DEADLOCK FALSE
