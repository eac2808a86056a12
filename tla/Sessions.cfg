SPECIFICATION Spec
CONSTANTS
    Tasks = {t1, t2}
    Objs = {o1, o2, o3, o4}
    NoObj = none
    Metas = {plain, m}
    Plain = plain
    LearnInterval = 2
    Clears = TRUE
    WebActs = {"notify", "patch", "delete"}
    MaxMessages = 3
    MaxStale = 0
    MaxEvents = 2
SYMMETRY TaskSymmetry
INVARIANTS  SkippedIsArchived
CHECK_DEADLOCK FALSE
