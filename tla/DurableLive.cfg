SPECIFICATION DFairSpec
CONSTANTS
    a = a
    b = b
    Jobs = {a, b}
    Preloaded = {}
    Schedules <- MCTimed
    CronTimes <- MCCronTimes
    StartTime = 1
    MaxTime = 3
    MaxCalls = 2
    MaxCrashes = 0
PROPERTIES DuePicked 
CHECK_DEADLOCK FALSE
