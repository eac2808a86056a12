SPECIFICATION DSpec
CONSTANTS
    a = a
    b = b
    Jobs = {a, b}
    Preloaded = {}
    Schedules <- MCSchedules
    CronTimes <- MCCronTimes
    StartTime = 1
    MaxTime = 3
    MaxCalls = 2
    MaxCrashes = 1
SYMMETRY JobSymmetry
INVARIANTS  TimerCovers OneShotPerArming FireSpacing RequestHasFlush 
CHECK_DEADLOCK FALSE
