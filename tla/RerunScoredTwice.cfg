SPECIFICATION ForwardSpec
CONSTANTS
    LastRunDay = 3
    NavDays = {1, 2, 3}
    Horizon = 1
    NavAppendDays = 1
    TimelineDays = 2
    Engines = {9, 10}
    Biases3 = {"ADD_BIAS", "none"}
    MaxForwardRuns = 3
INVARIANT EachDayIsScoredOnce
CHECK_DEADLOCK FALSE
