CONSTANTS
    Cap <- MCCap
    Multiplier <- MCMultiplier
    Iterations = 2
    CsvPeriods = 1
    MaxSignals = 1
    IdLimit = 4
    AppWaits = FALSE
SPECIFICATION FairSpec
PROPERTIES SchedulingStarts
CHECK_DEADLOCK FALSE
