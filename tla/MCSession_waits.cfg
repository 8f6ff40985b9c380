CONSTANTS
    Cap <- MCCap
    Multiplier <- MCMultiplier
    Iterations = 9
    CsvPeriods = 1
    MaxSignals = 1
    IdLimit = 4
    AppWaits = TRUE
SPECIFICATION FairSpec
INVARIANTS TypeOK CommandsKept EffectsSeenInOrder
PROPERTIES SessionEnds
CHECK_DEADLOCK FALSE
