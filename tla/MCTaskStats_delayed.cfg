CONSTANTS
    Backlog = 4
    SendDelay = 2
    Capacity = 1
    Wrap = 13
    MaxStep = 2
    MaxRuns = 10
SPECIFICATION Spec
INVARIANTS TypeOK RecordsTrue RecordsOnce MissedExplained
CHECK_DEADLOCK FALSE
