CONSTANTS
    ITERATION_COUNT = 3
    MAX_RECV_LATENCIES = 3
    PacketSizes = 2
    Rounds = 3
    Capacity = 2
    MaxSignals = 4
SPECIFICATION FairSpec
INVARIANTS TypeOK MeasurementsOwn
PROPERTIES PhasesMatch TestEnds
CHECK_DEADLOCK FALSE
