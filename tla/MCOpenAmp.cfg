CONSTANTS
    PACKET_BUFFER_SIZE = 2
    TxBuffers = 1
    Ticks = 1
    MaxMessages = 3
SPECIFICATION FairSpec
INVARIANTS TypeOK InOrder BufferHoldsWaiting
PROPERTIES DropsJustified EventuallyHandled
CHECK_DEADLOCK FALSE
