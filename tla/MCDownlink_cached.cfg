CONSTANTS
    N = 3
    MaxSize = 2
    BufSize = 1
    Payloads = {p}
    Junk = Junk
    Cached = TRUE
    Apis = {"read", "direct"}
    MaxPackets = 4
    MaxFaults = 1
SPECIFICATION FairSpec
INVARIANTS TypeOK SlotExclusion Delivered
PROPERTIES ImplementsFifo EventuallyDelivered
