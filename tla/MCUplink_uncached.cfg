CONSTANTS
    N = 3
    MaxSize = 1
    ReadLens = {1}
    Payloads = {p, q}
    Junk = Junk
    Cached = FALSE
    Apis = {"direct"}
    Calls = {"read", "nonblock", "select"}
    MaxPackets = 4
    MaxFaults = 1
SPECIFICATION FairSpec
INVARIANTS TypeOK PollKept NoLostWakeup SlotExclusion RingHoldsPending Delivered
PROPERTIES ImplementsFifo EventuallyDelivered
