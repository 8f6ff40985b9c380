CONSTANTS
    N = 2
    MaxSize = 1
    ReadLens = {1}
    Payloads = {p, q}
    Junk = Junk
    Cached = TRUE
    Apis = {"write"}
    Calls = {"read"}
    MaxPackets = 3
    MaxFaults = 1
SPECIFICATION FairSpec
PROPERTY EventuallyDelivered
