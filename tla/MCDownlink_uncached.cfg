CONSTANTS
    N = 2
    MaxSize = 2
    BufSize = 1
    Payloads = {p}
    Junk = Junk
    Cached = FALSE
    Apis = {"read", "direct"}
    MaxPackets = 3
    MaxFaults = 1
SPECIFICATION Spec
INVARIANTS RingHoldsPending
