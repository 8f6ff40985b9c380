CONSTANTS
    Fields = {timestamp, prevUpdateTime, variables}
    Cached = TRUE
    Coherent = TRUE
    MaxUpdates = 4
SPECIFICATION Spec
INVARIANTS NoTornSnapshot
