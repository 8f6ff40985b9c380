CONSTANTS
    Fields = {timestamp, prevUpdateTime, variables}
    Cached = FALSE
    Coherent = TRUE
    MaxUpdates = 4
SPECIFICATION FairSpec
INVARIANTS TypeOK NoTornSnapshot
PROPERTIES SnapshotsAdvance LastUpdateSeen
