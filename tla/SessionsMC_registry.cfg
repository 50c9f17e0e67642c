SPECIFICATION FairSpec
CONSTANTS
    Threads = {t1, t2, t3}
    Ids = {a, b}
    SerialClose = TRUE
    MaxOpens = 4
    MaxFaults = 2
CHECK_DEADLOCK FALSE
INVARIANTS
    OneStagePerId
    NoOrphans
PROPERTIES
    ClaimsFreed
