SPECIFICATION Spec
CONSTANTS
    Threads = {t1, t2, t3}
    Ids = {a, b}
    SerialClose = FALSE
    MaxOpens = 4
    MaxFaults = 0
CHECK_DEADLOCK FALSE
INVARIANTS
    OneStagePerId
