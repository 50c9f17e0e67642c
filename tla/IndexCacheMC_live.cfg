SPECIFICATION Spec
CONSTANTS
    Procs = {p1}
    Specs = {s1}
    Files = {f}
    Contents = {A, B}
    None = None
    Failed = Failed
    Torn = Torn
    Unread = Unread
    Keep = 1
    MaxAge = 0
    LiveSource = TRUE
    MaxPersists = 4
    MaxEdits = 3
    MaxCrashes = 1
    MaxFaults = 1
    MaxGcs = 0
CHECK_DEADLOCK FALSE
INVARIANT
    GraphTrue
