SPECIFICATION Spec
CONSTANTS
    Procs = {p1, p2}
    Specs = {s1}
    Files = {f}
    Contents = {A, B}
    None = None
    Failed = Failed
    Torn = Torn
    Unread = Unread
    Keep = 1
    MaxAge = 0
    LiveSource = FALSE
    MaxPersists = 3
    MaxEdits = 1
    MaxCrashes = 1
    MaxFaults = 1
    MaxGcs = 1
SYMMETRY Interchangeable
CHECK_DEADLOCK FALSE
INVARIANTS
    GraphTrue
    ServedTrue
