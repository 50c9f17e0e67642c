CONSTANTS
    sim = sim
    src = src
    f1 = f1
    f2 = f2
    c1 = c1
    Order <- MCOrder
    Watched <- MCWatched
    Files = {f1, f2}
    Callers = {c1}
    Edited <- MCWatched
    MaxEdits = 2
    MaxFaults = 1
    MaxServes = 1
    JoinWaits = TRUE
    Drains = TRUE
    Quiet = TRUE
SPECIFICATION FairSpec
INVARIANTS ClosedIsClosed HandlesBack PageOfRef
PROPERTY WatchConverges
CHECK_DEADLOCK FALSE
