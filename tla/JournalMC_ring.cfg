SPECIFICATION FairSpec
CONSTANTS
    NoPage = NoPage
    Pollers = {p1}
    Types = {"selection", "frame"}
    MaxLen = 2
    Limits = {0, 1, 3}
    MaxEvents = 5
    MaxLosses = 2
    MaxReopens = 1
    KeepCursors = FALSE
INVARIANTS
    NoSilentLoss
    TruncatedIsLoss
PROPERTIES
    CatchesUp
    ImplementsFeed
