SPECIFICATION Spec
CONSTANTS
    log1 = log1
    data1 = data1
    link2 = link2
    run1 = run1
    run2 = run2
    A = A
    B = B
    X = X
    Absent = Absent
    Junk = Junk
    Contents = {A, B, X}
    Files <- MCFiles
    Runs <- MCRuns
    Paths <- MCPaths
    Order <- MCOrder
    RunOrder <- MCRunOrder
    RunOf <- MCRunOf
    Dst <- MCDst
    Part <- MCPart
    Original <- MCOriginal
    Links = {link2}
    Logs <- MCLogs
    Artifacts <- MCLogs
    Occupied = {}
    Modes = {"copy", "move"}
    Wants = {TRUE, FALSE}
    Plans <- MCEdited
    DerivedPlan = TRUE
    LiveSource = FALSE
    FlushEvery = 2
    MaxCrashes = 1
    MaxFaults = 2
    MaxEdits = 1
CHECK_DEADLOCK FALSE
INVARIANTS
    NothingLost
    LedgerTruth
    OkMeansSettled
PROPERTIES
    NeverOverwrites
    UnlinkOnlyCopied
    ImplementsCustody
