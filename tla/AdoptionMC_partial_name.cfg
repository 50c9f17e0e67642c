SPECIFICATION Spec
CONSTANTS
    log1 = log1
    data1 = data1
    link2 = link2
    run1 = run1
    run2 = run2
    A = A
    B = B
    X = X
    Absent = Absent
    Junk = Junk
    Contents = {A, B, X}
    Files <- MCFiles
    Runs <- MCRuns
    Paths <- MCPaths
    Order <- MCOrder
    RunOrder <- MCRunOrder
    RunOf <- MCRunOf
    Dst <- MCDstPartial
    Part <- MCPartPartial
    Original <- MCOriginal
    Links = {}
    Logs <- MCLogs
    Artifacts <- MCLogs
    Occupied = {}
    Modes = {"move"}
    Wants = {TRUE, FALSE}
    Plans <- MCAll
    DerivedPlan = FALSE
    LiveSource = FALSE
    FlushEvery = 2
    MaxCrashes = 0
    MaxFaults = 0
    MaxEdits = 0
CHECK_DEADLOCK FALSE
PROPERTIES
    NeverOverwrites
