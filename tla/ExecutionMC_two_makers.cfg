CONSTANTS
    Explored = {"workspace"}
    off = off None = None
    Calls = {c1, c2} Ids = {j1} Schedulers = {Local, Slurm} Clusters = {lab, hpc}
    Profiles <- SmallProfiles SshHosts = {hpc} Tails = {1} Local = Local
    JobFaults = 1 MaxLines = 2 MaxCalls = 2
    Servers = {v1, v2} Places <- SmallPlaces Hosts = {"hpc"} Projects = {"p", "q"}
    Experiments = {"e"} RunIds = {"1", "2"} Params = {"k"} Statuses = {"pending", "done"}
    Sessions <- SmallSessions Cwd <- CwdOf Levels = 32
    MaxRuns = 2 MaxMade = 2 MaxFolders = 3 MaxIngests = 1
    Layers <- SmallLayers Editors = {p1, p2} Dicts = {"sources"} Lists = {"excludes"}
    Scalars = {"watch"} Commands <- SmallCommands Unset = unset MaxCommands = 3 EditorCrashes = 1
    unset = unset
    Slurm = Slurm lab = lab hpc = hpc prod = prod hosted = hosted
SPECIFICATION PartsSpec
PROPERTY NotNested
CHECK_DEADLOCK FALSE
