CONSTANTS
    Explored = {"graph"}
    off = off None = None
    Downloaders = {p1, p2} Tarred = {f1, f2}
    RequestFaults = 1 DownloadCrashes = 2 MaxResolves = 4
    MaxRemovals = 1 RemoverDies = FALSE
    proc = p1 source = s1 Files = {f1, f2} Contents = {A, B}
    Failed = failing Torn = torn Unread = unread Keep = 1 MaxAge = 1 LiveSource = TRUE
    MaxPersists = 3 MaxEdits = 2 MaxCrashes = 1 MaxFaults = 1
    Order <- SmallOrder Registry = reg Items <- Found Namespace <- NamespaceOf Kind <- KindOf
    HitSize <- SizeOfHit DetailSize <- SizeOfDetail IdSize <- SizeOfIds
    EnvelopeSize = 70 ActionSize = 3 ErrorSize = 4 LabelSize = 2 Suggested = 2
    Limit = 3 Oversample = 1 RrfK = 60 Unit = 3782 Budgets = {60, 99}
    KindFilters <- KindsAsked NamespaceFilters <- NamespacesAsked NoFilter = any
    MaxFound = 2 SearchFaults = 1
    Paths <- SmallPaths Module <- ModuleOf PackageFiles = {"I"} TestFiles = {"T"}
    Subject <- SubjectOf Private = {"_w"} Programs <- SmallPrograms Scopes <- Governed
    Provides <- Provided MaxErrors = 1 Lexical <- Matches Pool = 3 Limits = {1, 4} Depths = {1, 2}
    KindOrder <- Kinds KindPrior <- PriorOf WExported = 10000 WCovered = 8000
    WLexical = 15000 WCallers <- WeightOfCallers
    Documents <- SmallDocuments Slug <- SlugOfTitle
    Inventory <- SmallInventory Asked <- NamesAsked Allowlists <- SmallScopes Family <- SmallFamily
    RolesOf <- RolesFilled Tasks <- TasksAsked Up <- UpAtOnce Hints <- HintsOfRole
    CardSize = 60 GuideSize = 50 PageSize = 150 Ellipsis = 17 PageBudgets = {110, 420}
    Unset = unset MaxSnaps = 2
    ShortNames = FALSE Namesakes = FALSE
    any = any
    reg = reg src1 = src1 src2 = src2 r1 = r1 r2 = r2 a1 = a1 a2 = a2 b1 = b1
    sym = sym cap = cap ns = ns
SPECIFICATION Spec
INVARIANT RelativeImportsLinked
CHECK_DEADLOCK FALSE
