------------------------------ MODULE Knowledge ------------------------------
(* Parts of the server that gather and answer and share no state with one    *)
(* another: the downloads of a commit, the index of one process, the answers *)
(* to tasks, the graph and what is asked of it, the parts of a document and  *)
(* the pages of a scope.                                                     *)
(* A behaviour is one of a part; the variables of the others are off.        *)
EXTENDS Integers, Sequences, FiniteSets

CONSTANTS
    Explored,   \* the parts to explore
    off, None,
    \* Downloads
    Downloaders, Tarred, RequestFaults, DownloadCrashes, MaxResolves, MaxRemovals,
    RemoverDies,
    \* IndexCache: one process and one source
    proc, source, Files, Contents, Failed, Torn, Unread, Keep, MaxAge, LiveSource,
    MaxPersists, MaxEdits, MaxCrashes, MaxFaults,
    \* Explore
    Order, Registry, Items, Namespace, Kind, HitSize, DetailSize, IdSize, EnvelopeSize,
    ActionSize, ErrorSize, LabelSize, Suggested, Limit, Oversample, RrfK, Unit,
    Budgets, KindFilters, NamespaceFilters, NoFilter, MaxFound, SearchFaults,
    \* Linking and Queries
    Paths, Module, PackageFiles, TestFiles, Subject, Private, Programs, Scopes, Provides,
    MaxErrors, Lexical, Pool, Limits, Depths, KindOrder, KindPrior, WExported, WCovered,
    WLexical, WCallers,
    \* Markdown
    Documents, Slug(_),
    \* Pages
    Inventory, Asked, Allowlists, Family, RolesOf, Tasks, Up, Hints, CardSize, GuideSize,
    PageSize, Ellipsis, PageBudgets, Unset, MaxSnaps

VARIABLES
    part,  \* the part that is explored
    dRaw, dRoot, dFile, dMarker, dPc, dTodo, dOpen, dGot, dFaults, dCrashes,
    dResolves, dRemovals,
    cTree, cExtract, cGraph, cManifest, cRef, cClock, cPc, cSpec, cKind, cSnap,
    cMade, cStamp, cPuts, cBefore, cAged, cVictims, cResult, cEdits, cCrashes,
    cFaults, cGcs,
    ePhase, eRegistry, eAsk, eFound, eState, eChannels, eFaults, eHits,
    eDetails, eKeptHits, eKeptDetails, eOmitted, eUsed, eTruncated, eClipped,
    gPhase, gSource, gAt, gBroken, gNodes, gRefs, gUnresolved, gEdges, gAnswer,
    mFile, mGraph,
    pScope, pSnap, pFound, pAnswer

(* One process at a time resolves a commit or removes it, and the marker is  *)
(* written at once.                                                          *)
D == INSTANCE Downloads WITH
    Procs <- Downloaders, Files <- Tarred, MaxFaults <- RequestFaults,
    MaxCrashes <- DownloadCrashes, SerialResolve <- TRUE, AtomicMarker <- TRUE,
    raw <- dRaw, root <- dRoot, file <- dFile, marker <- dMarker, pc <- dPc,
    todo <- dTodo, open <- dOpen, got <- dGot, faults <- dFaults,
    crashes <- dCrashes, resolves <- dResolves, removals <- dRemovals
downloadsVars == <<dRaw, dRoot, dFile, dMarker, dPc, dTodo, dOpen, dGot,
                   dFaults, dCrashes, dResolves, dRemovals>>

(* One process uses the cache, for one source, and collects no garbage. *)
C == INSTANCE IndexCache WITH
    Procs <- {proc}, Specs <- {source}, MaxGcs <- 0, tree <- cTree,
    extract <- cExtract, graph <- cGraph, manifest <- cManifest, ref <- cRef, clock <- cClock,
    pc <- cPc, spec <- cSpec, kind <- cKind, snap <- cSnap, made <- cMade, stamp <- cStamp,
    puts <- cPuts, before <- cBefore, aged <- cAged, victims <- cVictims, result <- cResult,
    edits <- cEdits, crashes <- cCrashes, faults <- cFaults, gcs <- cGcs
cacheVars == <<cTree, cExtract, cGraph, cManifest, cRef, cClock, cPc, cSpec,
               cKind, cSnap, cMade, cStamp, cPuts, cBefore, cAged, cVictims,
               cResult, cEdits, cCrashes, cFaults, cGcs>>

E == INSTANCE Explore WITH
    MaxFaults <- SearchFaults, phase <- ePhase, registry <- eRegistry, ask <- eAsk,
    found <- eFound, state <- eState, channels <- eChannels, faults <- eFaults,
    hits <- eHits, details <- eDetails, keptHits <- eKeptHits, keptDetails <- eKeptDetails,
    omitted <- eOmitted, used <- eUsed, truncated <- eTruncated, clipped <- eClipped
exploreVars == <<ePhase, eRegistry, eAsk, eFound, eState, eChannels, eFaults,
                 eHits, eDetails, eKeptHits, eKeptDetails, eOmitted, eUsed,
                 eTruncated, eClipped>>

G == INSTANCE Queries WITH
    phase <- gPhase, source <- gSource, at <- gAt, broken <- gBroken, nodes <- gNodes,
    refs <- gRefs, unresolved <- gUnresolved, edges <- gEdges, answer <- gAnswer
graphVars == <<gPhase, gSource, gAt, gBroken, gNodes, gRefs, gUnresolved, gEdges,
               gAnswer>>

M == INSTANCE Markdown WITH file <- mFile, graph <- mGraph
documentVars == <<mFile, mGraph>>

P == INSTANCE Pages WITH
    Scopes <- Allowlists, Budgets <- PageBudgets,
    scope <- pScope, snap <- pSnap, found <- pFound, answer <- pAnswer
pagesVars == <<pScope, pSnap, pFound, pAnswer>>

partsVars == <<part, downloadsVars, cacheVars, exploreVars, graphVars,
              documentVars, pagesVars>>

------------------------------------------------------------------------------
(* What the parts assume of their constants. *)
ASSUME DownloadsParts == D!DownloadsAssumption
ASSUME CacheParts ==
    /\ None \notin Contents /\ Unread \notin Contents \cup {None}
    /\ Keep \in Nat \ {0} /\ MaxAge \in Nat /\ LiveSource \in BOOLEAN
    /\ {MaxPersists, MaxEdits, MaxCrashes, MaxFaults} \subseteq Nat
ASSUME ExploreParts == E!ExploreAssumption
ASSUME GraphParts == G!LinkingAssumption /\ G!QueriesAssumption
ASSUME DocumentParts == M!MarkdownAssumption
ASSUME PagesParts == P!PagesAssumption
ASSUME CacheMarks == None \notin C!Graphs /\ Failed \notin C!Results \cup {None}

------------------------------------------------------------------------------
(* The variables of the parts that are not explored. *)
OffDownloads ==
    /\ dRaw = off /\ dRoot = off /\ dFile = off /\ dMarker = off /\ dPc = off
    /\ dTodo = off /\ dOpen = off /\ dGot = off /\ dFaults = off /\ dCrashes = off
    /\ dResolves = off /\ dRemovals = off
OffCache ==
    /\ cTree = off /\ cExtract = off /\ cGraph = off /\ cManifest = off
    /\ cRef = off /\ cClock = off /\ cPc = off /\ cSpec = off /\ cKind = off
    /\ cSnap = off /\ cMade = off /\ cStamp = off /\ cPuts = off /\ cBefore = off
    /\ cAged = off /\ cVictims = off /\ cResult = off /\ cEdits = off
    /\ cCrashes = off /\ cFaults = off /\ cGcs = off
OffExplore ==
    /\ ePhase = off /\ eRegistry = off /\ eAsk = off /\ eFound = off /\ eState = off
    /\ eChannels = off /\ eFaults = off /\ eHits = off /\ eDetails = off
    /\ eKeptHits = off /\ eKeptDetails = off /\ eOmitted = off /\ eUsed = off
    /\ eTruncated = off /\ eClipped = off
OffGraph ==
    /\ gPhase = off /\ gSource = off /\ gAt = off /\ gBroken = off /\ gNodes = off
    /\ gRefs = off /\ gUnresolved = off /\ gEdges = off /\ gAnswer = off
OffDocument ==
    /\ mFile = off /\ mGraph = off
OffPages ==
    /\ pScope = off /\ pSnap = off /\ pFound = off /\ pAnswer = off

PartsInit ==
    /\ part \in Explored
    /\ IF part = "downloads" THEN D!Init ELSE OffDownloads
    /\ IF part = "cache" THEN C!Init ELSE OffCache
    /\ IF part = "explore" THEN E!Init ELSE OffExplore
    /\ IF part = "graph" THEN G!InitQueries ELSE OffGraph
    /\ IF part = "document" THEN M!Init ELSE OffDocument
    /\ IF part = "pages" THEN P!Init ELSE OffPages

PartsNext ==
    \/ /\ part = "downloads" /\ D!Next
       /\ UNCHANGED <<part, cacheVars, exploreVars, graphVars, documentVars,
                      pagesVars>>
    \/ /\ part = "cache" /\ C!Next
       /\ UNCHANGED <<part, downloadsVars, exploreVars, graphVars,
                      documentVars, pagesVars>>
    \/ /\ part = "explore" /\ E!Next
       /\ UNCHANGED <<part, downloadsVars, cacheVars, graphVars, documentVars,
                      pagesVars>>
    \/ /\ part = "graph" /\ G!NextQueries
       /\ UNCHANGED <<part, downloadsVars, cacheVars, exploreVars,
                      documentVars, pagesVars>>
    \/ /\ part = "document" /\ M!Next
       /\ UNCHANGED <<part, downloadsVars, cacheVars, exploreVars, graphVars,
                      pagesVars>>
    \/ /\ part = "pages" /\ P!Next
       /\ UNCHANGED <<part, downloadsVars, cacheVars, exploreVars, graphVars,
                      documentVars>>

PartsSpec == PartsInit /\ [][PartsNext]_partsVars

------------------------------------------------------------------------------
(* The properties of the parts; their modules state them. *)

(* Downloads: what is listed under a commit is the whole commit. *)
WholeCommit == part = "downloads" => D!WholeCommit

(* IndexCache: one process finds its own cache whole, wherever it died. *)
NeverFails == part = "cache" => C!NeverFails
(* IndexCache: a ref names a snapshot that is there. *)
RefsKept == part = "cache" => C!RefsKept

(* Explore: the ranking takes turns among the channels. *)
TakesTurns == part = "explore" => E!TakesTurns
(* Explore: a pack is as long as it says. *)
SizeTrue == part = "explore" => E!SizeTrue
(* Explore: a pack keeps to the budget it was asked for. *)
PackFits == part = "explore" => E!PackFits
(* Explore: a pack tells the truth about what was left out of it. *)
PackTrue == part = "explore" => E!PackTrue

(* Linking: a call that is said to be resolved is of what the caller means. *)
CallsMeant == part = "graph" => G!CallsMeant
(* Queries: a rank above a better match is earned by facts of the graph. *)
RankEarned == part = "graph" => G!RankEarned
(* Queries: impact lists what depends on a symbol, each once. *)
ImpactExact == part = "graph" => G!ImpactExact
(* Linking: a relative import of a module is linked to it. *)
RelativeImportsLinked == part = "graph" => G!RelativeImportsLinked

(* Markdown: each line of a document belongs to one part of it. *)
LinesOnce == part = "document" => M!LinesOnce
(* Markdown: and so it is whatever ends the lines. *)
AllLinesOnce == part = "document" => M!AllLinesOnce

(* Pages: nothing is listed that the scope does not let through. *)
ScopeKept == part = "pages" => P!ScopeKept
(* Pages: nor is it named. *)
ScopeHidesOthers == part = "pages" => P!ScopeHidesOthers
(* Pages: the text of compose fits its budget. *)
MarkdownFits == part = "pages" => P!MarkdownFits
(* Pages: what is in the scope can be opened. *)
ScopeMeansSources == part = "pages" => P!ScopeMeansSources
=============================================================================
