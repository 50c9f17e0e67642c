----------------------------- MODULE Collection -----------------------------
(* The source collection of one server process: its life cycle, the polling  *)
(* watchers of its local sources, and the tool calls that search it and open *)
(* the references they found.  All sources share one engine, hence one       *)
(* connection to the extraction cache (runtime.py, build_collection).        *)
EXTENDS Integers, Sequences, FiniteSets, Functions, TLC

CONSTANTS
    Order,      \* the sources, in the order of their names
    Watched,    \* those that start() gives a watcher
    Files,      \* the files a source may have
    Callers,    \* threads that run tool calls
    Edited,     \* bound: the sources the user edits
    MaxEdits,   \* bound: how often
    MaxFaults,  \* bound: failures of a walk, an index or a read
    MaxServes,  \* bound: times the server enters its lifespan
    JoinWaits,  \* a refresh ends within the timeout of stop's join
    Drains,     \* the server leaves its lifespan when no call is running
    Quiet       \* a file is not edited while a call reads its text

Sources == Range(Order)

ASSUME CollectionAssumption ==
    /\ Order \in Seq(Sources) /\ Watched \subseteq Sources /\ Edited \subseteq Sources
    /\ \A i, j \in DOMAIN Order : Order[i] = Order[j] => i = j
    /\ {MaxEdits, MaxFaults, MaxServes} \subseteq Nat
    /\ {JoinWaits, Drains, Quiet} \subseteq BOOLEAN

VARIABLES
    disk,       \* disk[s][f]: the version of a file, 0 when there is none
    edits, faults,
    published,  \* published[s]: the snapshots whose graph is in the cache
    conn,       \* the engine's connection to the extraction cache is open
    phase,      \* where the lifespan is
    serves, started, closed,
    at,         \* the position of start or close in Order
    wpc,        \* wpc[s]: where the watcher thread is
    wsnap,      \* wsnap[s]: the versions its last snapshot was stat'ed at
    wread,      \* wread[s]: the walk of a refresh: what was stat'ed and read
    stop,       \* stop[s]: its stop event
    cpc, cat,   \* where a call is, and at which source
    handles,    \* handles[c]: the snapshots of the sources it holds open
    refs,       \* the references that agents have been given
    want, page  \* the reference a call opens, and the page it returned

diskVars  == <<disk, edits>>
lifeVars  == <<phase, serves, started, closed, at>>
watchVars == <<wpc, wsnap, wread, stop>>
callVars  == <<cpc, cat, handles, refs, want, page>>
vars == <<diskVars, faults, published, conn, lifeVars, watchVars, callVars>>

(* Variants, each next to what it varies, are bugs that the properties must  *)
(* notice.                                                                   *)

(* A snapshot lists the files there are. *)
Versions == 0..(MaxEdits + 1)
WalkWithGone(s) == disk[s]
Walk(s) == Restrict(disk[s], {f \in Files : disk[s][f] # 0})
Snapshots == UNION {[F -> Versions \ {0}] : F \in SUBSET Files}
Refs == Sources \X Snapshots
NoRef == <<>>

(* stat finds one of the snapshot's files edited or gone; a new file is not *)
(* looked for.                                                              *)
IsStale(s) == \E f \in DOMAIN wsnap[s] : disk[s][f] # wsnap[s][f]

Init ==
    /\ disk = [s \in Sources |-> [f \in Files |-> 1]] /\ edits = 0 /\ faults = 0
    /\ published = [s \in Sources |-> {}] /\ conn = FALSE
    /\ phase = "off" /\ serves = 0 /\ started = FALSE /\ closed = FALSE /\ at = 0
    /\ wpc = [s \in Sources |-> "none"] /\ stop = [s \in Sources |-> FALSE]
    /\ wsnap = [s \in Sources |-> <<>>]
    /\ wread = [s \in Sources |-> [stat |-> <<>>, data |-> <<>>]]
    /\ cpc = [c \in Callers |-> "idle"] /\ cat = [c \in Callers |-> 0]
    /\ handles = [c \in Callers |-> <<>>] /\ refs = {}
    /\ want = [c \in Callers |-> NoRef] /\ page = NoRef

(* The user writes or removes a file.  Versions only grow: they stand for    *)
(* the time and size that stat reports as well as for the content.           *)
Edit(s, f) ==
    /\ s \in Edited /\ edits < MaxEdits /\ edits' = edits + 1
    /\ Quiet => \A c \in Callers : cpc[c] # "reading"
    /\ \E v \in {0, edits + 2} : v # disk[s][f] /\ disk' = [disk EXCEPT ![s][f] = v]
    /\ UNCHANGED <<faults, published, conn, lifeVars, watchVars, callVars>>

Fail == faults < MaxFaults /\ faults' = faults + 1

------------------------------------------------------------------------------
(* Life cycle *)

(* Entering the lifespan.  A collection that was started before, even one    *)
(* that was closed since, returns at once.                                   *)
Start ==
    /\ phase = "off" /\ serves < MaxServes /\ serves' = serves + 1
    /\ started' = TRUE
    /\ phase' = IF started THEN "up" ELSE "starting"
    /\ at' = 1
    /\ UNCHANGED <<diskVars, faults, published, conn, closed, watchVars, callVars>>

(* A source is skipped, its watcher resolves it and starts, or its failure  *)
(* is noted and the others go on.                                           *)
StartWatcher ==
    /\ phase = "starting" /\ at <= Len(Order)
    /\ at' = at + 1
    /\ LET s == Order[at] IN
       \/ /\ s \in Watched
          /\ wsnap' = [wsnap EXCEPT ![s] = Walk(s)]
          /\ wpc' = [wpc EXCEPT ![s] = "wait"]
          /\ UNCHANGED faults
       \/ s \in Watched /\ Fail /\ UNCHANGED <<wsnap, wpc>>
       \/ s \notin Watched /\ UNCHANGED <<faults, wsnap, wpc>>
    /\ UNCHANGED <<diskVars, published, conn, phase, serves, started, closed,
                   wread, stop, callVars>>

Serve ==
    /\ phase = "starting" /\ at > Len(Order) /\ phase' = "up"
    /\ UNCHANGED <<diskVars, faults, published, conn, serves, started, closed, at,
                   watchVars, callVars>>

(* Leaving the lifespan.  A collection is closed once. *)
BeginClose ==
    /\ phase = "up" /\ (Drains => \A c \in Callers : cpc[c] = "idle")
    /\ closed' = TRUE
    /\ phase' = IF closed THEN "off" ELSE "stopping"
    /\ at' = Len(Order)
    /\ UNCHANGED <<diskVars, faults, published, conn, serves, started, watchVars, callVars>>

SetStop ==
    /\ phase = "stopping" /\ at > 0 /\ wpc[Order[at]] # "none" /\ ~stop[Order[at]]
    /\ stop' = [stop EXCEPT ![Order[at]] = TRUE]
    /\ UNCHANGED <<diskVars, faults, published, conn, lifeVars, wpc, wsnap, wread, callVars>>

Refreshing(s) == wpc[s] \in {"read", "build"}

(* The thread ended, or the join timed out under a running refresh. *)
Joined(s) == stop[s] /\ (wpc[s] = "done" \/ (~JoinWaits /\ Refreshing(s)))

Join ==
    /\ phase = "stopping" /\ at > 0
    /\ wpc[Order[at]] = "none" \/ Joined(Order[at])
    /\ at' = at - 1
    /\ UNCHANGED <<diskVars, faults, published, conn, phase, serves, started, closed,
                   watchVars, callVars>>

CloseEngineEarly ==
    /\ phase = "stopping"
    /\ handles' = [c \in Callers |-> <<>>] /\ conn' = FALSE
    /\ phase' = "off"
    /\ UNCHANGED <<diskVars, faults, published, serves, started, closed, at, watchVars,
                   cpc, cat, refs, want, page>>

(* The engine closes the read connections it issued and its own. *)
CloseEngine ==
    /\ phase = "stopping" /\ at = 0
    /\ handles' = [c \in Callers |-> <<>>] /\ conn' = FALSE
    /\ phase' = "off"
    /\ UNCHANGED <<diskVars, faults, published, serves, started, closed, at, watchVars,
                   cpc, cat, refs, want, page>>

------------------------------------------------------------------------------
(* Watchers *)

(* An interval passed and the last snapshot is stale: wait for the debounce. *)
Notice(s) ==
    /\ wpc[s] = "wait" /\ ~stop[s] /\ IsStale(s)
    /\ wpc' = [wpc EXCEPT ![s] = "debounce"]
    /\ UNCHANGED <<diskVars, faults, published, conn, lifeVars, wsnap, wread, stop, callVars>>

Exit(s) ==
    /\ wpc[s] \in {"wait", "debounce"} /\ stop[s]
    /\ wpc' = [wpc EXCEPT ![s] = "done"]
    /\ UNCHANGED <<diskVars, faults, published, conn, lifeVars, wsnap, wread, stop, callVars>>

(* The walk of a refresh: each file is stat'ed first and read afterwards. *)
Stat(s) ==
    /\ wpc[s] = "debounce" /\ ~stop[s]
    /\ wread' = [wread EXCEPT ![s].stat = Walk(s)]
    /\ wpc' = [wpc EXCEPT ![s] = "read"]
    /\ UNCHANGED <<diskVars, faults, published, conn, lifeVars, wsnap, stop, callVars>>

(* A file that is gone when it is to be read is left out. *)
ReadFiles(s) ==
    /\ wpc[s] = "read"
    /\ LET there == DOMAIN wread[s].stat \cap DOMAIN Walk(s) IN
       wread' = [wread EXCEPT ![s] = [stat |-> Restrict(wread[s].stat, there),
                                      data |-> Restrict(disk[s], there)]]
    /\ wpc' = [wpc EXCEPT ![s] = "build"]
    /\ UNCHANGED <<diskVars, faults, published, conn, lifeVars, wsnap, stop, callVars>>

RefreshedLate(s) ==
    /\ wpc[s] = "build"
    /\ published' = [published EXCEPT ![s] = @ \cup {wread[s].data}]
    /\ wsnap' = [wsnap EXCEPT ![s] = Walk(s)]
    /\ wpc' = [wpc EXCEPT ![s] = "wait"]
    /\ wread' = [wread EXCEPT ![s].stat = <<>>] /\ conn' = TRUE
    /\ UNCHANGED <<diskVars, faults, lifeVars, stop, callVars>>

Refreshed(s) ==
    /\ wpc[s] = "build"
    /\ published' = [published EXCEPT ![s] = @ \cup {wread[s].data}]
    /\ wsnap' = [wsnap EXCEPT ![s] = wread[s].stat]
    /\ wpc' = [wpc EXCEPT ![s] = "wait"]
    /\ wread' = [wread EXCEPT ![s].stat = <<>>] /\ conn' = TRUE
    /\ UNCHANGED <<diskVars, faults, lifeVars, stop, callVars>>

(* A refresh that raises leaves the old snapshot, which is still stale. *)
RefreshFails(s) ==
    /\ wpc[s] = "build" /\ Fail
    /\ wpc' = [wpc EXCEPT ![s] = "wait"] /\ conn' = TRUE
    /\ UNCHANGED <<diskVars, published, lifeVars, wsnap, wread, stop, callVars>>

------------------------------------------------------------------------------
(* Tool calls *)

(* index(): walk, and build what is not in the cache. *)
Index(s) ==
    /\ published' = [published EXCEPT ![s] = @ \cup {Walk(s)}]
    /\ conn' = (conn \/ Walk(s) \notin published[s])

Search(c) ==
    /\ phase = "up" /\ cpc[c] = "idle"
    /\ cpc' = [cpc EXCEPT ![c] = "search"] /\ cat' = [cat EXCEPT ![c] = 1] /\ page' = NoRef
    /\ UNCHANGED <<diskVars, faults, published, conn, lifeVars, watchVars,
                   handles, refs, want>>

(* packages and info open each source, answer, and close it again. *)
Catalog(c) ==
    /\ phase = "up" /\ cpc[c] = "idle"
    /\ cpc' = [cpc EXCEPT ![c] = "catalog"] /\ cat' = [cat EXCEPT ![c] = 1] /\ page' = NoRef
    /\ UNCHANGED <<diskVars, faults, published, conn, lifeVars, watchVars,
                   handles, refs, want>>

Source(c) == Order[cat[c]]

OpenQuery(c) ==
    /\ cpc[c] \in {"search", "catalog"} /\ cat[c] \in DOMAIN Order
    /\ Index(Source(c))
    /\ handles' = [handles EXCEPT ![c] = (Source(c) :> Walk(Source(c))) @@ @]
    /\ cpc' = [cpc EXCEPT ![c] = IF @ = "search" THEN "rank" ELSE "card"]
    /\ UNCHANGED <<diskVars, faults, lifeVars, watchVars, cat, refs, want, page>>

(* A source that cannot be opened is reported and the others go on. *)
OpenFails(c) ==
    /\ cpc[c] \in {"search", "catalog"} /\ cat[c] \in DOMAIN Order /\ Fail
    /\ cat' = [cat EXCEPT ![c] = @ + 1]
    /\ UNCHANGED <<diskVars, published, conn, lifeVars, watchVars, cpc, handles,
                   refs, want, page>>

(* The hits of one source name its snapshot; its query stays open for the   *)
(* details, also when the search of it raised.                              *)
Rank(c) ==
    /\ cpc[c] = "rank"
    /\ \/ /\ Source(c) \in DOMAIN handles[c]
          /\ refs' = refs \cup {<<Source(c), handles[c][Source(c)]>>} /\ UNCHANGED faults
       \/ Fail /\ UNCHANGED refs
    /\ cpc' = [cpc EXCEPT ![c] = "search"] /\ cat' = [cat EXCEPT ![c] = @ + 1]
    /\ UNCHANGED <<diskVars, published, conn, lifeVars, watchVars, handles, want, page>>

Card(c) ==
    /\ cpc[c] = "card"
    /\ handles' = [handles EXCEPT ![c] = <<>>]
    /\ cpc' = [cpc EXCEPT ![c] = "catalog"] /\ cat' = [cat EXCEPT ![c] = @ + 1]
    /\ UNCHANGED <<diskVars, faults, published, conn, lifeVars, watchVars, refs, want, page>>

(* All queries of a search are closed when its answer is ready. *)
ReturnLast(c) ==
    /\ cpc[c] \in {"search", "catalog"} /\ cat[c] \notin DOMAIN Order
    /\ handles' = [handles EXCEPT ![c] =
                      Restrict(@, DOMAIN @ \ {Order[Len(Order)]})]
    /\ cpc' = [cpc EXCEPT ![c] = "idle"] /\ cat' = [cat EXCEPT ![c] = 0]
    /\ UNCHANGED <<diskVars, faults, published, conn, lifeVars, watchVars, refs, want, page>>

Return(c) ==
    /\ cpc[c] \in {"search", "catalog"} /\ cat[c] \notin DOMAIN Order
    /\ handles' = [handles EXCEPT ![c] = <<>>]
    /\ cpc' = [cpc EXCEPT ![c] = "idle"] /\ cat' = [cat EXCEPT ![c] = 0]
    /\ UNCHANGED <<diskVars, faults, published, conn, lifeVars, watchVars, refs, want, page>>

(* open(ref): a reference to another snapshot than the current one is stale. *)
AnySnapshot(r) == TRUE
Current(r) == r[2] = Walk(r[1])

OpenRef(c, r) ==
    /\ phase = "up" /\ cpc[c] = "idle"
    /\ Index(r[1])
    /\ IF Current(r)
       THEN /\ handles' = [handles EXCEPT ![c] = (r[1] :> Walk(r[1])) @@ @]
            /\ cpc' = [cpc EXCEPT ![c] = "reading"] /\ want' = [want EXCEPT ![c] = r]
       ELSE UNCHANGED <<handles, cpc, want>>
    /\ page' = NoRef
    /\ UNCHANGED <<diskVars, faults, lifeVars, watchVars, cat, refs>>

OpenRefFails(c, r) ==
    /\ phase = "up" /\ cpc[c] = "idle" /\ Fail
    /\ UNCHANGED <<diskVars, published, conn, lifeVars, watchVars, callVars>>

(* The symbol's text is read from the source as it is now. *)
ReadText(c) ==
    /\ cpc[c] = "reading"
    /\ page' = <<want[c], Walk(want[c][1])>>
    /\ handles' = [handles EXCEPT ![c] = <<>>]
    /\ cpc' = [cpc EXCEPT ![c] = "idle"] /\ want' = [want EXCEPT ![c] = NoRef]
    /\ UNCHANGED <<diskVars, faults, published, conn, lifeVars, watchVars, cat, refs>>

------------------------------------------------------------------------------
CloseStep == BeginClose \/ SetStop \/ Join \/ CloseEngine
WatchStep(s) == Notice(s) \/ Exit(s) \/ Stat(s) \/ ReadFiles(s) \/ Refreshed(s)
CallStep(c) == OpenQuery(c) \/ Rank(c) \/ Card(c) \/ Return(c) \/ ReadText(c)

Next ==
    \/ Start \/ StartWatcher \/ Serve \/ CloseStep
    \/ \E s \in Sources : WatchStep(s) \/ RefreshFails(s) \/ \E f \in Files : Edit(s, f)
    \/ \E c \in Callers : \/ Search(c) \/ Catalog(c) \/ CallStep(c) \/ OpenFails(c)
                          \/ \E r \in refs : OpenRef(c, r) \/ OpenRefFails(c, r)

Spec == Init /\ [][Next]_vars

(* Threads run on: the server's own, each watcher's, each call's.  A server *)
(* is not obliged to shut down.                                             *)
FairSpec ==
    /\ Spec
    /\ WF_vars(StartWatcher \/ Serve \/ SetStop \/ Join \/ CloseEngine)
    /\ \A s \in Sources : WF_vars(WatchStep(s))
    /\ \A c \in Callers : WF_vars(CallStep(c))

------------------------------------------------------------------------------
TypeOK ==
    /\ disk \in [Sources -> [Files -> Versions]] /\ edits \in 0..MaxEdits
    /\ faults \in 0..MaxFaults /\ conn \in BOOLEAN
    /\ published \in [Sources -> SUBSET Snapshots]
    /\ phase \in {"off", "starting", "up", "stopping"} /\ serves \in 0..MaxServes
    /\ started \in BOOLEAN /\ closed \in BOOLEAN /\ at \in 0..(Len(Order) + 1)
    /\ wpc \in [Sources -> {"none", "wait", "debounce", "read", "build", "done"}]
    /\ wsnap \in [Sources -> Snapshots] /\ stop \in [Sources -> BOOLEAN]
    /\ wread \in [Sources -> [stat : Snapshots, data : Snapshots]]
    /\ cpc \in [Callers -> {"idle", "search", "rank", "catalog", "card", "reading"}]
    /\ cat \in [Callers -> 0..(Len(Order) + 1)]
    /\ handles \in [Callers -> UNION {[S -> Snapshots] : S \in SUBSET Sources}]
    /\ refs \subseteq Refs /\ want \in [Callers -> Refs \cup {NoRef}]
    /\ page \in (Refs \X Snapshots) \cup {NoRef}

(* When the lifespan is over nothing of it is left: no watcher thread, *)
(* no read connection, no connection to the extraction cache, which a        *)
(* refresh or a call that is still running would open again (index.py:120). *)
ClosedIsClosed ==
    (closed /\ phase = "off") =>
        /\ ~conn /\ \A s \in Sources : wpc[s] \in {"none", "done"}
        /\ \A c \in Callers : handles[c] = <<>>

(* A call that has returned holds no query open, whichever of its sources    *)
(* failed and wherever (index.py:161, 283).                                  *)
HandlesBack == \A c \in Callers : cpc[c] = "idle" => handles[c] = <<>>

(* A page shows the snapshot its reference names: the symbol's lines are cut *)
(* out of the text they were found in (index.py:186, 769).                   *)
PageOfRef == page # NoRef => page[2] = page[1][2]

(* When the edits are over, every running watcher comes to hold a snapshot   *)
(* that is not stale and, if it ever refreshed, published what it read       *)
(* (watch.py:60): an edit during a refresh is seen by the next one.          *)
WatchConverges ==
    <>[](\A s \in Sources : phase = "up" /\ wpc[s] # "none" =>
            ~IsStale(s) /\ (wread[s].data # <<>> => wsnap[s] \in published[s]))

=============================================================================
