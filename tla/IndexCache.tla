----------------------------- MODULE IndexCache -----------------------------
(***************************************************************************)
(* The index of local sources (src/molmcp/discovery): DiscoveryEngine       *)
(* walks a source, serves its snapshot from the cache or builds a graph    *)
(* file by file and persists it.  Several processes share the cache        *)
(* directory: the extraction table, the snapshot directories and the refs. *)
(* A file is abstracted to what it contains; a snapshot id, the digest of   *)
(* all file hashes, is the function from files to contents that was walked. *)
(***************************************************************************)
EXTENDS Integers, FiniteSets

CONSTANTS
    Procs,          \* processes, each with an engine
    Specs,          \* configured sources
    Files,          \* their files, by relative path
    Contents,       \* what a file may hold
    None,           \* not there; not known yet
    Failed,         \* what a call that raised is said to return
    Torn,           \* a file that was truncated and not rewritten yet
    Unread,         \* a file that could not be read when it was extracted
    Keep,           \* max_snapshots_per_spec
    MaxAge,         \* max_cache_age_days, in persists; 0 keeps everything
    LiveSource,     \* whether sources may be edited while they are indexed
    MaxPersists, MaxEdits, MaxCrashes, MaxFaults, MaxGcs    \* bounds of the runs

ASSUME IndexCacheAssumption ==
    /\ None \notin Contents /\ Unread \notin Contents \cup {None}
    /\ Keep \in Nat \ {0} /\ MaxAge \in Nat /\ LiveSource \in BOOLEAN
    /\ MaxPersists \in Nat /\ MaxEdits \in Nat /\ MaxCrashes \in Nat
    /\ MaxFaults \in Nat /\ MaxGcs \in Nat

VARIABLES
    tree,           \* the files of each source
    extract,        \* code-index.db: the content a payload was extracted from
    graph,          \* graph.db of each snapshot: what each file's nodes come from
    manifest,       \* its manifest.json: [spec, at], or Torn, or None
    ref,            \* refs/<spec>.json: the snapshot it names; None when missing or torn
    clock,          \* time.time(), one tick per persist
    pc, spec, kind, \* of each process: its place and the arguments of the call
    snap,           \* the hashes it has walked
    made,           \* the graph it is building
    stamp,          \* the indexed_at it will write
    puts,           \* its uncommitted rows of the extraction table
    before,         \* the files of the spec's previous snapshot (refresh)
    aged,           \* whether it published into a directory that was there before
    victims,        \* the files its evict has still to remove: <<snapshot, name>>
    result,         \* what its last call returned: [spec, snap, graph, changes]
    edits, crashes, faults, gcs

disk   == <<extract, graph, manifest, ref, clock>>
work   == <<spec, kind, snap, made, stamp, puts, before, aged, victims>>
bounds == <<edits, crashes, faults, gcs>>
vars   == <<tree, extract, graph, manifest, ref, clock, pc, spec, kind, snap, made,
            stamp, puts, before, aged, victims, result, edits, crashes, faults, gcs>>

Snaps    == [Files -> Contents]
Graphs   == [Files -> Contents \cup {Unread}]
Partial  == [Files -> Contents \cup {None, Unread}]
Rows     == [Files -> [Contents -> Contents \cup {None}]]
NoFiles  == [f \in Files |-> None]
Manifests == [spec: Specs, at: 1 .. MaxPersists]
NoRows   == [f \in Files |-> [c \in Contents |-> None]]

Init ==
    /\ tree \in [Specs -> Snaps]
    /\ extract = NoRows
    /\ graph = [n \in Snaps |-> None] /\ manifest = [n \in Snaps |-> None]
    /\ ref = [s \in Specs |-> None] /\ clock = 0
    /\ pc = [p \in Procs |-> "idle"]
    /\ spec = [p \in Procs |-> None] /\ kind = [p \in Procs |-> "none"]
    /\ snap = [p \in Procs |-> NoFiles] /\ made = [p \in Procs |-> NoFiles]
    /\ stamp = [p \in Procs |-> 0] /\ puts = [p \in Procs |-> NoRows]
    /\ before = [p \in Procs |-> None] /\ aged = [p \in Procs |-> FALSE]
    /\ victims = [p \in Procs |-> {}]
    /\ result = [p \in Procs |-> None]
    /\ edits = 0 /\ crashes = 0 /\ faults = 0 /\ gcs = 0

Goto(p, l) == pc' = [pc EXCEPT ![p] = l]

\* The call is over: nothing of it stays in memory.
Forget(p) ==
    /\ pc' = [pc EXCEPT ![p] = "idle"]
    /\ spec' = [spec EXCEPT ![p] = None] /\ kind' = [kind EXCEPT ![p] = "none"]
    /\ snap' = [snap EXCEPT ![p] = NoFiles] /\ made' = [made EXCEPT ![p] = NoFiles]
    /\ stamp' = [stamp EXCEPT ![p] = 0] /\ puts' = [puts EXCEPT ![p] = NoRows]
    /\ before' = [before EXCEPT ![p] = None] /\ aged' = [aged EXCEPT ![p] = FALSE]
    /\ victims' = [victims EXCEPT ![p] = {}]

\* FreshnessTracker.changes: the files that differ.
Changes(old, new) == IF old = None THEN None ELSE {f \in Files : old[f] # new[f]}

Return(p, g) ==
    /\ Forget(p)
    /\ result' = [result EXCEPT ![p] =
                    [spec |-> spec[p], snap |-> snap[p], graph |-> g,
                     changes |-> Changes(before[p], snap[p])]]

Raise(p) ==
    /\ Forget(p)
    /\ result' = [result EXCEPT ![p] = Failed]

-----------------------------------------------------------------------------
(* index and refresh: the walk and the cache *)

\* refresh looks up the previous files first.
Previous(s) == IF ref[s] # None /\ graph[ref[s]] # None THEN ref[s] ELSE None

\* The calls under way that may still take a time stamp.
Unstamped == {q \in Procs : pc[q] # "idle" /\ stamp[q] = 0}

Call(p, s, k) ==
    /\ pc[p] = "idle" /\ Goto(p, "walk")
    /\ clock + Cardinality(Unstamped) < MaxPersists
    /\ spec' = [spec EXCEPT ![p] = s] /\ kind' = [kind EXCEPT ![p] = k]
    /\ before' = [before EXCEPT ![p] = IF k = "refresh" THEN Previous(s) ELSE None]
    /\ result' = [result EXCEPT ![p] = None]
    /\ UNCHANGED <<tree, disk, snap, made, stamp, puts, aged, victims, bounds>>

\* walk_files hashes one file after another.
Walk(p) ==
    /\ pc[p] = "walk"
    /\ \E f \in Files :
         /\ snap[p][f] = None
         /\ snap' = [snap EXCEPT ![p][f] = tree[spec[p]][f]]
    /\ Goto(p, IF snap'[p] \in Snaps THEN "check" ELSE "walk")
    /\ UNCHANGED <<tree, disk, spec, kind, made, stamp, puts, before, aged,
                   victims, result, bounds>>

Readable(n) == manifest[n] \notin {None, Torn}

\* Mutant: a snapshot with a manifest is taken to have a graph.
HasManifest(n) == Readable(n)
\* _cache_is_valid: both files are there and the manifest can be read.
Valid(n) == Readable(n) /\ graph[n] # None

Check(p) ==
    /\ pc[p] = "check"
    /\ Goto(p, IF kind[p] = "index" /\ Valid(snap[p]) THEN "load" ELSE "build")
    /\ UNCHANGED <<tree, disk, work, result, bounds>>

\* load_graph, in a later instant than the check: the directory may be gone.
Load(p) ==
    /\ pc[p] = "load"
    /\ IF graph[snap[p]] # None THEN Return(p, graph[snap[p]]) ELSE Raise(p)
    /\ UNCHANGED <<tree, disk, bounds>>

-----------------------------------------------------------------------------
(* Extractor.extract: file by file, through the extraction table *)

\* The row a process sees: its own uncommitted one or the last commit.
Row(p, f) == IF puts[p][f][snap[p][f]] # None THEN puts[p][f][snap[p][f]]
             ELSE extract[f][snap[p][f]]

Todo(p, f) == pc[p] = "build" /\ made[p][f] = None

\* Mutant: a hit is any row of that path.
AnyRow(p, f) ==
    IF \E c \in Contents : extract[f][c] # None
    THEN extract[f][CHOOSE c \in Contents : extract[f][c] # None] ELSE Row(p, f)
Hit(p, f) == Row(p, f)

Reuse(p, f) ==
    /\ Todo(p, f) /\ Hit(p, f) # None
    /\ made' = [made EXCEPT ![p][f] = Hit(p, f)]
    /\ UNCHANGED <<tree, disk, pc, spec, kind, snap, stamp, puts, before, aged,
                   victims, result, bounds>>

\* SQLite lets one connection write at a time, from its first row to its commit.
Writing(q) == puts[q] # NoRows

\* The file is read again, and the payload is filed under the hash of the walk.
Analyze(p, f) ==
    /\ Todo(p, f) /\ Hit(p, f) = None
    /\ \A q \in Procs \ {p} : ~Writing(q)
    /\ LET now == tree[spec[p]][f] IN
         /\ made' = [made EXCEPT ![p][f] = now]
         /\ puts' = [puts EXCEPT ![p][f][snap[p][f]] = now]
    /\ UNCHANGED <<tree, disk, pc, spec, kind, snap, stamp, before, aged, victims,
                   result, bounds>>

\* The other writer outlasts the busy timeout: OperationalError, uncaught.
Locked(p, f) ==
    /\ Todo(p, f) /\ Hit(p, f) = None
    /\ \E q \in Procs \ {p} : Writing(q)
    /\ Raise(p)
    /\ UNCHANGED <<tree, disk, bounds>>

\* It cannot be read: the graph records the error and goes without it.
CannotRead(p, f) ==
    /\ Todo(p, f) /\ Hit(p, f) = None
    /\ faults < MaxFaults /\ faults' = faults + 1
    /\ made' = [made EXCEPT ![p][f] = Unread]
    /\ UNCHANGED <<tree, disk, pc, spec, kind, snap, stamp, puts, before, aged,
                   victims, result, edits, crashes, gcs>>

\* Mutant: an extraction that stopped early is taken for a whole one.
ExtractedSome(p) == TRUE
\* Every walked file is in the graph, read or not.
Extracted(p) == made[p] \in Graphs

\* flush: the rows are committed. _persist takes the time before anything else.
Flush(p) ==
    /\ pc[p] = "build" /\ Extracted(p)
    /\ extract' = [f \in Files |-> [c \in Contents |->
                     IF puts[p][f][c] # None THEN puts[p][f][c] ELSE extract[f][c]]]
    /\ puts' = [puts EXCEPT ![p] = NoRows]
    /\ clock' = clock + 1 /\ stamp' = [stamp EXCEPT ![p] = clock']
    /\ Goto(p, "publish")
    /\ UNCHANGED <<tree, graph, manifest, ref, spec, kind, snap, made, before,
                   aged, victims, result, bounds>>

-----------------------------------------------------------------------------
(* _persist: graph.db, manifest.json, the ref, and then evict *)

\* GraphStore.create replaces graph.db atomically.
Publish(p) ==
    /\ pc[p] = "publish"
    /\ aged' = [aged EXCEPT ![p] = graph[snap[p]] # None \/ manifest[snap[p]] # None]
    /\ graph' = [graph EXCEPT ![snap[p]] = made[p]]
    /\ Goto(p, "manifest")
    /\ UNCHANGED <<tree, extract, manifest, ref, clock, spec, kind, snap, made, stamp,
                   puts, before, victims, result, bounds>>

\* write_manifest: truncated ...
TruncateManifest(p) ==
    /\ pc[p] = "manifest"
    /\ manifest' = [manifest EXCEPT ![snap[p]] = Torn]
    /\ Goto(p, "manifest2")
    /\ UNCHANGED <<tree, extract, graph, ref, clock, work, result, bounds>>

\* ... and written.
WriteManifest(p) ==
    /\ pc[p] = "manifest2"
    /\ manifest' = [manifest EXCEPT ![snap[p]] = [spec |-> spec[p], at |-> stamp[p]]]
    /\ Goto(p, "ref")
    /\ UNCHANGED <<tree, extract, graph, ref, clock, work, result, bounds>>

\* write_ref, in the same two steps.
TruncateRef(p) ==
    /\ pc[p] = "ref"
    /\ ref' = [ref EXCEPT ![spec[p]] = None]
    /\ Goto(p, "ref2")
    /\ UNCHANGED <<tree, extract, graph, manifest, clock, work, result, bounds>>

WriteRef(p) ==
    /\ pc[p] = "ref2"
    /\ ref' = [ref EXCEPT ![spec[p]] = snap[p]]
    /\ Goto(p, "evict")
    /\ UNCHANGED <<tree, extract, graph, manifest, clock, work, result, bounds>>

OfSpec(s) == {n \in Snaps : Readable(n) /\ manifest[n].spec = s}
Newer(n)  == {m \in OfSpec(manifest[n].spec) : manifest[m].at > manifest[n].at}

\* Mutants: one more than the limit is kept, or one less.
BeyondKeepLoose(n) == Cardinality(Newer(n)) > Keep
BeyondKeepTight(n) == Cardinality(Newer(n)) >= Keep - 1
BeyondKeep(n) == Cardinality(Newer(n)) >= Keep
Expired(n)    == MaxAge > 0 /\ clock - manifest[n].at > MaxAge

\* evict scans the manifests ...
Scan(p) ==
    /\ pc[p] = "evict"
    /\ victims' = [victims EXCEPT ![p] =
                     {n \in Snaps : Readable(n) /\ (Expired(n) \/ BeyondKeep(n))}
                       \X {"graph.db", "manifest.json"}]
    /\ Goto(p, "remove")
    /\ UNCHANGED <<tree, disk, spec, kind, snap, made, stamp, puts, before, aged,
                   result, bounds>>

\* ... and removes what it found, a file at a time and in no order.
Remove(p) ==
    /\ pc[p] = "remove"
    /\ \E v \in victims[p] :
         /\ graph' = IF v[2] = "graph.db" THEN [graph EXCEPT ![v[1]] = None] ELSE graph
         /\ manifest' = IF v[2] = "graph.db" THEN manifest
                        ELSE [manifest EXCEPT ![v[1]] = None]
         /\ victims' = [victims EXCEPT ![p] = @ \ {v}]
    /\ UNCHANGED <<tree, extract, ref, clock, pc, spec, kind, snap, made, stamp,
                   puts, before, aged, result, bounds>>

Persisted(p) ==
    /\ pc[p] = "remove" /\ victims[p] = {}
    /\ Return(p, made[p])
    /\ UNCHANGED <<tree, disk, bounds>>

-----------------------------------------------------------------------------
(* Around the calls *)

\* molmcp cache --gc: collect_out_of_scope for the specs still configured, and
\* the directories without a manifest that are older than the grace period.
Gc(specs) ==
    /\ gcs < MaxGcs /\ gcs' = gcs + 1
    /\ LET \* A directory just made is younger than the grace period; one that was
           \* there before keeps its age when files below it are replaced.
           Spared(n) == \E p \in Procs : pc[p] = "manifest" /\ snap[p] = n /\ ~aged[p]
           dropped == {n \in Snaps : Readable(n) /\ manifest[n].spec \notin specs}
           orphans == {n \in Snaps : manifest[n] = None /\ ~Spared(n)}
       IN  /\ graph' = [n \in Snaps |-> IF n \in dropped \cup orphans THEN None
                                         ELSE graph[n]]
           /\ manifest' = [n \in Snaps |-> IF n \in dropped THEN None ELSE manifest[n]]
    /\ ref' = [s \in Specs |-> IF s \in specs THEN ref[s] ELSE None]
    /\ UNCHANGED <<tree, extract, clock, pc, work, result, edits, crashes, faults>>

\* Somebody edits a source; while it is being read only where it is live.
Reading == {"walk", "check", "build"}
Edit(s, f, c) ==
    /\ edits < MaxEdits /\ edits' = edits + 1
    /\ tree[s][f] # c
    /\ LiveSource \/ \A p \in Procs : pc[p] \notin Reading
    /\ tree' = [tree EXCEPT ![s][f] = c]
    /\ UNCHANGED <<disk, pc, work, result, crashes, faults, gcs>>

\* The process dies; SQLite drops its uncommitted rows.
Crash(p) ==
    /\ pc[p] # "idle" /\ crashes < MaxCrashes
    /\ crashes' = crashes + 1
    /\ Forget(p)
    /\ UNCHANGED <<tree, disk, result, edits, faults, gcs>>

BuildStep(p) == \E f \in Files : Reuse(p, f) \/ Analyze(p, f) \/ Locked(p, f)
                                 \/ CannotRead(p, f)

Step(p) ==
    \/ Walk(p) \/ Check(p) \/ Load(p) \/ BuildStep(p) \/ Flush(p) \/ Publish(p)
    \/ TruncateManifest(p) \/ WriteManifest(p) \/ TruncateRef(p) \/ WriteRef(p)
    \/ Scan(p) \/ Remove(p) \/ Persisted(p)

Next ==
    \/ \E p \in Procs : \/ \E s \in Specs, k \in {"index", "refresh"} : Call(p, s, k)
                        \/ Step(p) \/ Crash(p)
    \/ \E specs \in SUBSET Specs : Gc(specs)
    \/ \E s \in Specs, f \in Files, c \in Contents : Edit(s, f, c)

Spec == Init /\ [][Next]_vars

-----------------------------------------------------------------------------
(* Properties *)

Stations == {"idle", "walk", "check", "load", "build", "publish", "manifest", "manifest2",
           "ref", "ref2", "evict", "remove"}
Results == [spec: Specs, snap: Snaps, graph: Graphs, changes: {None} \cup SUBSET Files]

\* None is no graph, and Failed nothing that a call returns.
ASSUME MarksApart == None \notin Graphs /\ Failed \notin Results \cup {None}

\* Every variable of the cache, of the calls and of their results has its type.
TypeOK ==
    /\ tree \in [Specs -> Snaps] /\ extract \in Rows
    /\ graph \in [Snaps -> Graphs \cup {None}]
    /\ manifest \in [Snaps -> Manifests \cup {None, Torn}]
    /\ ref \in [Specs -> Snaps \cup {None}] /\ clock \in 0 .. MaxPersists
    /\ pc \in [Procs -> Stations] /\ spec \in [Procs -> Specs \cup {None}]
    /\ kind \in [Procs -> {"none", "index", "refresh"}]
    /\ snap \in [Procs -> [Files -> Contents \cup {None}]]
    /\ made \in [Procs -> Partial] /\ stamp \in [Procs -> 0 .. MaxPersists]
    /\ puts \in [Procs -> Rows] /\ before \in [Procs -> Snaps \cup {None}]
    /\ aged \in [Procs -> BOOLEAN]
    /\ victims \in [Procs -> SUBSET (Snaps \X {"graph.db", "manifest.json"})]
    /\ result \in [Procs -> Results \cup {None, Failed}]
    /\ edits \in Nat /\ crashes \in Nat /\ faults \in Nat /\ gcs \in Nat

\* A graph on disk was made from exactly the contents its snapshot id digests,
\* but for the files that could not be read (docs/concepts/discovery.md).
GraphTrue ==
    \A n \in Snaps : graph[n] # None =>
      \A f \in Files : graph[n][f] \in {n[f], Unread}

\* What a call returns is a graph of what it walked, whoever built it.
ServedTrue ==
    \A p \in Procs : result[p] \notin {None, Failed} =>
      \A f \in Files : result[p].graph[f] \in {result[p].snap[f], Unread}

Quiescent == \A p \in Procs : pc[p] = "idle"

\* Once nobody writes, eviction has left no source more snapshots than the
\* limit, but for one of each call that died before it evicted.
Bounded ==
    Quiescent => \A s \in Specs : Cardinality(OfSpec(s)) <= Keep + crashes

\* With one process on the cache an index never finds its own cache broken,
\* wherever an earlier one died and however far its removals had come.
NeverFails == \A p \in Procs : result[p] # Failed

\* The snapshot a ref names outlives eviction: refresh finds the previous files.
RefsKept ==
    Quiescent => \A s \in Specs : ref[s] # None => graph[ref[s]] # None

=============================================================================
