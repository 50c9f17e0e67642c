-------------------------- MODULE IndexCache_proofs --------------------------
(***************************************************************************)
(* Proofs about IndexCache: for any processes, sources, files and contents *)
(* the graphs on disk and the graphs returned are those of the snapshots    *)
(* they are filed under, provided no source is edited while it is read, and *)
(* eviction bounds what is on disk.                                        *)
(***************************************************************************)
EXTENDS IndexCache, FiniteSetTheorems, TLAPS

\* A source holds still from the first byte of a walk to the end of extraction.
Still == ~LiveSource

After == {"load", "publish", "manifest", "manifest2", "ref", "ref2", "evict", "remove"}
Built == After \ {"load"}

\* Rows of the extraction table are filed under what they were made from.
Exact(rows) ==
    /\ rows \in Rows
    /\ \A f \in Files, c \in Contents : rows[f][c] \in {None, c}

StoreInv ==
    /\ tree \in [Specs -> Snaps]
    /\ Exact(extract)
    /\ graph \in [Snaps -> Graphs \cup {None}]
    /\ GraphTrue

\* A walk agrees with its source while it is being extracted, and what is made
\* so far agrees with the walk.
CallInv(p) ==
    /\ pc[p] \in Stations
    /\ IF pc[p] = "idle" THEN snap[p] = NoFiles ELSE spec[p] \in Specs
    /\ snap[p] \in [Files -> Contents \cup {None}] /\ made[p] \in Partial
    /\ Exact(puts[p])
    /\ pc[p] \in {"check", "build"} \cup After => snap[p] \in Snaps
    /\ pc[p] \in Reading => \A f \in Files : snap[p][f] \in {None, tree[spec[p]][f]}
    /\ \A f \in Files : made[p][f] \in {None, Unread, snap[p][f]}
    /\ pc[p] \in Built => made[p] \in Graphs

CallsInv ==
    /\ pc \in [Procs -> Stations] /\ spec \in [Procs -> Specs \cup {None}]
    /\ snap \in [Procs -> [Files -> Contents \cup {None}]]
    /\ made \in [Procs -> Partial]
    /\ puts \in [Procs -> Rows]
    /\ \A p \in Procs : CallInv(p)

ResultInv ==
    /\ result = [p \in Procs |-> result[p]]
    /\ ServedTrue

IInv == StoreInv /\ CallsInv /\ ResultInv

-----------------------------------------------------------------------------
(* The empty table and the empty call *)

LEMMA NoneIsNoContent == None \notin Contents /\ Unread \notin Contents \cup {None}
BY IndexCacheAssumption

LEMMA NoRowsExact == Exact(NoRows) /\ NoRows \in Rows
BY DEF Exact, NoRows, Rows

LEMMA NoFilesTyped ==
    /\ NoFiles \in [Files -> Contents \cup {None}] /\ NoFiles \in Partial
    /\ \A f \in Files : NoFiles[f] = None
BY DEF NoFiles, Partial

\* A call that ends leaves its process as Init found it.
LEMMA ForgetKeepsCalls ==
    ASSUME CallsInv, NEW p \in Procs, Forget(p), UNCHANGED tree
    PROVE  CallsInv'
<1>1. pc' \in [Procs -> Stations] /\ spec' \in [Procs -> Specs \cup {None}]
  BY DEF Forget, CallsInv, Stations
<1>2. snap' \in [Procs -> [Files -> Contents \cup {None}]] /\ made' \in [Procs -> Partial]
  BY NoFilesTyped DEF Forget, CallsInv
<1>3. puts' \in [Procs -> Rows]
  BY NoRowsExact DEF Forget, CallsInv
<1>4. ASSUME NEW q \in Procs PROVE CallInv(q)'
  <2>1. CASE q = p
    <3>1. /\ pc'[q] = "idle" /\ snap'[q] = NoFiles /\ made'[q] = NoFiles
          /\ puts'[q] = NoRows
      BY <2>1 DEF Forget, CallsInv
    <3> QED  BY <3>1, NoFilesTyped, NoRowsExact DEF CallInv, Reading, After, Built, Stations,
                Exact
  <2>2. CASE q # p
    <3>1. /\ pc'[q] = pc[q] /\ snap'[q] = snap[q] /\ made'[q] = made[q]
          /\ puts'[q] = puts[q] /\ spec'[q] = spec[q]
      BY <2>2 DEF Forget, CallsInv
    <3>2. CallInv(q)
      BY DEF CallsInv
    <3> QED  BY <3>1, <3>2 DEF CallInv, Exact
  <2> QED  BY <2>1, <2>2
<1> QED  BY <1>1, <1>2, <1>3, <1>4 DEF CallsInv

\* A step of one process leaves the calls of the others as they were.
LEMMA OthersKeepTheirs ==
    ASSUME CallsInv, NEW p \in Procs, UNCHANGED tree, CallInv(p)',
           pc' \in [Procs -> Stations], spec' \in [Procs -> Specs \cup {None}],
           snap' \in [Procs -> [Files -> Contents \cup {None}]],
           made' \in [Procs -> Partial], puts' \in [Procs -> Rows],
           \A q \in Procs \ {p} : /\ pc'[q] = pc[q] /\ snap'[q] = snap[q]
                                  /\ made'[q] = made[q] /\ puts'[q] = puts[q]
                                  /\ spec'[q] = spec[q]
    PROVE  CallsInv'
<1>1. ASSUME NEW q \in Procs \ {p} PROVE CallInv(q)'
  <2>1. CallInv(q)
    BY DEF CallsInv
  <2> QED  BY <2>1 DEF CallInv, Exact
<1> QED  BY <1>1 DEF CallsInv

-----------------------------------------------------------------------------
(* The steps *)

LEMMA InitIInv == Init => IInv
<1> SUFFICES ASSUME Init PROVE IInv
  OBVIOUS
<1>1. StoreInv
  BY NoRowsExact DEF Init, StoreInv, GraphTrue
<1>2. CallsInv
  BY NoRowsExact, NoFilesTyped
  DEF Init, CallsInv, CallInv, Reading, After, Built, Stations
<1>3. ResultInv
  BY DEF Init, ResultInv, ServedTrue
<1> QED  BY <1>1, <1>2, <1>3 DEF IInv

LEMMA CallStep ==
    ASSUME IInv, NEW p \in Procs, NEW s \in Specs, NEW k, Call(p, s, k)
    PROVE  IInv'
<1>1. StoreInv'
  BY DEF IInv, StoreInv, Call, disk, GraphTrue, Exact
<1>2. CallInv(p)
  BY DEF IInv, CallsInv
<1>3. CallInv(p)'
  BY <1>2, NoFilesTyped
  DEF IInv, CallsInv, CallInv, Call, Goto, Reading, After, Built, Stations, Exact
<1>4. CallsInv'
  BY <1>3, OthersKeepTheirs DEF IInv, CallsInv, Call, Goto, Stations
<1>5. ResultInv'
  BY DEF IInv, ResultInv, ServedTrue, Call
<1> QED  BY <1>1, <1>4, <1>5 DEF IInv

LEMMA WalkStep ==
    ASSUME IInv, NEW p \in Procs, Walk(p)
    PROVE  IInv'
<1>1. StoreInv'
  BY DEF IInv, StoreInv, Walk, disk, GraphTrue, Exact
<1>2. CallInv(p)
  BY DEF IInv, CallsInv
<1>3. PICK f \in Files : /\ snap[p][f] = None
                          /\ snap' = [snap EXCEPT ![p][f] = tree[spec[p]][f]]
  BY DEF Walk
<1>4. tree[spec[p]][f] \in Contents
  BY <1>2 DEF Walk, CallInv, IInv, StoreInv, Snaps
<1>5. snap' \in [Procs -> [Files -> Contents \cup {None}]]
  BY <1>3, <1>4 DEF IInv, CallsInv
<1>6. \A g \in Files : snap'[p][g] = IF g = f THEN tree[spec[p]][f] ELSE snap[p][g]
  BY <1>3 DEF IInv, CallsInv
<1>7. pc' \in [Procs -> Stations] /\ pc'[p] \in {"walk", "check"}
      /\ (pc'[p] = "check" => snap'[p] \in Snaps)
  BY DEF Walk, Goto, IInv, CallsInv, Stations
<1>8. CallInv(p)'
  <2>1. \A g \in Files : snap'[p][g] \in {None, tree[spec[p]][g]}
    BY <1>2, <1>6 DEF Walk, CallInv, Reading
  <2>2. \A g \in Files : made[p][g] \in {None, Unread, snap'[p][g]}
    BY <1>2, <1>3, <1>6 DEF CallInv
  <2> QED
    BY <1>2, <1>5, <1>7, <2>1, <2>2
    DEF Walk, CallInv, Reading, After, Built, Stations, Exact
<1>9. CallsInv'
  BY <1>3, <1>5, <1>7, <1>8, OthersKeepTheirs DEF IInv, CallsInv, Walk, Goto
<1>10. ResultInv'
  BY DEF IInv, ResultInv, ServedTrue, Walk
<1> QED  BY <1>1, <1>9, <1>10 DEF IInv

\* The steps of a call that only move it on, or write what no graph is made from.
LEMMA MoveStep ==
    ASSUME IInv, NEW p \in Procs,
           Check(p) \/ TruncateManifest(p) \/ WriteManifest(p) \/ TruncateRef(p)
             \/ WriteRef(p) \/ Scan(p)
    PROVE  IInv'
<1> USE DEF Check, TruncateManifest, WriteManifest, TruncateRef, WriteRef, Scan, disk, work
<1>1. StoreInv'
  BY DEF IInv, StoreInv, GraphTrue, Exact
<1>2. CallInv(p)
  BY DEF IInv, CallsInv
<1>3. /\ UNCHANGED <<tree, spec, snap, made, puts>>
      /\ pc[p] \in {"check"} \cup Built
      /\ \E l \in {"load", "build"} \cup Built :
            /\ pc' = [pc EXCEPT ![p] = l]
            /\ l = "build" => pc[p] = "check"
            /\ l \in Built => pc[p] \in Built
  BY DEF Goto, Built, After
<1>4. CallInv(p)'
  BY <1>2, <1>3 DEF IInv, CallsInv, CallInv, Reading, After, Built, Stations, Exact
<1>5. pc' \in [Procs -> Stations]
  BY <1>3 DEF IInv, CallsInv, Stations, Built, After
<1>6. CallsInv'
  BY <1>3, <1>4, <1>5, OthersKeepTheirs DEF IInv, CallsInv
<1>7. ResultInv'
  BY DEF IInv, ResultInv, ServedTrue
<1> QED  BY <1>1, <1>6, <1>7 DEF IInv

\* What is on disk is returned as what it was filed under.
LEMMA LoadStep ==
    ASSUME IInv, NEW p \in Procs, Load(p)
    PROVE  IInv'
<1> USE DEF Load, disk
<1>1. StoreInv'
  BY DEF IInv, StoreInv, GraphTrue, Exact
<1>2. CallsInv'
  BY ForgetKeepsCalls DEF IInv, Return, Raise
<1>3. snap[p] \in Snaps
  BY DEF IInv, CallsInv, CallInv, After
<1>4. ResultInv'
  <2>1. CASE graph[snap[p]] # None
    <3>1. \A f \in Files : graph[snap[p]][f] \in {snap[p][f], Unread}
      BY <1>3, <2>1 DEF IInv, StoreInv, GraphTrue
    <3> QED  BY <2>1, <3>1 DEF IInv, ResultInv, ServedTrue, Return
  <2>2. CASE graph[snap[p]] = None
    BY <2>2 DEF IInv, ResultInv, ServedTrue, Raise
  <2> QED  BY <2>1, <2>2
<1> QED  BY <1>1, <1>2, <1>4 DEF IInv

\* A row that a process can see is exact, and so is what it makes of it.
LEMMA ExtractStep ==
    ASSUME IInv, NEW p \in Procs, NEW f \in Files,
           Reuse(p, f) \/ Analyze(p, f) \/ CannotRead(p, f)
    PROVE  IInv'
<1> USE DEF Reuse, Analyze, CannotRead, Todo, disk
<1>1. StoreInv'
  BY DEF IInv, StoreInv, GraphTrue, Exact
<1>2. CallInv(p)
  BY DEF IInv, CallsInv
<1>3. /\ pc[p] = "build" /\ snap[p] \in Snaps /\ spec[p] \in Specs
      /\ snap[p][f] \in Contents
      /\ tree[spec[p]][f] = snap[p][f]
  BY <1>2, NoneIsNoContent DEF CallInv, Reading, Snaps
<1>4. Row(p, f) \in {None, snap[p][f]}
  BY <1>2, <1>3 DEF Row, CallInv, Exact, IInv, StoreInv
<1>5. PICK g \in {Unread, snap[p][f]} : made' = [made EXCEPT ![p][f] = g]
  BY <1>3, <1>4 DEF Hit
<1>6. Exact(puts'[p]) /\ puts' \in [Procs -> Rows]
      /\ \A q \in Procs \ {p} : puts'[q] = puts[q]
  <2>1. CASE Analyze(p, f)
    <3>1. puts' = [puts EXCEPT ![p][f][snap[p][f]] = snap[p][f]]
      BY <1>3, <2>1
    <3>2. puts'[p] = [puts[p] EXCEPT ![f][snap[p][f]] = snap[p][f]]
      BY <3>1 DEF IInv, CallsInv
    <3>3. Exact(puts'[p])
      BY <1>2, <1>3, <3>2 DEF Exact, Rows, CallInv
    <3> QED  BY <3>1, <3>3 DEF IInv, CallsInv, Exact
  <2>2. CASE UNCHANGED puts
    BY <1>2, <2>2 DEF CallInv, IInv, CallsInv, Exact
  <2> QED  BY <2>1, <2>2
<1>7. made' \in [Procs -> Partial] /\ \A q \in Procs \ {p} : made'[q] = made[q]
  BY <1>3, <1>5 DEF IInv, CallsInv, Partial
<1>8. \A h \in Files : made'[p][h] \in {None, Unread, snap[p][h]}
  BY <1>2, <1>5 DEF IInv, CallsInv, CallInv, Partial
<1>9. UNCHANGED <<tree, pc, spec, snap>>
  OBVIOUS
<1>10. CallInv(p)'
  BY <1>2, <1>3, <1>6, <1>7, <1>8, <1>9
  DEF CallInv, Reading, After, Built, Stations, Exact, IInv, CallsInv
<1>11. CallsInv'
  BY <1>6, <1>7, <1>9, <1>10, OthersKeepTheirs DEF IInv, CallsInv
<1>12. ResultInv'
  BY DEF IInv, ResultInv, ServedTrue
<1> QED  BY <1>1, <1>11, <1>12 DEF IInv

\* A call that raises, or dies, changes nothing on disk and returns no graph.
LEMMA AbandonStep ==
    ASSUME IInv, NEW p \in Procs,
           Crash(p) \/ \E f \in Files : Locked(p, f)
    PROVE  IInv'
<1> USE DEF Crash, Locked, Raise, disk
<1>1. StoreInv'
  BY DEF IInv, StoreInv, GraphTrue, Exact
<1>2. CallsInv'
  BY ForgetKeepsCalls DEF IInv
<1>3. ResultInv'
  BY DEF IInv, ResultInv, ServedTrue
<1> QED  BY <1>1, <1>2, <1>3 DEF IInv

LEMMA FlushStep ==
    ASSUME IInv, NEW p \in Procs, Flush(p)
    PROVE  IInv'
<1> USE DEF Flush, Goto, Extracted
<1>1. CallInv(p)
  BY DEF IInv, CallsInv
<1>2. Exact(extract)'
  BY <1>1 DEF CallInv, Exact, Rows, IInv, StoreInv
<1>3. StoreInv'
  BY <1>2 DEF IInv, StoreInv, GraphTrue
<1>4. CallInv(p)'
  BY <1>1, NoRowsExact
  DEF CallInv, Reading, After, Built, Stations, Exact, IInv, CallsInv
<1>5. CallsInv'
  BY <1>4, NoRowsExact, OthersKeepTheirs DEF IInv, CallsInv, Stations
<1>6. ResultInv'
  BY DEF IInv, ResultInv, ServedTrue
<1> QED  BY <1>3, <1>5, <1>6 DEF IInv

\* A whole graph has no file left to make, so each is read exactly or unread.
LEMMA BuiltIsTrue ==
    ASSUME CallsInv, NEW p \in Procs, pc[p] \in Built
    PROVE  /\ snap[p] \in Snaps /\ made[p] \in Graphs
           /\ \A f \in Files : made[p][f] \in {snap[p][f], Unread}
BY NoneIsNoContent
DEF CallsInv, CallInv, Built, After, Graphs

LEMMA PublishStep ==
    ASSUME IInv, NEW p \in Procs, Publish(p)
    PROVE  IInv'
<1> USE DEF Publish, Goto
<1>1. /\ snap[p] \in Snaps /\ made[p] \in Graphs
      /\ \A f \in Files : made[p][f] \in {snap[p][f], Unread}
  BY BuiltIsTrue DEF IInv, Built, After
<1>2. StoreInv'
  BY <1>1 DEF IInv, StoreInv, GraphTrue, Exact
<1>3. CallInv(p)'
  BY DEF CallInv, Reading, After, Built, Stations, Exact, IInv, CallsInv
<1>4. CallsInv'
  BY <1>3, OthersKeepTheirs DEF IInv, CallsInv, Stations
<1>5. ResultInv'
  BY DEF IInv, ResultInv, ServedTrue
<1> QED  BY <1>2, <1>4, <1>5 DEF IInv

LEMMA RemoveStep ==
    ASSUME IInv, NEW p \in Procs, Remove(p)
    PROVE  IInv'
<1> USE DEF Remove
<1>1. StoreInv'
  BY DEF IInv, StoreInv, GraphTrue, Exact
<1>2. CallsInv'
  BY DEF IInv, CallsInv, CallInv, Exact
<1>3. ResultInv'
  BY DEF IInv, ResultInv, ServedTrue
<1> QED  BY <1>1, <1>2, <1>3 DEF IInv

LEMMA PersistedStep ==
    ASSUME IInv, NEW p \in Procs, Persisted(p)
    PROVE  IInv'
<1> USE DEF Persisted, disk
<1>1. StoreInv'
  BY DEF IInv, StoreInv, GraphTrue, Exact
<1>2. CallsInv'
  BY ForgetKeepsCalls DEF IInv, Return
<1>3. \A f \in Files : made[p][f] \in {snap[p][f], Unread}
  BY BuiltIsTrue DEF IInv, Built, After
<1>4. ResultInv'
  BY <1>3 DEF IInv, ResultInv, ServedTrue, Return
<1> QED  BY <1>1, <1>2, <1>4 DEF IInv

LEMMA GcStep ==
    ASSUME IInv, NEW specs \in SUBSET Specs, Gc(specs)
    PROVE  IInv'
<1> USE DEF Gc, work
<1>1. StoreInv'
  BY DEF IInv, StoreInv, GraphTrue, Exact
<1>2. CallsInv'
  BY DEF IInv, CallsInv, CallInv, Exact
<1>3. ResultInv'
  BY DEF IInv, ResultInv, ServedTrue
<1> QED  BY <1>1, <1>2, <1>3 DEF IInv

\* An edit comes while nobody reads: no walk in progress can disagree with it.
LEMMA EditStep ==
    ASSUME Still, IInv, NEW s \in Specs, NEW f \in Files, NEW c \in Contents,
           Edit(s, f, c)
    PROVE  IInv'
<1> USE DEF Edit, Still, disk, work
<1>1. StoreInv'
  BY DEF IInv, StoreInv, GraphTrue, Exact, Snaps
<1>2. CallsInv'
  BY DEF IInv, CallsInv, CallInv, Exact, Reading
<1>3. ResultInv'
  BY DEF IInv, ResultInv, ServedTrue
<1> QED  BY <1>1, <1>2, <1>3 DEF IInv

LEMMA StutterStep ==
    ASSUME IInv, UNCHANGED vars
    PROVE  IInv'
<1>1. StoreInv' /\ ResultInv'
  BY DEF IInv, StoreInv, ResultInv, ServedTrue, GraphTrue, Exact, vars
<1>2. CallsInv'
  BY DEF IInv, CallsInv, CallInv, Exact, vars
<1> QED  BY <1>1, <1>2 DEF IInv

LEMMA IInvKept ==
    ASSUME Still
    PROVE  IInv /\ [Next]_vars => IInv'
<1> SUFFICES ASSUME IInv, [Next]_vars PROVE IInv'
  OBVIOUS
<1>1. ASSUME NEW p \in Procs, Step(p) PROVE IInv'
  BY <1>1, WalkStep, MoveStep, LoadStep, ExtractStep, AbandonStep, FlushStep,
     PublishStep, RemoveStep, PersistedStep DEF Step, BuildStep
<1> QED
  BY <1>1, CallStep, AbandonStep, GcStep, EditStep, StutterStep DEF Next

-----------------------------------------------------------------------------
(* The theorems *)

\* However many processes build, evict, collect and die on one cache, a graph on
\* disk was made from the contents its snapshot id digests.
THEOREM GraphTrueAlways ==
    ASSUME Still
    PROVE  Spec => []GraphTrue
<1>1. IInv => GraphTrue
  BY DEF IInv, StoreInv
<1> QED
  BY <1>1, InitIInv, IInvKept, PTL DEF Spec

\* What index and refresh return is a graph of what they walked, whoever built it.
THEOREM ServedTrueAlways ==
    ASSUME Still
    PROVE  Spec => []ServedTrue
<1>1. IInv => ServedTrue
  BY DEF IInv, ResultInv
<1> QED
  BY <1>1, InitIInv, IInvKept, PTL DEF Spec

-----------------------------------------------------------------------------
(* One process and one source, and nobody collects.  The process finds what  *)
(* earlier calls of it left, and what those that died left, and nothing      *)
(* changes under it but the source.                                          *)

Alone ==
    /\ \A p, q \in Procs : p = q
    /\ \A s, t \in Specs : s = t
    /\ MaxGcs = 0

AloneDisk ==
    /\ tree \in [Specs -> Snaps] /\ extract \in Rows
    /\ graph \in [Snaps -> Graphs \cup {None}]
    /\ manifest = [n \in Snaps |-> manifest[n]]
    /\ ref \in [Specs -> Snaps \cup {None}] /\ clock \in Nat /\ gcs = 0

AloneCalls ==
    /\ pc \in [Procs -> Stations] /\ spec \in [Procs -> Specs \cup {None}]
    /\ snap \in [Procs -> [Files -> Contents \cup {None}]] /\ made \in [Procs -> Partial]
    /\ stamp \in [Procs -> Nat] /\ puts \in [Procs -> Rows]
    /\ victims \in [Procs -> SUBSET (Snaps \X {"graph.db", "manifest.json"})]
    /\ result = [p \in Procs |-> result[p]]

\* Where a call is says what it may count on finding: the graph it checked or
\* published, the manifest with the last time stamp, and the ref to its snapshot,
\* which the removal does not touch.
AloneAt(p) ==
    /\ pc[p] # "idle" => spec[p] \in Specs
    /\ pc[p] \in {"check", "build"} \cup After => snap[p] \in Snaps
    /\ pc[p] \in Built => made[p] \in Graphs /\ stamp[p] = clock
    /\ pc[p] \in After \ {"publish"} => graph[snap[p]] # None
    /\ pc[p] \in {"ref", "ref2", "evict"} =>
           manifest[snap[p]] = [spec |-> spec[p], at |-> clock]
    /\ pc[p] \in {"evict", "remove"} => ref[spec[p]] = snap[p]
    /\ pc[p] = "remove" => \A v \in victims[p] : v[1] # snap[p]

\* No manifest is younger than the clock, and no ref names a graph that is gone.
AloneStore ==
    /\ \A n \in Snaps : Readable(n) => manifest[n].at \in Nat /\ manifest[n].at <= clock
    /\ \A s \in Specs : ref[s] # None => graph[ref[s]] # None
    /\ NeverFails

AloneInv == AloneDisk /\ AloneCalls /\ (\A p \in Procs : AloneAt(p)) /\ AloneStore

\* The call that ends leaves nothing that could be wrong.
LEMMA AloneForgets ==
    ASSUME Alone, AloneCalls, NEW p \in Procs, Forget(p),
           result' = [q \in Procs |-> result'[q]]
    PROVE  AloneCalls' /\ \A q \in Procs : AloneAt(q)'
<1>1. AloneCalls'
  BY NoFilesTyped, NoRowsExact DEF AloneCalls, Forget, Stations
<1>2. pc'[p] = "idle"
  BY DEF AloneCalls, Forget
<1>3. AloneAt(p)'
  BY <1>2 DEF AloneAt, Built, After
<1> QED  BY <1>1, <1>3 DEF Alone

LEMMA AloneInit == Init => AloneInv
<1> SUFFICES ASSUME Init PROVE AloneInv
  OBVIOUS
<1>1. AloneDisk
  BY NoRowsExact DEF Init, AloneDisk
<1>2. AloneCalls
  BY NoRowsExact, NoFilesTyped DEF Init, AloneCalls, Stations
<1>3. \A p \in Procs : AloneAt(p)
  BY DEF Init, AloneAt, Built, After
<1>4. AloneStore
  BY MarksApart DEF Init, AloneStore, Readable, NeverFails
<1> QED  BY <1>1, <1>2, <1>3, <1>4 DEF AloneInv

LEMMA AloneCall ==
    ASSUME Alone, AloneInv, NEW p \in Procs, NEW s \in Specs, NEW k, Call(p, s, k)
    PROVE  AloneInv'
<1> USE DEF Call, Goto, disk, bounds
<1>1. AloneDisk'
  BY DEF AloneInv, AloneDisk
<1>2. AloneCalls'
  BY DEF AloneInv, AloneCalls, Stations
<1>3. AloneAt(p)'
  BY DEF AloneInv, AloneCalls, AloneAt, Built, After
<1>4. AloneStore'
  BY MarksApart DEF AloneInv, AloneCalls, AloneStore, Readable, NeverFails
<1> QED  BY <1>1, <1>2, <1>3, <1>4 DEF AloneInv, Alone

LEMMA AloneWalk ==
    ASSUME Alone, AloneInv, NEW p \in Procs, Walk(p)
    PROVE  AloneInv'
<1> USE DEF Walk, Goto, disk, bounds
<1>1. AloneDisk'
  BY DEF AloneInv, AloneDisk
<1>2. PICK f \in Files : snap' = [snap EXCEPT ![p][f] = tree[spec[p]][f]]
  OBVIOUS
<1>3. tree[spec[p]][f] \in Contents
  <2>1. spec[p] \in Specs
    BY DEF AloneInv, AloneAt
  <2> QED  BY <2>1 DEF AloneInv, AloneDisk, Snaps
<1>4. snap' \in [Procs -> [Files -> Contents \cup {None}]]
  BY <1>2, <1>3 DEF AloneInv, AloneCalls
<1>5. AloneCalls'
  BY <1>4 DEF AloneInv, AloneCalls, Stations
<1>6. pc'[p] \in {"walk", "check"} /\ (pc'[p] = "check" => snap'[p] \in Snaps)
  BY DEF AloneInv, AloneCalls
<1>7. AloneAt(p)'
  BY <1>6 DEF AloneInv, AloneCalls, AloneAt, Built, After
<1>8. AloneStore'
  BY DEF AloneInv, AloneStore, Readable, NeverFails
<1> QED  BY <1>1, <1>5, <1>7, <1>8 DEF AloneInv, Alone

\* The graph that was checked is there when it is read: nobody else removes.
LEMMA AloneLookup ==
    ASSUME Alone, AloneInv, NEW p \in Procs, Check(p) \/ Load(p)
    PROVE  AloneInv'
<1>1. CASE Check(p)
  <2> USE <1>1 DEF Check, Goto, disk, bounds, work
  <2>1. AloneDisk'
    BY DEF AloneInv, AloneDisk
  <2>2. AloneCalls'
    BY DEF AloneInv, AloneCalls, Stations
  <2>3. AloneAt(p)'
    BY DEF AloneInv, AloneCalls, AloneAt, Built, After, Valid
  <2>4. AloneStore'
    BY DEF AloneInv, AloneStore, Readable, NeverFails
  <2> QED  BY <2>1, <2>2, <2>3, <2>4 DEF AloneInv, Alone
<1>2. CASE Load(p)
  <2> USE <1>2 DEF Load, disk, bounds
  <2>1. AloneDisk'
    BY DEF AloneInv, AloneDisk
  <2>2. AloneAt(p) /\ pc[p] = "load"
    BY DEF AloneInv
  <2>3. spec[p] \in Specs /\ snap[p] \in Snaps /\ graph[snap[p]] # None
    BY <2>2 DEF AloneAt, After
  <2>4. graph[snap[p]] \in Graphs
    BY <2>3 DEF AloneInv, AloneDisk
  <2>5. Return(p, graph[snap[p]])
    BY <2>3
  <2>6. PICK r \in Results : result' = [result EXCEPT ![p] = r]
    BY <2>3, <2>4, <2>5 DEF Return, Results, Changes
  <2>7. result' = [q \in Procs |-> result'[q]] /\ \A q \in Procs : result'[q] # Failed
    BY <2>6, MarksApart DEF AloneInv, AloneCalls, AloneStore, NeverFails
  <2>8. AloneCalls' /\ \A q \in Procs : AloneAt(q)'
    BY <2>5, <2>7, AloneForgets DEF Return, AloneInv
  <2>9. AloneStore'
    BY <2>7 DEF AloneInv, AloneStore, Readable, NeverFails
  <2> QED  BY <2>1, <2>8, <2>9 DEF AloneInv
<1> QED  BY <1>1, <1>2

\* No other process holds the table, so a file is taken from it, read or given up.
LEMMA AloneBuild ==
    ASSUME Alone, AloneInv, NEW p \in Procs, BuildStep(p)
    PROVE  AloneInv'
<1>1. PICK f \in Files : Reuse(p, f) \/ Analyze(p, f) \/ CannotRead(p, f)
  BY DEF BuildStep, Locked, Alone
<1> USE DEF Reuse, Analyze, CannotRead, Todo, disk, bounds
<1>2. AloneDisk'
  BY <1>1 DEF AloneInv, AloneDisk
<1>3. pc[p] = "build" /\ spec[p] \in Specs /\ snap[p] \in Snaps
  BY <1>1 DEF AloneInv, AloneAt
<1>4. snap[p][f] \in Contents /\ tree[spec[p]][f] \in Contents
  BY <1>3 DEF AloneInv, AloneDisk, Snaps
<1>5. Row(p, f) \in Contents \cup {None}
  BY <1>3, <1>4 DEF Row, Rows, AloneInv, AloneDisk, AloneCalls
<1>6. PICK g \in Contents \cup {Unread} : made' = [made EXCEPT ![p][f] = g]
  BY <1>1, <1>4, <1>5 DEF Hit
<1>7. made' \in [Procs -> Partial]
  BY <1>6 DEF AloneInv, AloneCalls, Partial
<1>8. puts' \in [Procs -> Rows]
  <2>1. CASE Analyze(p, f)
    <3>1. puts' = [puts EXCEPT ![p][f][snap[p][f]] = tree[spec[p]][f]]
      BY <2>1
    <3>2. puts[p] \in Rows
      BY DEF AloneInv, AloneCalls
    <3>3. [puts[p] EXCEPT ![f][snap[p][f]] = tree[spec[p]][f]] \in Rows
      BY <1>4, <3>2 DEF Rows
    <3> QED  BY <3>1, <3>3 DEF AloneInv, AloneCalls
  <2>2. CASE UNCHANGED puts
    BY <2>2 DEF AloneInv, AloneCalls
  <2> QED  BY <1>1, <2>1, <2>2
<1>9. UNCHANGED <<pc, spec, snap, stamp, victims, result>>
  BY <1>1
<1>10. AloneCalls'
  BY <1>7, <1>8, <1>9 DEF AloneInv, AloneCalls
<1>11. AloneAt(p)'
  BY <1>3, <1>9 DEF AloneAt, Built, After
<1>12. AloneStore'
  BY <1>1 DEF AloneInv, AloneStore, Readable, NeverFails
<1> QED  BY <1>2, <1>10, <1>11, <1>12 DEF AloneInv, Alone

LEMMA AloneFlush ==
    ASSUME Alone, AloneInv, NEW p \in Procs, Flush(p)
    PROVE  AloneInv'
<1> USE DEF Flush, Goto, bounds, Extracted
<1>1. extract' \in Rows
  BY DEF AloneInv, AloneDisk, AloneCalls, Rows
<1>2. AloneDisk'
  BY <1>1 DEF AloneInv, AloneDisk
<1>3. AloneCalls'
  BY NoRowsExact DEF AloneInv, AloneDisk, AloneCalls, Stations
<1>4. AloneAt(p)'
  BY DEF AloneInv, AloneCalls, AloneAt, Built, After
<1>5. AloneStore'
  BY DEF AloneInv, AloneDisk, AloneStore, Readable, NeverFails
<1> QED  BY <1>2, <1>3, <1>4, <1>5 DEF AloneInv, Alone

LEMMA AlonePublish ==
    ASSUME Alone, AloneInv, NEW p \in Procs, Publish(p)
    PROVE  AloneInv'
<1> USE DEF Publish, Goto, bounds
<1>1. pc[p] = "publish" /\ spec[p] \in Specs /\ snap[p] \in Snaps /\ made[p] \in Graphs
      /\ stamp[p] = clock
  BY DEF AloneInv, AloneAt, Built, After
<1>2. made[p] # None
  BY <1>1, MarksApart
<1>3. AloneDisk'
  BY <1>1 DEF AloneInv, AloneDisk
<1>4. AloneCalls'
  BY DEF AloneInv, AloneCalls, Stations
<1>5. AloneAt(p)'
  BY <1>1, <1>2 DEF AloneInv, AloneDisk, AloneCalls, AloneAt, Built, After
<1>6. AloneStore'
  BY <1>1, <1>2 DEF AloneInv, AloneDisk, AloneStore, Readable, NeverFails
<1> QED  BY <1>3, <1>4, <1>5, <1>6 DEF AloneInv, Alone

LEMMA AloneManifest ==
    ASSUME Alone, AloneInv, NEW p \in Procs, TruncateManifest(p) \/ WriteManifest(p)
    PROVE  AloneInv'
<1> USE DEF TruncateManifest, WriteManifest, Goto, bounds, work
<1>1. spec[p] \in Specs /\ snap[p] \in Snaps /\ made[p] \in Graphs
      /\ stamp[p] = clock /\ graph[snap[p]] # None
  BY DEF AloneInv, AloneAt, Built, After
<1>2. AloneDisk'
  BY <1>1 DEF AloneInv, AloneDisk
<1>3. AloneCalls'
  BY DEF AloneInv, AloneCalls, Stations
<1>4. AloneAt(p)'
  BY <1>1 DEF AloneInv, AloneDisk, AloneCalls, AloneAt, Built, After
<1>5. AloneStore'
  <2>1. PICK m : manifest' = [manifest EXCEPT ![snap[p]] = m]
                 /\ m \in {Torn, [spec |-> spec[p], at |-> clock]}
    BY <1>1
  <2>2. ASSUME NEW n \in Snaps, Readable(n)'
        PROVE  manifest'[n].at \in Nat /\ manifest'[n].at <= clock
    <3>1. CASE n = snap[p]
      BY <1>1, <2>1, <2>2, <3>1 DEF AloneInv, AloneDisk, Readable
    <3>2. CASE n # snap[p]
      BY <1>1, <2>1, <2>2, <3>2 DEF AloneInv, AloneDisk, AloneStore, Readable
    <3> QED  BY <3>1, <3>2
  <2> QED  BY <2>2 DEF AloneInv, AloneStore, NeverFails
<1> QED  BY <1>2, <1>3, <1>4, <1>5 DEF AloneInv, Alone

LEMMA AloneRef ==
    ASSUME Alone, AloneInv, NEW p \in Procs, TruncateRef(p) \/ WriteRef(p)
    PROVE  AloneInv'
<1> USE DEF TruncateRef, WriteRef, Goto, bounds, work
<1>1. spec[p] \in Specs /\ snap[p] \in Snaps /\ made[p] \in Graphs
      /\ stamp[p] = clock /\ graph[snap[p]] # None
      /\ manifest[snap[p]] = [spec |-> spec[p], at |-> clock]
  BY DEF AloneInv, AloneAt, Built, After
<1>2. AloneDisk'
  BY <1>1 DEF AloneInv, AloneDisk
<1>3. AloneCalls'
  BY DEF AloneInv, AloneCalls, Stations
<1>4. AloneAt(p)'
  BY <1>1 DEF AloneInv, AloneDisk, AloneCalls, AloneAt, Built, After
<1>5. AloneStore'
  BY <1>1 DEF AloneInv, AloneDisk, AloneStore, Readable, NeverFails
<1> QED  BY <1>2, <1>3, <1>4, <1>5 DEF AloneInv, Alone

\* What was just persisted carries the time of now: it is neither too old nor is
\* a snapshot newer, and of Keep snapshots at least one is kept.
LEMMA AloneScan ==
    ASSUME Alone, AloneInv, NEW p \in Procs, Scan(p)
    PROVE  AloneInv'
<1> USE DEF Scan, Goto, disk, bounds
<1>1. spec[p] \in Specs /\ snap[p] \in Snaps /\ made[p] \in Graphs
      /\ stamp[p] = clock /\ graph[snap[p]] # None
      /\ manifest[snap[p]] = [spec |-> spec[p], at |-> clock]
      /\ ref[spec[p]] = snap[p] /\ clock \in Nat
  BY DEF AloneInv, AloneDisk, AloneAt, Built, After
<1>2. ~Expired(snap[p])
  BY <1>1, IndexCacheAssumption DEF Expired
<1>3. ~BeyondKeep(snap[p])
  <2>1. Newer(snap[p]) = {}
    <3>1. ASSUME NEW n \in Snaps, Readable(n) PROVE ~(manifest[n].at > clock)
      BY <1>1, <3>1 DEF AloneInv, AloneStore
    <3> QED  BY <1>1, <3>1 DEF Newer, OfSpec
  <2>2. Cardinality(Newer(snap[p])) = 0
    BY <2>1, FS_EmptySet
  <2> QED  BY <2>2, IndexCacheAssumption DEF BeyondKeep
<1>4. AloneDisk'
  BY DEF AloneInv, AloneDisk
<1>5. AloneCalls'
  BY DEF AloneInv, AloneCalls, Stations
<1>6. AloneAt(p)'
  <2>1. \A v \in victims'[p] : v[1] # snap[p]
    BY <1>2, <1>3 DEF AloneInv, AloneCalls
  <2> QED  BY <1>1, <2>1 DEF AloneInv, AloneCalls, AloneAt, Built, After
<1>7. AloneStore'
  BY DEF AloneInv, AloneStore, Readable, NeverFails
<1> QED  BY <1>4, <1>5, <1>6, <1>7 DEF AloneInv, Alone

\* The snapshot that the one ref names is spared.
LEMMA AloneRemove ==
    ASSUME Alone, AloneInv, NEW p \in Procs, Remove(p)
    PROVE  AloneInv'
<1> USE DEF Remove, bounds
<1>1. pc[p] = "remove" /\ spec[p] \in Specs /\ snap[p] \in Snaps /\ made[p] \in Graphs
      /\ stamp[p] = clock /\ graph[snap[p]] # None
      /\ ref[spec[p]] = snap[p] /\ \A v \in victims[p] : v[1] # snap[p]
  BY DEF AloneInv, AloneAt, Built, After
<1>2. PICK v \in victims[p] :
         /\ graph' = IF v[2] = "graph.db" THEN [graph EXCEPT ![v[1]] = None] ELSE graph
         /\ manifest' = IF v[2] = "graph.db" THEN manifest
                        ELSE [manifest EXCEPT ![v[1]] = None]
         /\ victims' = [victims EXCEPT ![p] = @ \ {v}]
  OBVIOUS
<1>3. v[1] \in Snaps /\ v[1] # snap[p]
  BY <1>1, <1>2 DEF AloneInv, AloneCalls
<1>4. AloneDisk'
  BY <1>2, <1>3 DEF AloneInv, AloneDisk
<1>5. AloneCalls'
  BY <1>2 DEF AloneInv, AloneCalls
<1>6. graph'[snap[p]] # None
  BY <1>1, <1>2, <1>3 DEF AloneInv, AloneDisk
<1>7. AloneAt(p)'
  <2>1. \A w \in victims'[p] : w[1] # snap[p]
    BY <1>1, <1>2 DEF AloneInv, AloneCalls
  <2> QED  BY <1>1, <1>6, <2>1 DEF AloneAt, Built, After
<1>8. AloneStore'
  <2>1. \A s \in Specs : ref'[s] = snap[p]
    BY <1>1 DEF Alone
  <2>2. ASSUME NEW n \in Snaps, Readable(n)' PROVE manifest'[n] = manifest[n]
    BY <1>2, <1>3, <2>2 DEF Readable, AloneInv, AloneDisk
  <2>3. \A n \in Snaps : Readable(n)' => manifest'[n].at \in Nat /\ manifest'[n].at <= clock
    BY <2>2 DEF Readable, AloneInv, AloneStore
  <2> QED  BY <1>6, <2>1, <2>3 DEF AloneInv, AloneStore, NeverFails
<1> QED  BY <1>4, <1>5, <1>7, <1>8 DEF AloneInv, Alone

LEMMA AlonePersisted ==
    ASSUME Alone, AloneInv, NEW p \in Procs, Persisted(p)
    PROVE  AloneInv'
<1> USE DEF Persisted, disk, bounds
<1>1. AloneDisk'
  BY DEF AloneInv, AloneDisk
<1>2. spec[p] \in Specs /\ snap[p] \in Snaps /\ made[p] \in Graphs
  BY DEF AloneInv, AloneAt, Built, After
<1>3. PICK r \in Results : result' = [result EXCEPT ![p] = r]
  <2>1. Changes(before[p], snap[p]) \in {None} \cup SUBSET Files
    BY DEF Changes
  <2> QED  BY <1>2, <2>1 DEF Return, Results
<1>4. result' = [q \in Procs |-> result'[q]] /\ \A q \in Procs : result'[q] # Failed
  BY <1>3, MarksApart DEF AloneInv, AloneCalls, AloneStore, NeverFails
<1>5. AloneCalls' /\ \A q \in Procs : AloneAt(q)'
  BY <1>4, AloneForgets DEF Return, AloneInv
<1>6. AloneStore'
  BY <1>4 DEF AloneInv, AloneStore, Readable, NeverFails
<1> QED  BY <1>1, <1>5, <1>6 DEF AloneInv

LEMMA AloneCrash ==
    ASSUME Alone, AloneInv, NEW p \in Procs, Crash(p)
    PROVE  AloneInv'
<1> USE DEF Crash, disk
<1>1. AloneDisk'
  BY DEF AloneInv, AloneDisk
<1>2. AloneCalls' /\ \A q \in Procs : AloneAt(q)'
  BY AloneForgets DEF AloneInv, AloneCalls
<1>3. AloneStore'
  BY DEF AloneInv, AloneStore, Readable, NeverFails
<1> QED  BY <1>1, <1>2, <1>3 DEF AloneInv

LEMMA AloneEdit ==
    ASSUME AloneInv, NEW s \in Specs, NEW f \in Files, NEW c \in Contents, Edit(s, f, c)
    PROVE  AloneInv'
<1> USE DEF Edit, disk, work
<1>1. AloneDisk'
  BY DEF AloneInv, AloneDisk, Snaps
<1>2. AloneCalls' /\ \A q \in Procs : AloneAt(q)'
  BY DEF AloneInv, AloneCalls, AloneAt
<1>3. AloneStore'
  BY DEF AloneInv, AloneStore, Readable, NeverFails
<1> QED  BY <1>1, <1>2, <1>3 DEF AloneInv

LEMMA AloneStutter ==
    ASSUME AloneInv, UNCHANGED vars
    PROVE  AloneInv'
<1> USE DEF vars
<1>1. AloneDisk' /\ AloneCalls'
  BY DEF AloneInv, AloneDisk, AloneCalls
<1>2. \A q \in Procs : AloneAt(q)'
  BY DEF AloneInv, AloneAt
<1>3. AloneStore'
  BY DEF AloneInv, AloneStore, Readable, NeverFails
<1> QED  BY <1>1, <1>2, <1>3 DEF AloneInv

LEMMA AloneKept ==
    ASSUME Alone
    PROVE  AloneInv /\ [Next]_vars => AloneInv'
<1> SUFFICES ASSUME AloneInv, [Next]_vars PROVE AloneInv'
  OBVIOUS
<1>1. ASSUME NEW p \in Procs, Step(p) PROVE AloneInv'
  BY <1>1, AloneWalk, AloneLookup, AloneBuild, AloneFlush, AlonePublish, AloneManifest,
     AloneRef, AloneScan, AloneRemove, AlonePersisted DEF Step
<1>2. ASSUME NEW specs \in SUBSET Specs, Gc(specs) PROVE AloneInv'
  BY <1>2 DEF Gc, Alone, AloneInv, AloneDisk
<1> QED
  BY <1>1, <1>2, AloneCall, AloneCrash, AloneEdit, AloneStutter DEF Next

\* Wherever earlier calls of it died, one process alone never finds its own cache
\* broken, though the source changes while it is read.
THEOREM NeverFailsAlways ==
    ASSUME Alone
    PROVE  Spec => []NeverFails
<1>1. AloneInv => NeverFails
  BY DEF AloneInv, AloneStore
<1> QED
  BY <1>1, AloneInit, AloneKept, PTL DEF Spec

\* Eviction by one process alone spares the snapshot that the ref names.
THEOREM RefsKeptAlways ==
    ASSUME Alone
    PROVE  Spec => []RefsKept
<1>1. AloneInv => RefsKept
  BY DEF AloneInv, AloneStore, RefsKept
<1> QED
  BY <1>1, AloneInit, AloneKept, PTL DEF Spec

-----------------------------------------------------------------------------
(* Any processes and sources, edited or collected at any time: what eviction *)
(* leaves behind.  A scan hands the manifests beyond the limit to its        *)
(* process; whoever dies before it has removed its share leaves at most one  *)
(* more than there was before it persisted.                                  *)

\* Between the time stamp and the manifest that carries it.
Stampers == {p \in Procs : pc[p] \in {"publish", "manifest", "manifest2"}}
\* Between the manifest and the scan; between the scan and the return.
Written  == {p \in Procs : pc[p] \in {"ref", "ref2", "evict"}}
Removers == {p \in Procs : pc[p] = "remove"}

\* The snapshots whose manifests the process has still to remove.
Gone(p) == {n \in Snaps : <<n, "manifest.json">> \in victims[p]}

\* No two persists carry the same time.
StampsApart ==
    /\ clock \in Nat
    /\ \A n \in Snaps : Readable(n) => manifest[n].at \in 1 .. clock
    /\ \A p \in Stampers : stamp[p] \in 1 .. clock
    /\ \A n, m \in Snaps : Readable(n) /\ Readable(m) /\ n # m
                             => manifest[n].at # manifest[m].at
    /\ \A p \in Stampers, n \in Snaps : Readable(n) => manifest[n].at # stamp[p]
    /\ \A p, q \in Stampers : p # q => stamp[p] # stamp[q]

CountsInv ==
    /\ crashes \in Nat
    /\ pc \in [Procs -> Stations] /\ stamp = [p \in Procs |-> stamp[p]]
    /\ victims = [p \in Procs |-> victims[p]]
    /\ manifest = [n \in Snaps |-> manifest[n]]
    /\ IsFiniteSet({p \in Procs : pc[p] # "idle"})
    /\ IsFiniteSet({n \in Snaps : Readable(n)})

\* What may be left over when the removers of D die now.
Allowed(D) == Keep + Cardinality(Written) + crashes + Cardinality(D)

\* Whichever removers die now, one of the others keeps to the limit when it is
\* done, or it is kept to without any of them.
Contained(s) ==
    \A D \in SUBSET Removers :
      \/ Cardinality(OfSpec(s)) <= Allowed(D)
      \/ \E q \in Removers \ D : Cardinality(OfSpec(s) \ Gone(q)) <= Allowed(D)

EvictInv == CountsInv /\ StampsApart /\ \A s \in Specs : Contained(s)

LEMMA CountsAreNumbers ==
    ASSUME CountsInv
    PROVE  /\ IsFiniteSet(Written) /\ Cardinality(Written) \in Nat
           /\ IsFiniteSet(Removers)
           /\ \A D \in SUBSET Removers : IsFiniteSet(D) /\ Cardinality(D) \in Nat
           /\ \A s : IsFiniteSet(OfSpec(s)) /\ Cardinality(OfSpec(s)) \in Nat
           /\ \A s, V : /\ IsFiniteSet(OfSpec(s) \ V)
                        /\ Cardinality(OfSpec(s) \ V) \in Nat
<1>1. Written \in SUBSET {p \in Procs : pc[p] # "idle"}
      /\ Removers \in SUBSET {p \in Procs : pc[p] # "idle"}
  BY DEF Written, Removers
<1>2. IsFiniteSet(Written) /\ IsFiniteSet(Removers)
  BY <1>1, FS_Subset DEF CountsInv
<1>3. \A D \in SUBSET Removers : IsFiniteSet(D)
  BY <1>2, FS_Subset
<1>4. ASSUME NEW s, NEW V PROVE IsFiniteSet(OfSpec(s) \ V) /\ IsFiniteSet(OfSpec(s))
  <2>1. /\ OfSpec(s) \ V \in SUBSET {n \in Snaps : Readable(n)}
        /\ OfSpec(s) \in SUBSET {n \in Snaps : Readable(n)}
    BY DEF OfSpec
  <2> QED  BY <2>1, FS_Subset DEF CountsInv
<1>5. \A S : IsFiniteSet(S) => Cardinality(S) \in Nat
  BY FS_CardinalityType
<1> QED  BY <1>2, <1>3, <1>4, <1>5

\* What a scan leaves of a source is within the limit: how many are newer tells
\* any two of them apart.
LEMMA ScanKeeps ==
    ASSUME CountsInv, StampsApart, NEW s
    PROVE  Cardinality({n \in OfSpec(s) : ~BeyondKeep(n)}) <= Keep
<1> DEFINE T == {n \in OfSpec(s) : ~BeyondKeep(n)}
           rank == [n \in T |-> Cardinality(Newer(n))]
<1>1. ASSUME NEW n \in OfSpec(s)
      PROVE  Newer(n) \in SUBSET OfSpec(s) /\ IsFiniteSet(Newer(n))
             /\ Cardinality(Newer(n)) \in Nat
  <2>1. Newer(n) \in SUBSET OfSpec(s) /\ IsFiniteSet(OfSpec(s))
    BY CountsAreNumbers DEF Newer, OfSpec
  <2> QED  BY <2>1, FS_Subset, FS_CardinalityType
<1>2. rank \in [T -> 0 .. Keep - 1]
  BY <1>1, IndexCacheAssumption DEF BeyondKeep
<1>3. ASSUME NEW n \in T, NEW m \in T, manifest[n].at < manifest[m].at
      PROVE  Cardinality(Newer(m)) < Cardinality(Newer(n))
  <2>1. /\ Newer(m) \in SUBSET Newer(n)
        /\ m \in Newer(n) /\ m \notin Newer(m)
    BY <1>3 DEF Newer, OfSpec, StampsApart
  <2>2. /\ Cardinality(Newer(m)) <= Cardinality(Newer(n))
        /\ Cardinality(Newer(m)) # Cardinality(Newer(n))
    BY <1>1, <2>1, FS_Subset
  <2> QED  BY <1>1, <2>2
<1>4. \A n, m \in T : n # m => rank[n] # rank[m]
  <2> SUFFICES ASSUME NEW n \in T, NEW m \in T, n # m PROVE rank[n] # rank[m]
    OBVIOUS
  <2>1. manifest[n].at < manifest[m].at \/ manifest[m].at < manifest[n].at
    BY DEF StampsApart, OfSpec
  <2>2. Cardinality(Newer(n)) # Cardinality(Newer(m))
    BY <1>1, <1>3, <2>1
  <2> QED  BY <2>2
<1>5. rank \in Injection(T, 0 .. Keep - 1)
  BY <1>2, <1>4 DEF Injection, IsInjective
<1>6. IsFiniteSet(0 .. Keep - 1) /\ Cardinality(0 .. Keep - 1) = Keep
  BY FS_Interval, IndexCacheAssumption
<1>7. Cardinality(T) <= Cardinality(0 .. Keep - 1)
  <2> HIDE DEF T, rank
  <2> QED  BY <1>5, <1>6, FS_Injection
<1> QED  BY <1>6, <1>7

LEMMA CountedAfter ==
    ASSUME CountsInv', NEW s
    PROVE  IsFiniteSet(OfSpec(s)')
<1>1. OfSpec(s)' \in SUBSET {n \in Snaps : Readable(n)'}
  BY DEF OfSpec
<1> QED  BY <1>1, FS_Subset DEF CountsInv

LEMMA EvictInit == Init => EvictInv
<1> SUFFICES ASSUME Init PROVE EvictInv
  OBVIOUS
<1>1. /\ Removers = {} /\ Written = {} /\ Stampers = {}
      /\ {p \in Procs : pc[p] # "idle"} = {}
      /\ {n \in Snaps : Readable(n)} = {} /\ \A s : OfSpec(s) = {}
  BY DEF Init, Removers, Written, Stampers, Readable, OfSpec
<1>2. CountsInv
  BY <1>1, FS_EmptySet DEF Init, CountsInv, Stations
<1>3. StampsApart
  BY <1>1 DEF Init, StampsApart, Readable
<1>4. ASSUME NEW s \in Specs PROVE Contained(s)
  <2>1. Cardinality(OfSpec(s)) = 0
    BY <1>1, FS_EmptySet
  <2>2. \A D \in SUBSET Removers : Cardinality(D) \in Nat
    BY <1>2, CountsAreNumbers
  <2>3. Cardinality(Written) \in Nat /\ crashes \in Nat
    BY <1>2, CountsAreNumbers DEF CountsInv
  <2> QED  BY <2>1, <2>2, <2>3, IndexCacheAssumption DEF Contained, Allowed
<1> QED  BY <1>2, <1>3, <1>4 DEF EvictInv

\* The steps of one process: at most it gets busy, and at most one more manifest
\* can be read.
LEMMA CountsStep ==
    ASSUME CountsInv, NEW p \in Procs, NEW x,
           crashes' \in Nat, pc' \in [Procs -> Stations],
           \A q \in Procs \ {p} : pc'[q] = pc[q],
           stamp' = [q \in Procs |-> stamp'[q]],
           victims' = [q \in Procs |-> victims'[q]],
           manifest' = [n \in Snaps |-> manifest'[n]],
           \A n \in Snaps \ {x} : Readable(n)' => Readable(n)
    PROVE  CountsInv'
<1> DEFINE Busy == {q \in Procs : pc[q] # "idle"}
           Rd == {n \in Snaps : Readable(n)}
<1>1. IsFiniteSet(Busy \cup {p}) /\ IsFiniteSet(Rd \cup {x})
  BY FS_AddElement DEF CountsInv
<1>2. Busy' \in SUBSET (Busy \cup {p}) /\ Rd' \in SUBSET (Rd \cup {x})
  OBVIOUS
<1>3. IsFiniteSet(Busy') /\ IsFiniteSet(Rd')
  <2> HIDE DEF Busy, Rd
  <2> QED  BY <1>1, <1>2, FS_Subset
<1> QED  BY <1>3 DEF CountsInv

\* Manifests that stay keep their time.
LEMMA StampsStay ==
    ASSUME StampsApart, clock' = clock, Stampers' \subseteq Stampers,
           \A p \in Stampers' : stamp'[p] = stamp[p],
           \A n \in Snaps : Readable(n)' => manifest'[n] = manifest[n]
    PROVE  StampsApart'
<1>1. \A n \in Snaps : Readable(n)' => Readable(n) /\ manifest'[n].at = manifest[n].at
  BY DEF Readable
<1> QED  BY <1>1 DEF StampsApart

\* What leaves no more to read, and neither scans nor returns, is contained.
LEMMA ContainedStays ==
    ASSUME CountsInv, CountsInv', NEW s, Contained(s),
           crashes' = crashes, Written' = Written, Removers' = Removers,
           OfSpec(s)' \subseteq OfSpec(s),
           \A q \in Removers : (OfSpec(s) \ Gone(q))' \subseteq OfSpec(s) \ Gone(q)
    PROVE  Contained(s)'
<1>1. Cardinality(OfSpec(s)') <= Cardinality(OfSpec(s))
      /\ Cardinality(OfSpec(s)') \in Nat /\ Cardinality(OfSpec(s)) \in Nat
  <2>1. IsFiniteSet(OfSpec(s))
    BY CountsAreNumbers
  <2> QED  BY <2>1, FS_Subset, FS_CardinalityType
<1>2. ASSUME NEW q \in Removers
      PROVE  /\ Cardinality((OfSpec(s) \ Gone(q))') <= Cardinality(OfSpec(s) \ Gone(q))
             /\ Cardinality((OfSpec(s) \ Gone(q))') \in Nat
             /\ Cardinality(OfSpec(s) \ Gone(q)) \in Nat
  <2>1. IsFiniteSet(OfSpec(s) \ Gone(q))
    BY CountsAreNumbers
  <2> QED  BY <2>1, FS_Subset, FS_CardinalityType
<1>3. ASSUME NEW D \in SUBSET Removers
      PROVE  \/ Cardinality(OfSpec(s)') <= Allowed(D)'
             \/ \E q \in Removers' \ D : Cardinality((OfSpec(s) \ Gone(q))') <= Allowed(D)'
  <2>1. Allowed(D)' = Allowed(D) /\ Allowed(D) \in Nat
    BY CountsAreNumbers, IndexCacheAssumption DEF Allowed, CountsInv
  <2>2. CASE Cardinality(OfSpec(s)) <= Allowed(D)
    BY <1>1, <2>1, <2>2
  <2>3. CASE \E q \in Removers \ D : Cardinality(OfSpec(s) \ Gone(q)) <= Allowed(D)
    <3>1. PICK q \in Removers \ D : Cardinality(OfSpec(s) \ Gone(q)) <= Allowed(D)
      BY <2>3
    <3>2. Cardinality((OfSpec(s) \ Gone(q))') <= Allowed(D)'
      BY <1>2, <2>1, <3>1
    <3> QED  BY <3>1, <3>2
  <2> QED  BY <2>2, <2>3 DEF Contained
<1> QED  BY <1>3 DEF Contained

\* Manifests that stay are of the same source, and nobody joins or leaves.
LEMMA QuietStep ==
    ASSUME EvictInv, CountsInv', clock' = clock, crashes' = crashes,
           Written' = Written, Removers' = Removers, Stampers' \subseteq Stampers,
           \A p \in Stampers' : stamp'[p] = stamp[p],
           \A n \in Snaps : Readable(n)' => manifest'[n] = manifest[n],
           \A q \in Removers, n \in Snaps :
             n \in Gone(q) \ Gone(q)' => ~Readable(n)'
    PROVE  EvictInv'
<1>1. StampsApart'
  BY StampsStay DEF EvictInv
<1>2. ASSUME NEW s \in Specs PROVE Contained(s)'
  <2>1. OfSpec(s)' \subseteq OfSpec(s)
    BY DEF OfSpec, Readable
  <2>2. \A q \in Removers : (OfSpec(s) \ Gone(q))' \subseteq OfSpec(s) \ Gone(q)
    BY <2>1 DEF OfSpec
  <2> QED  BY <2>1, <2>2, ContainedStays DEF EvictInv
<1> QED  BY <1>1, <1>2 DEF EvictInv

\* The stations before anything is published.
Early == {"idle", "walk", "check", "load", "build"}

LEMMA EarlyStep ==
    ASSUME EvictInv, NEW p \in Procs,
           \/ \E s \in Specs, k \in {"index", "refresh"} : Call(p, s, k)
           \/ Walk(p) \/ Check(p) \/ Load(p) \/ BuildStep(p)
    PROVE  EvictInv'
<1> USE DEF EvictInv
<1>1. /\ pc[p] \in Early /\ clock' = clock /\ manifest' = manifest
      /\ pc' \in [Procs -> Stations] /\ pc'[p] \in Early
      /\ \A q \in Procs \ {p} : /\ pc'[q] = pc[q] /\ stamp'[q] = stamp[q]
                                /\ victims'[q] = victims[q]
      /\ stamp' = [q \in Procs |-> stamp'[q]] /\ victims' = [q \in Procs |-> victims'[q]]
      /\ crashes' = crashes
  BY DEF Call, Walk, Check, Load, BuildStep, Reuse, Analyze, Locked, CannotRead, Todo,
         Raise, Return, Forget, Goto, disk, work, bounds, CountsInv, Stations, Early
<1>2. CountsInv'
  <2>1. \A n \in Snaps \ {None} : Readable(n)' => Readable(n)
    BY <1>1 DEF Readable
  <2>2. crashes' \in Nat /\ manifest' = [n \in Snaps |-> manifest'[n]]
    BY <1>1 DEF CountsInv
  <2> QED  BY <1>1, <2>1, <2>2, CountsStep
<1>3. Written' = Written /\ Removers' = Removers /\ Stampers' = Stampers
      /\ p \notin Stampers \cup Removers
  BY <1>1 DEF Written, Removers, Stampers, Early
<1> QED  BY <1>1, <1>2, <1>3, QuietStep DEF Gone, Stampers, Removers

\* A flush takes a time nobody has.
LEMMA FlushApart ==
    ASSUME EvictInv, NEW p \in Procs, Flush(p)
    PROVE  EvictInv'
<1> USE DEF EvictInv, Flush, Goto
<1>1. CountsInv'
  <2>1. \A n \in Snaps \ {None} : Readable(n)' => Readable(n)
    BY DEF Readable
  <2> QED  BY <2>1, CountsStep DEF CountsInv, Stations, bounds
<1>2. Written' = Written /\ Removers' = Removers /\ Stampers' = Stampers \cup {p}
      /\ p \notin Stampers
  BY DEF Written, Removers, Stampers, CountsInv
<1>3. clock \in Nat /\ clock' = clock + 1 /\ stamp'[p] = clock + 1
      /\ \A q \in Stampers : stamp'[q] = stamp[q]
  BY <1>2 DEF CountsInv, StampsApart, Stampers
<1>4. StampsApart'
  <2>1. \A n \in Snaps : Readable(n)' = Readable(n)
    BY DEF Readable
  <2> QED  BY <1>2, <1>3, <2>1 DEF StampsApart
<1>5. ASSUME NEW s \in Specs PROVE Contained(s)'
  <2>1. OfSpec(s)' = OfSpec(s) /\ \A q \in Removers : Gone(q)' = Gone(q)
    BY DEF OfSpec, Readable, Gone
  <2> QED  BY <1>1, <1>2, <2>1, ContainedStays DEF bounds
<1> QED  BY <1>1, <1>4, <1>5

\* A manifest is written: its process is one more that may leave it behind.
LEMMA ManifestContained ==
    ASSUME EvictInv, NEW p \in Procs, WriteManifest(p)
    PROVE  EvictInv'
<1> USE DEF EvictInv, WriteManifest, Goto
<1> DEFINE x == snap[p]
<1>1. /\ \A n \in Snaps \ {x} : manifest'[n] = manifest[n] /\ Readable(n)' = Readable(n)
      /\ x \in Snaps => manifest'[x].at = stamp[p]
      /\ clock' = clock /\ stamp' = stamp /\ victims' = victims /\ crashes' = crashes
  BY DEF CountsInv, Readable, work, bounds
<1>2. CountsInv'
  BY <1>1, CountsStep DEF CountsInv, Stations
<1>3. /\ Written' = Written \cup {p} /\ p \notin Written
      /\ Removers' = Removers /\ Stampers' = Stampers \ {p} /\ p \in Stampers
  BY DEF Written, Removers, Stampers, CountsInv
<1>4. StampsApart'
  BY <1>1, <1>3 DEF StampsApart
<1>5. ASSUME NEW s \in Specs PROVE Contained(s)'
  <2>1. Cardinality(Written') = Cardinality(Written) + 1
    BY <1>3, CountsAreNumbers, FS_AddElement
  <2>2. ASSUME NEW D \in SUBSET Removers
        PROVE  Allowed(D)' = Allowed(D) + 1 /\ Allowed(D) \in Nat
    BY <1>1, <2>1, CountsAreNumbers, IndexCacheAssumption DEF Allowed, CountsInv
  <2>3. \A V : OfSpec(s)' \ V \in SUBSET ((OfSpec(s) \ V) \cup {x})
    BY <1>1 DEF OfSpec
  <2>4. ASSUME NEW V PROVE Cardinality(OfSpec(s)' \ V) <= Cardinality(OfSpec(s) \ V) + 1
    <3>1. IsFiniteSet(OfSpec(s) \ V) /\ Cardinality(OfSpec(s) \ V) \in Nat
      BY CountsAreNumbers
    <3>2. /\ IsFiniteSet((OfSpec(s) \ V) \cup {x})
          /\ \/ Cardinality((OfSpec(s) \ V) \cup {x}) = Cardinality(OfSpec(s) \ V)
             \/ Cardinality((OfSpec(s) \ V) \cup {x}) = Cardinality(OfSpec(s) \ V) + 1
      BY <3>1, FS_AddElement
    <3>3. /\ IsFiniteSet(OfSpec(s)' \ V)
          /\ Cardinality(OfSpec(s)' \ V) <= Cardinality((OfSpec(s) \ V) \cup {x})
      BY <2>3, <3>2, FS_Subset
    <3>4. Cardinality(OfSpec(s)' \ V) \in Nat
      BY <3>3, FS_CardinalityType
    <3> QED  BY <3>1, <3>2, <3>3, <3>4
  <2>5. ASSUME NEW D \in SUBSET Removers
        PROVE  \/ Cardinality(OfSpec(s)') <= Allowed(D)'
               \/ \E q \in Removers' \ D :
                     Cardinality((OfSpec(s) \ Gone(q))') <= Allowed(D)'
    <3>1. CASE Cardinality(OfSpec(s)) <= Allowed(D)
      <4>1. OfSpec(s)' \ {} = OfSpec(s)' /\ OfSpec(s) \ {} = OfSpec(s)
        OBVIOUS
      <4>2. Cardinality(OfSpec(s)') <= Cardinality(OfSpec(s)) + 1
        BY <2>4, <4>1
      <4>3. Cardinality(OfSpec(s)) \in Nat /\ Cardinality(OfSpec(s)') \in Nat
        <5>1. IsFiniteSet(OfSpec(s)')
          BY <1>2, CountedAfter
        <5> QED  BY <5>1, CountsAreNumbers, FS_CardinalityType
      <4> QED  BY <2>2, <3>1, <4>2, <4>3
    <3>2. CASE \E q \in Removers \ D : Cardinality(OfSpec(s) \ Gone(q)) <= Allowed(D)
      <4>1. PICK q \in Removers \ D : Cardinality(OfSpec(s) \ Gone(q)) <= Allowed(D)
        BY <3>2
      <4>2. Gone(q)' = Gone(q)
        BY <1>1 DEF Gone
      <4>3. Cardinality(OfSpec(s)' \ Gone(q)) <= Cardinality(OfSpec(s) \ Gone(q)) + 1
        BY <2>4
      <4>4. /\ Cardinality(OfSpec(s) \ Gone(q)) \in Nat
            /\ Cardinality(OfSpec(s)' \ Gone(q)) \in Nat
        <5>1. IsFiniteSet(OfSpec(s)') /\ OfSpec(s)' \ Gone(q) \in SUBSET OfSpec(s)'
          BY <1>2, CountedAfter
        <5> QED  BY <5>1, CountsAreNumbers, FS_Subset, FS_CardinalityType
      <4>5. Cardinality(OfSpec(s)' \ Gone(q)) <= Allowed(D)'
        BY <2>2, <4>1, <4>3, <4>4
      <4> QED  BY <1>3, <4>1, <4>2, <4>5
    <3> QED  BY <3>1, <3>2 DEF Contained
  <2> QED  BY <1>3, <2>5 DEF Contained
<1> QED  BY <1>2, <1>4, <1>5

\* The last to scan is the one that keeps to the limit.
LEMMA ScanContained ==
    ASSUME EvictInv, NEW p \in Procs, Scan(p)
    PROVE  EvictInv'
<1> USE DEF EvictInv, Scan, Goto
<1>1. /\ manifest' = manifest /\ clock' = clock /\ stamp' = stamp /\ crashes' = crashes
      /\ \A n \in Snaps : Readable(n)' = Readable(n)
      /\ \A s : OfSpec(s)' = OfSpec(s)
      /\ \A q \in Procs \ {p} : Gone(q)' = Gone(q)
  BY DEF disk, bounds, Readable, OfSpec, Gone, CountsInv
<1>2. CountsInv'
  <2>1. \A n \in Snaps \ {None} : Readable(n)' => Readable(n)
    BY <1>1
  <2> QED  BY <1>1, <2>1, CountsStep DEF CountsInv, Stations
<1>3. /\ Written' = Written \ {p} /\ p \in Written
      /\ Removers' = Removers \cup {p} /\ p \notin Removers
      /\ Stampers' = Stampers
  BY DEF Written, Removers, Stampers, CountsInv
<1>4. StampsApart'
  BY <1>1, <1>3, StampsStay
<1>5. ASSUME NEW s \in Specs PROVE Contained(s)'
  <2>1. Cardinality(Written') = Cardinality(Written) - 1
        /\ Cardinality(Written') \in Nat
    BY <1>3, CountsAreNumbers, FS_RemoveElement, FS_CardinalityType
  <2>2. ASSUME NEW D \in SUBSET Removers', p \notin D
        PROVE  \E q \in Removers' \ D : Cardinality((OfSpec(s) \ Gone(q))') <= Allowed(D)'
    <3>1. Gone(p)' = {n \in Snaps : Readable(n) /\ (Expired(n) \/ BeyondKeep(n))}
      BY DEF Gone, CountsInv
    <3>2. (OfSpec(s) \ Gone(p))' \in SUBSET {n \in OfSpec(s) : ~BeyondKeep(n)}
      BY <1>1, <3>1 DEF OfSpec
    <3>3. IsFiniteSet({n \in OfSpec(s) : ~BeyondKeep(n)})
      <4>1. {n \in OfSpec(s) : ~BeyondKeep(n)} \in SUBSET OfSpec(s)
        OBVIOUS
      <4> QED  BY <4>1, CountsAreNumbers, FS_Subset
    <3>4. /\ Cardinality((OfSpec(s) \ Gone(p))')
             <= Cardinality({n \in OfSpec(s) : ~BeyondKeep(n)})
          /\ Cardinality((OfSpec(s) \ Gone(p))') \in Nat
          /\ Cardinality({n \in OfSpec(s) : ~BeyondKeep(n)}) \in Nat
      BY <3>2, <3>3, FS_Subset, FS_CardinalityType
    <3>5. Cardinality({n \in OfSpec(s) : ~BeyondKeep(n)}) <= Keep
      BY ScanKeeps
    <3>6. Cardinality(D) \in Nat /\ crashes \in Nat
      BY <1>3, <2>2, CountsAreNumbers DEF CountsInv
    <3>7. Cardinality((OfSpec(s) \ Gone(p))') <= Allowed(D)'
      BY <1>1, <2>1, <3>4, <3>5, <3>6, IndexCacheAssumption DEF Allowed
    <3> QED  BY <1>3, <2>2, <3>7
  <2>3. ASSUME NEW D \in SUBSET Removers', p \in D
        PROVE  \/ Cardinality(OfSpec(s)') <= Allowed(D)'
               \/ \E q \in Removers' \ D : Cardinality((OfSpec(s) \ Gone(q))') <= Allowed(D)'
    <3> DEFINE E == D \ {p}
    <3>1. E \in SUBSET Removers /\ D = E \cup {p} /\ p \notin E
      BY <1>3, <2>3
    <3>2. Cardinality(E) \in Nat /\ IsFiniteSet(E)
      BY <3>1, CountsAreNumbers
    <3>3. Cardinality(D) = Cardinality(E) + 1
      <4> HIDE DEF E
      <4> QED  BY <3>1, <3>2, FS_AddElement
    <3>4. Cardinality(Written) \in Nat /\ crashes \in Nat /\ crashes' = crashes
      BY <1>1, CountsAreNumbers DEF CountsInv
    <3>5. Allowed(D)' = Allowed(E)
      <4> HIDE DEF E
      <4> QED  BY <2>1, <3>2, <3>3, <3>4, IndexCacheAssumption DEF Allowed
    <3>6. Removers' \ D = Removers \ E
      BY <1>3, <3>1
    <3>7. \A q \in Removers \ E : (OfSpec(s) \ Gone(q))' = OfSpec(s) \ Gone(q)
      BY <1>1, <1>3 DEF Removers
    <3>8. \/ Cardinality(OfSpec(s)) <= Allowed(E)
          \/ \E q \in Removers \ E : Cardinality(OfSpec(s) \ Gone(q)) <= Allowed(E)
      BY <3>1 DEF Contained
    <3> HIDE DEF E
    <3> QED  BY <1>1, <3>5, <3>6, <3>7, <3>8
  <2>4. ASSUME NEW D \in SUBSET Removers'
        PROVE  \/ Cardinality(OfSpec(s)') <= Allowed(D)'
               \/ \E q \in Removers' \ D : Cardinality((OfSpec(s) \ Gone(q))') <= Allowed(D)'
    BY <2>2, <2>3
  <2> QED  BY <2>4 DEF Contained
<1> QED  BY <1>2, <1>4, <1>5

\* Who has removed its share leaves what it leaves.
LEMMA PersistedContained ==
    ASSUME EvictInv, NEW p \in Procs, Persisted(p)
    PROVE  EvictInv'
<1> USE DEF EvictInv, Persisted, Return, Forget
<1>1. /\ manifest' = manifest /\ clock' = clock /\ crashes' = crashes
      /\ \A n \in Snaps : Readable(n)' = Readable(n)
      /\ \A s : OfSpec(s)' = OfSpec(s)
      /\ Gone(p) = {} /\ \A q \in Procs \ {p} : Gone(q)' = Gone(q)
  BY DEF disk, bounds, Readable, OfSpec, Gone, CountsInv
<1>2. CountsInv'
  <2>1. \A n \in Snaps \ {None} : Readable(n)' => Readable(n)
    BY <1>1
  <2> QED  BY <1>1, <2>1, CountsStep DEF CountsInv, Stations
<1>3. /\ Written' = Written /\ Removers' = Removers \ {p} /\ p \in Removers
      /\ Stampers' = Stampers /\ p \notin Stampers
  BY DEF Written, Removers, Stampers, CountsInv
<1>4. StampsApart'
  <2>1. \A q \in Stampers' : stamp'[q] = stamp[q]
    BY <1>3 DEF Stampers, CountsInv
  <2> QED  BY <1>1, <1>3, <2>1, StampsStay
<1>5. ASSUME NEW s \in Specs, NEW D \in SUBSET Removers'
      PROVE  \/ Cardinality(OfSpec(s)') <= Allowed(D)'
             \/ \E q \in Removers' \ D : Cardinality((OfSpec(s) \ Gone(q))') <= Allowed(D)'
  <2>1. D \in SUBSET Removers /\ p \notin D /\ Allowed(D)' = Allowed(D)
    BY <1>1, <1>3 DEF Allowed
  <2>2. \/ Cardinality(OfSpec(s)) <= Allowed(D)
        \/ \E q \in Removers \ D : Cardinality(OfSpec(s) \ Gone(q)) <= Allowed(D)
    BY <2>1 DEF Contained
  <2>3. OfSpec(s) \ Gone(p) = OfSpec(s)
    BY <1>1
  <2>4. \A q \in Removers \ {p} : (OfSpec(s) \ Gone(q))' = OfSpec(s) \ Gone(q)
    BY <1>1 DEF Removers
  <2> QED  BY <1>1, <1>3, <2>1, <2>2, <2>3, <2>4
<1> QED  BY <1>2, <1>4, <1>5 DEF Contained

\* Who dies leaves at most one more than there would have been.
LEMMA CrashContained ==
    ASSUME EvictInv, NEW p \in Procs, Crash(p)
    PROVE  EvictInv'
<1> USE DEF EvictInv, Crash, Forget
<1>1. /\ manifest' = manifest /\ clock' = clock /\ crashes' = crashes + 1
      /\ \A n \in Snaps : Readable(n)' = Readable(n)
      /\ \A s : OfSpec(s)' = OfSpec(s)
      /\ \A q \in Procs \ {p} : Gone(q)' = Gone(q)
  BY DEF disk, Readable, OfSpec, Gone, CountsInv
<1>2. CountsInv'
  <2>1. \A n \in Snaps \ {None} : Readable(n)' => Readable(n)
    BY <1>1
  <2>2. crashes' \in Nat
    BY <1>1 DEF CountsInv
  <2>3. /\ pc' \in [Procs -> Stations] /\ \A q \in Procs \ {p} : pc'[q] = pc[q]
        /\ stamp' = [q \in Procs |-> stamp'[q]] /\ victims' = [q \in Procs |-> victims'[q]]
        /\ manifest' = [n \in Snaps |-> manifest'[n]]
    BY <1>1 DEF CountsInv, Stations
  <2> QED  BY <2>1, <2>2, <2>3, CountsStep
<1>3. /\ Written' = Written \ {p} /\ Removers' = Removers \ {p}
      /\ Stampers' = Stampers \ {p}
      /\ p \in Removers => Written' = Written
  BY DEF Written, Removers, Stampers, CountsInv
<1>4. StampsApart'
  <2>1. \A q \in Stampers' : stamp'[q] = stamp[q]
    BY <1>3 DEF Stampers, CountsInv
  <2>2. Stampers' \subseteq Stampers
    BY <1>3
  <2>3. \A n \in Snaps : Readable(n)' => manifest'[n] = manifest[n]
    BY <1>1
  <2> QED  BY <1>1, <2>1, <2>2, <2>3, StampsStay
<1>5. /\ Cardinality(Written) \in Nat /\ Cardinality(Written') \in Nat
      /\ Cardinality(Written') >= Cardinality(Written) - 1
      /\ p \in Removers => Cardinality(Written') = Cardinality(Written)
  <2>1. IsFiniteSet(Written) /\ Cardinality(Written) \in Nat
    BY CountsAreNumbers
  <2>2. /\ IsFiniteSet(Written \ {p})
        /\ \/ Cardinality(Written \ {p}) = Cardinality(Written)
           \/ Cardinality(Written \ {p}) = Cardinality(Written) - 1
    BY <2>1, FS_RemoveElement
  <2>3. Cardinality(Written \ {p}) \in Nat
    BY <2>2, FS_CardinalityType
  <2>4. Cardinality(Written') = Cardinality(Written \ {p})
    BY <1>3
  <2>5. p \in Removers => Cardinality(Written') = Cardinality(Written)
    BY <1>3
  <2> QED  BY <2>1, <2>2, <2>3, <2>4, <2>5
<1>6. ASSUME NEW s \in Specs, NEW D \in SUBSET Removers'
      PROVE  \/ Cardinality(OfSpec(s)') <= Allowed(D)'
             \/ \E q \in Removers' \ D : Cardinality((OfSpec(s) \ Gone(q))') <= Allowed(D)'
  <2> DEFINE E == D \cup (Removers \cap {p})
  <2>1. E \in SUBSET Removers /\ D \in SUBSET Removers /\ Removers' \ D = Removers \ E
        /\ p \notin D
    BY <1>3
  <2>2. /\ Cardinality(D) \in Nat /\ IsFiniteSet(D)
        /\ Cardinality(E) = IF p \in Removers THEN Cardinality(D) + 1 ELSE Cardinality(D)
    <3>1. Cardinality(D) \in Nat /\ IsFiniteSet(D)
      BY <2>1, CountsAreNumbers
    <3>2. Cardinality(D \cup {p}) = Cardinality(D) + 1
      BY <2>1, <3>1, FS_AddElement
    <3>3. E = IF p \in Removers THEN D \cup {p} ELSE D
      OBVIOUS
    <3> HIDE DEF E
    <3> QED  BY <3>1, <3>2, <3>3
  <2>3. Allowed(E) <= Allowed(D)' /\ Allowed(E) \in Nat /\ Allowed(D)' \in Nat
    <3> HIDE DEF E
    <3>1. crashes \in Nat
      BY DEF CountsInv
    <3> QED  BY <1>1, <1>5, <2>2, <3>1, IndexCacheAssumption DEF Allowed
  <2>4. \/ Cardinality(OfSpec(s)) <= Allowed(E)
        \/ \E q \in Removers \ E : Cardinality(OfSpec(s) \ Gone(q)) <= Allowed(E)
    BY <2>1 DEF Contained
  <2>5. \A q \in Removers \ E : (OfSpec(s) \ Gone(q))' = OfSpec(s) \ Gone(q)
    BY <1>1 DEF Removers
  <2>6. /\ Cardinality(OfSpec(s)) \in Nat
        /\ \A q : Cardinality(OfSpec(s) \ Gone(q)) \in Nat
    BY CountsAreNumbers
  <2>7. CASE Cardinality(OfSpec(s)) <= Allowed(E)
    BY <1>1, <2>3, <2>6, <2>7
  <2>8. CASE \E q \in Removers \ E : Cardinality(OfSpec(s) \ Gone(q)) <= Allowed(E)
    <3> HIDE DEF E
    <3>1. PICK q \in Removers \ E : Cardinality(OfSpec(s) \ Gone(q)) <= Allowed(E)
      BY <2>8
    <3>2. Cardinality((OfSpec(s) \ Gone(q))') <= Allowed(D)'
      <4>1. (OfSpec(s) \ Gone(q))' = OfSpec(s) \ Gone(q)
        BY <2>5, <3>1
      <4>2. Cardinality(OfSpec(s) \ Gone(q)) \in Nat
        BY <2>6
      <4>3. Cardinality(OfSpec(s) \ Gone(q)) <= Allowed(D)'
        BY <2>3, <3>1, <4>2
      <4> QED  BY <4>1, <4>3
    <3> QED  BY <2>1, <3>1, <3>2
  <2> QED  BY <2>4, <2>7, <2>8
<1> QED  BY <1>2, <1>4, <1>6 DEF Contained

\* A file of a victim goes: from the disk and from the list.
LEMMA RemoveContained ==
    ASSUME EvictInv, NEW p \in Procs, Remove(p)
    PROVE  EvictInv'
<1> USE DEF EvictInv, Remove
<1>1. PICK v \in victims[p] :
        /\ manifest' = IF v[2] = "graph.db" THEN manifest
                       ELSE [manifest EXCEPT ![v[1]] = None]
        /\ victims' = [victims EXCEPT ![p] = @ \ {v}]
  OBVIOUS
<1>2. \A n \in Snaps : Readable(n)' => manifest'[n] = manifest[n] /\ Readable(n)
  BY <1>1 DEF Readable, CountsInv
<1>3. CountsInv'
  <2>1. \A n \in Snaps \ {None} : Readable(n)' => Readable(n)
    BY <1>2
  <2>2. /\ manifest' = [n \in Snaps |-> manifest'[n]]
        /\ victims' = [q \in Procs |-> victims'[q]]
    BY <1>1 DEF CountsInv
  <2> QED  BY <2>1, <2>2, CountsStep DEF CountsInv, bounds
<1>4. ASSUME NEW q \in Removers, NEW n \in Snaps, n \in Gone(q) \ Gone(q)'
      PROVE  ~Readable(n)'
  <2>1. v = <<n, "manifest.json">> /\ v[1] = n /\ v[2] # "graph.db"
    BY <1>1, <1>4 DEF Gone, Removers, CountsInv
  <2> QED  BY <1>1, <2>1 DEF Readable, CountsInv
<1>5. Written' = Written /\ Removers' = Removers /\ Stampers' = Stampers
  BY DEF Written, Removers, Stampers
<1> QED  BY <1>2, <1>3, <1>4, <1>5, QuietStep DEF bounds

\* The steps that change no manifest but to tear it.
LEMMA WriteContained ==
    ASSUME EvictInv, NEW p \in Procs,
           Publish(p) \/ TruncateManifest(p) \/ TruncateRef(p) \/ WriteRef(p)
    PROVE  EvictInv'
<1> USE DEF EvictInv, Publish, TruncateManifest, TruncateRef, WriteRef, Goto, bounds, work
<1>1. \A n \in Snaps : Readable(n)' => manifest'[n] = manifest[n] /\ Readable(n)
  BY DEF Readable, CountsInv
<1>2. CountsInv'
  <2>1. \A n \in Snaps \ {None} : Readable(n)' => Readable(n)
    BY <1>1
  <2>2. manifest' = [n \in Snaps |-> manifest'[n]]
    BY DEF CountsInv
  <2>3. /\ pc' \in [Procs -> Stations] /\ \A q \in Procs \ {p} : pc'[q] = pc[q]
        /\ stamp' = stamp /\ victims' = victims /\ crashes' = crashes
    BY DEF CountsInv, Stations
  <2> QED  BY <2>1, <2>2, <2>3, CountsStep DEF CountsInv
<1>3. Written' = Written /\ Removers' = Removers /\ Stampers' = Stampers
      /\ stamp' = stamp /\ victims' = victims
  BY DEF Written, Removers, Stampers, CountsInv
<1> QED  BY <1>1, <1>2, <1>3, QuietStep DEF Gone

LEMMA AroundContained ==
    ASSUME EvictInv,
           \/ UNCHANGED vars \/ \E specs \in SUBSET Specs : Gc(specs)
           \/ \E s \in Specs, f \in Files, c \in Contents : Edit(s, f, c)
    PROVE  EvictInv'
<1> USE DEF EvictInv, Gc, Edit, vars, disk, work
<1>1. \A n \in Snaps : Readable(n)' => manifest'[n] = manifest[n] /\ Readable(n)
  BY DEF Readable
<1>2. UNCHANGED <<pc, stamp, victims, clock, crashes>>
  OBVIOUS
<1>3. CountsInv'
  <2>1. {n \in Snaps : Readable(n)'} \in SUBSET {n \in Snaps : Readable(n)}
    BY <1>1
  <2>2. IsFiniteSet({n \in Snaps : Readable(n)'})
    BY <2>1, FS_Subset DEF CountsInv
  <2>3. manifest' = [n \in Snaps |-> manifest'[n]]
    BY DEF CountsInv
  <2> QED  BY <1>2, <2>2, <2>3 DEF CountsInv
<1>4. Written' = Written /\ Removers' = Removers /\ Stampers' = Stampers
  BY <1>2 DEF Written, Removers, Stampers
<1> QED  BY <1>1, <1>2, <1>3, <1>4, QuietStep DEF Gone

LEMMA EvictKept == EvictInv /\ [Next]_vars => EvictInv'
<1> SUFFICES ASSUME EvictInv, [Next]_vars PROVE EvictInv'
  OBVIOUS
<1>1. ASSUME NEW p \in Procs, Step(p) PROVE EvictInv'
  BY <1>1, EarlyStep, FlushApart, WriteContained, ManifestContained, ScanContained,
     RemoveContained, PersistedContained DEF Step
<1> QED
  BY <1>1, EarlyStep, CrashContained, AroundContained DEF Next

\* However many processes share the cache, and whatever is edited or collected,
\* eviction leaves no source more snapshots than the limit once nobody writes, but
\* for one of each call that died.
THEOREM BoundedAlways == Spec => []Bounded
<1>1. EvictInv => Bounded
  <2> SUFFICES ASSUME EvictInv, Quiescent, NEW s \in Specs
               PROVE  Cardinality(OfSpec(s)) <= Keep + crashes
    BY DEF Bounded
  <2>1. Removers = {} /\ Written = {} /\ {} \in SUBSET Removers
    BY DEF Quiescent, Removers, Written
  <2>2. Allowed({}) = Keep + crashes
    BY <2>1, FS_EmptySet, IndexCacheAssumption DEF Allowed, EvictInv, CountsInv
  <2> QED  BY <2>1, <2>2 DEF EvictInv, Contained
<1> QED  BY <1>1, EvictInit, EvictKept, PTL DEF Spec

-----------------------------------------------------------------------------
(* Type correctness.  The clock keeps to its bound because each call under   *)
(* way has a tick left for it.                                               *)

\* Where a call has no time stamp yet, and where it has its snapshot.
Unsealed == {"idle", "walk", "check", "load", "build"}
Walked   == {"check", "build"} \cup After

DiskTypes ==
    /\ tree \in [Specs -> Snaps] /\ extract \in Rows
    /\ graph \in [Snaps -> Graphs \cup {None}]
    /\ manifest \in [Snaps -> Manifests \cup {None, Torn}]
    /\ ref \in [Specs -> Snaps \cup {None}]
    /\ edits \in Nat /\ crashes \in Nat /\ faults \in Nat /\ gcs \in Nat

CallTypes ==
    /\ pc \in [Procs -> Stations] /\ spec \in [Procs -> Specs \cup {None}]
    /\ kind \in [Procs -> {"none", "index", "refresh"}]
    /\ snap \in [Procs -> [Files -> Contents \cup {None}]]
    /\ made \in [Procs -> Partial] /\ stamp \in [Procs -> 0 .. MaxPersists]
    /\ puts \in [Procs -> Rows] /\ before \in [Procs -> Snaps \cup {None}]
    /\ aged \in [Procs -> BOOLEAN]
    /\ victims \in [Procs -> SUBSET (Snaps \X {"graph.db", "manifest.json"})]

ResultTypes == result \in [Procs -> Results \cup {None, Failed}]

\* What the place of a call says of it.
PlaceTypes ==
    \A p \in Procs :
      /\ pc[p] # "idle" => spec[p] \in Specs
      /\ pc[p] \in Walked => snap[p] \in Snaps
      /\ pc[p] \in Built => made[p] \in Graphs /\ stamp[p] \in 1 .. MaxPersists
      /\ pc[p] \in Unsealed => stamp[p] = 0

TicksLeft ==
    /\ IsFiniteSet({p \in Procs : pc[p] # "idle"})
    /\ clock \in Nat /\ clock + Cardinality(Unstamped) <= MaxPersists

TypeInv == DiskTypes /\ CallTypes /\ ResultTypes /\ PlaceTypes /\ TicksLeft

LEMMA UnstampedCounted ==
    ASSUME TicksLeft
    PROVE  IsFiniteSet(Unstamped) /\ Cardinality(Unstamped) \in Nat
<1>1. Unstamped \in SUBSET {p \in Procs : pc[p] # "idle"}
  BY DEF Unstamped
<1> QED  BY <1>1, FS_Subset, FS_CardinalityType DEF TicksLeft

LEMMA TypeInvTypes == TypeInv => TypeOK
<1> SUFFICES ASSUME TypeInv PROVE TypeOK
  OBVIOUS
<1>1. clock \in 0 .. MaxPersists
  BY UnstampedCounted, IndexCacheAssumption DEF TypeInv, TicksLeft
<1> QED  BY <1>1 DEF TypeInv, TypeOK, DiskTypes, CallTypes, ResultTypes

LEMMA TypeInit == Init => TypeInv
<1> SUFFICES ASSUME Init PROVE TypeInv
  OBVIOUS
<1>1. Unstamped = {} /\ {p \in Procs : pc[p] # "idle"} = {}
  BY DEF Init, Unstamped
<1>2. TicksLeft
  <2>1. IsFiniteSet({}) /\ Cardinality(Unstamped) = 0
    BY <1>1, FS_EmptySet
  <2>2. IsFiniteSet({p \in Procs : pc[p] # "idle"})
    BY <1>1, <2>1
  <2>3. clock + Cardinality(Unstamped) <= MaxPersists /\ clock \in Nat
    BY <2>1, IndexCacheAssumption DEF Init
  <2> QED  BY <2>2, <2>3 DEF TicksLeft
<1>3. DiskTypes /\ ResultTypes
  BY NoRowsExact DEF Init, DiskTypes, ResultTypes
<1>4. CallTypes
  BY NoRowsExact, NoFilesTyped, IndexCacheAssumption DEF Init, CallTypes, Stations
<1>5. PlaceTypes
  BY DEF Init, PlaceTypes, Walked, After, Built, Unsealed
<1> QED  BY <1>2, <1>3, <1>4, <1>5 DEF TypeInv

\* Nobody new is under way, and the clock stands still.
LEMMA TicksStay ==
    ASSUME TicksLeft, clock' = clock, Unstamped' \subseteq Unstamped,
           {p \in Procs : pc'[p] # "idle"} \subseteq {p \in Procs : pc[p] # "idle"}
    PROVE  TicksLeft'
<1>1. Cardinality(Unstamped') <= Cardinality(Unstamped) /\ Cardinality(Unstamped') \in Nat
      /\ Cardinality(Unstamped) \in Nat
  BY UnstampedCounted, FS_Subset, FS_CardinalityType
<1>2. IsFiniteSet({p \in Procs : pc'[p] # "idle"})
  BY FS_Subset DEF TicksLeft
<1> QED  BY <1>1, <1>2, IndexCacheAssumption DEF TicksLeft

\* A call that ends.
LEMMA ForgetTypes ==
    ASSUME TypeInv, NEW p \in Procs, Forget(p), clock' = clock
    PROVE  CallTypes' /\ PlaceTypes' /\ TicksLeft'
<1> USE DEF TypeInv, Forget
<1>1. CallTypes'
  BY NoRowsExact, NoFilesTyped, IndexCacheAssumption DEF CallTypes, Stations
<1>2. /\ pc'[p] = "idle" /\ stamp'[p] = 0
      /\ \A q \in Procs \ {p} : /\ pc'[q] = pc[q] /\ spec'[q] = spec[q] /\ snap'[q] = snap[q]
                                /\ made'[q] = made[q] /\ stamp'[q] = stamp[q]
  BY DEF CallTypes
<1>3. PlaceTypes'
  BY <1>2 DEF PlaceTypes, Walked, After, Built, Unsealed
<1>4. Unstamped' \subseteq Unstamped
  BY <1>2 DEF Unstamped
<1>5. {q \in Procs : pc'[q] # "idle"} \subseteq {q \in Procs : pc[q] # "idle"}
  BY <1>2
<1>6. TicksLeft'
  BY <1>4, <1>5, TicksStay
<1> QED  BY <1>1, <1>3, <1>6

LEMMA EndTypes ==
    ASSUME TypeInv, NEW p \in Procs,
           Load(p) \/ Persisted(p) \/ Crash(p) \/ \E f \in Files : Locked(p, f)
    PROVE  TypeInv'
<1> USE DEF TypeInv
<1>1. Forget(p) /\ clock' = clock
  BY DEF Load, Persisted, Crash, Locked, Return, Raise, disk
<1>2. CallTypes' /\ PlaceTypes' /\ TicksLeft'
  BY <1>1, ForgetTypes
<1>3. DiskTypes'
  BY DEF DiskTypes, Load, Persisted, Crash, Locked, disk, bounds
<1>4. ASSUME NEW g \in Graphs, Return(p, g), pc[p] \in {"load", "remove"}
      PROVE  ResultTypes'
  <2>1. spec[p] \in Specs /\ snap[p] \in Snaps
    BY <1>4 DEF PlaceTypes, Walked, After
  <2>2. Changes(before[p], snap[p]) \in {None} \cup SUBSET Files
    BY DEF Changes
  <2>3. [spec |-> spec[p], snap |-> snap[p], graph |-> g,
         changes |-> Changes(before[p], snap[p])] \in Results
    BY <1>4, <2>1, <2>2 DEF Results
  <2> QED  BY <1>4, <2>3 DEF Return, ResultTypes
<1>5. CASE Load(p)
  <2>1. snap[p] \in Snaps
    BY <1>5 DEF Load, PlaceTypes, Walked, After
  <2>2. graph[snap[p]] # None => graph[snap[p]] \in Graphs
    BY <2>1 DEF DiskTypes
  <2>3. ResultTypes' \/ (Return(p, graph[snap[p]]) /\ graph[snap[p]] \in Graphs)
    BY <1>5, <2>2 DEF Load, Raise, ResultTypes
  <2>4. ResultTypes'
    BY <1>4, <1>5, <2>3 DEF Load
  <2> QED  BY <1>2, <1>3, <2>4
<1>6. CASE Persisted(p)
  <2>1. made[p] \in Graphs
    BY <1>6 DEF Persisted, PlaceTypes, Built, After
  <2> QED  BY <1>2, <1>3, <1>4, <1>6, <2>1 DEF Persisted
<1>7. CASE Crash(p) \/ \E f \in Files : Locked(p, f)
  <2>1. ResultTypes'
    BY <1>7 DEF Crash, Locked, Raise, ResultTypes
  <2> QED  BY <1>2, <1>3, <2>1
<1> QED  BY <1>5, <1>6, <1>7

LEMMA CallTyped ==
    ASSUME TypeInv, NEW p \in Procs, NEW s \in Specs, NEW k \in {"index", "refresh"},
           Call(p, s, k)
    PROVE  TypeInv'
<1> USE DEF TypeInv, Call, Goto
<1>1. DiskTypes' /\ ResultTypes'
  BY DEF DiskTypes, ResultTypes, disk, bounds
<1>2. Previous(s) \in Snaps \cup {None}
  BY DEF Previous, DiskTypes
<1>3. CallTypes'
  BY <1>2 DEF CallTypes, Stations
<1>4. PlaceTypes'
  BY DEF PlaceTypes, CallTypes, Walked, After, Built, Unsealed
<1>5. TicksLeft'
  <2>1. /\ {q \in Procs : pc'[q] # "idle"} = {q \in Procs : pc[q] # "idle"} \cup {p}
        /\ Unstamped' \subseteq Unstamped \cup {p} /\ clock' = clock
    BY DEF CallTypes, Unstamped, disk
  <2>2. IsFiniteSet({q \in Procs : pc'[q] # "idle"})
    BY <2>1, FS_AddElement DEF TicksLeft
  <2>3. /\ IsFiniteSet(Unstamped \cup {p}) /\ Cardinality(Unstamped) \in Nat
        /\ \/ Cardinality(Unstamped \cup {p}) = Cardinality(Unstamped)
           \/ Cardinality(Unstamped \cup {p}) = Cardinality(Unstamped) + 1
    BY UnstampedCounted, FS_AddElement
  <2>4. /\ Cardinality(Unstamped') <= Cardinality(Unstamped \cup {p})
        /\ Cardinality(Unstamped') \in Nat
    BY <2>1, <2>3, FS_Subset, FS_CardinalityType
  <2>5. clock + Cardinality(Unstamped) < MaxPersists /\ clock \in Nat
    BY DEF TicksLeft
  <2>6. clock' + Cardinality(Unstamped') <= MaxPersists
    BY <2>1, <2>3, <2>4, <2>5, IndexCacheAssumption
  <2> QED  BY <2>1, <2>2, <2>5, <2>6 DEF TicksLeft
<1> QED  BY <1>1, <1>3, <1>4, <1>5

LEMMA WalkTyped ==
    ASSUME TypeInv, NEW p \in Procs, Walk(p) \/ Check(p)
    PROVE  TypeInv'
<1> USE DEF TypeInv, Walk, Check, Goto
<1>1. DiskTypes' /\ ResultTypes'
  BY DEF DiskTypes, ResultTypes, disk, bounds
<1>2. /\ pc[p] \in {"walk", "check"} /\ pc'[p] \in {"walk", "check", "load", "build"}
      /\ pc' \in [Procs -> Stations] /\ \A q \in Procs \ {p} : pc'[q] = pc[q]
      /\ spec' = spec /\ made' = made /\ stamp' = stamp
  BY DEF CallTypes, Stations, work
<1>3. snap' \in [Procs -> [Files -> Contents \cup {None}]]
      /\ \A q \in Procs \ {p} : snap'[q] = snap[q]
  <2>1. CASE Walk(p)
    <3>1. PICK f \in Files : snap' = [snap EXCEPT ![p][f] = tree[spec[p]][f]]
      BY <2>1
    <3>2. spec[p] \in Specs
      BY <2>1 DEF PlaceTypes
    <3>3. tree[spec[p]][f] \in Contents
      BY <3>2 DEF DiskTypes, Snaps
    <3> QED  BY <3>1, <3>3 DEF CallTypes
  <2>2. CASE Check(p)
    BY <2>2 DEF CallTypes, work
  <2> QED  BY <2>1, <2>2
<1>4. pc'[p] \in Walked => snap'[p] \in Snaps
  <2>1. CASE Walk(p)
    BY <1>2, <2>1 DEF Walked, After, CallTypes
  <2>2. CASE Check(p)
    BY <1>2, <2>2 DEF Walked, After, PlaceTypes, work
  <2> QED  BY <2>1, <2>2
<1>5. CallTypes'
  BY <1>2, <1>3 DEF CallTypes, work
<1>6. PlaceTypes'
  BY <1>2, <1>3, <1>4 DEF PlaceTypes, Walked, After, Built, Unsealed
<1>7. TicksLeft'
  BY <1>2, TicksStay DEF Unstamped, disk
<1> QED  BY <1>1, <1>5, <1>6, <1>7

LEMMA BuildTyped ==
    ASSUME TypeInv, NEW p \in Procs, NEW f \in Files,
           Reuse(p, f) \/ Analyze(p, f) \/ CannotRead(p, f)
    PROVE  TypeInv'
<1> USE DEF TypeInv, Reuse, Analyze, CannotRead, Todo
<1>1. DiskTypes' /\ ResultTypes'
  BY DEF DiskTypes, ResultTypes, disk, bounds
<1>2. /\ pc[p] = "build" /\ spec[p] \in Specs /\ snap[p] \in Snaps
      /\ snap[p][f] \in Contents /\ tree[spec[p]][f] \in Contents
  BY DEF PlaceTypes, Walked, DiskTypes, Snaps
<1>3. Hit(p, f) \in Contents \cup {None}
  BY <1>2 DEF Hit, Row, CallTypes, DiskTypes, Rows
<1>4. PICK g \in Contents \cup {Unread} : made' = [made EXCEPT ![p][f] = g]
  BY <1>2, <1>3
<1>5. made' \in [Procs -> Partial] /\ \A q \in Procs \ {p} : made'[q] = made[q]
  BY <1>4 DEF CallTypes, Partial
<1>6. puts' \in [Procs -> Rows]
  <2>1. CASE Analyze(p, f)
    <3>1. PICK c \in Contents : puts' = [puts EXCEPT ![p][f][snap[p][f]] = c]
      BY <1>2, <2>1
    <3> QED  BY <1>2, <3>1 DEF CallTypes, Rows
  <2>2. CASE UNCHANGED puts
    BY <2>2 DEF CallTypes
  <2> QED  BY <2>1, <2>2
<1>7. UNCHANGED <<pc, spec, kind, snap, stamp, before, aged, victims, clock>>
  BY DEF disk
<1>8. CallTypes'
  BY <1>5, <1>6, <1>7 DEF CallTypes
<1>9. PlaceTypes'
  BY <1>2, <1>5, <1>7 DEF PlaceTypes, Walked, After, Built, Unsealed
<1>10. TicksLeft'
  BY <1>7, TicksStay DEF Unstamped
<1> QED  BY <1>1, <1>8, <1>9, <1>10

LEMMA FlushTyped ==
    ASSUME TypeInv, NEW p \in Procs, Flush(p)
    PROVE  TypeInv'
<1> USE DEF TypeInv, Flush, Goto
<1>1. DiskTypes' /\ ResultTypes'
  BY DEF DiskTypes, ResultTypes, bounds, CallTypes, Rows
<1>2. /\ p \in Unstamped /\ Unstamped' = Unstamped \ {p}
      /\ {q \in Procs : pc'[q] # "idle"} = {q \in Procs : pc[q] # "idle"}
      /\ clock \in Nat /\ clock' = clock + 1 /\ stamp'[p] = clock + 1
  <2>1. pc[p] = "build" /\ stamp[p] = 0
    BY DEF PlaceTypes, Unsealed
  <2>2. clock \in Nat
    BY DEF TicksLeft
  <2> QED  BY <2>1, <2>2 DEF CallTypes, Unstamped
<1>3. /\ Cardinality(Unstamped') = Cardinality(Unstamped) - 1
      /\ Cardinality(Unstamped') \in Nat /\ Cardinality(Unstamped) \in Nat
  <2>1. IsFiniteSet(Unstamped) /\ Cardinality(Unstamped) \in Nat
    BY UnstampedCounted
  <2>2. /\ IsFiniteSet(Unstamped \ {p})
        /\ Cardinality(Unstamped \ {p}) = Cardinality(Unstamped) - 1
    BY <1>2, <2>1, FS_RemoveElement
  <2> QED  BY <1>2, <2>1, <2>2, FS_CardinalityType
<1>4. TicksLeft' /\ clock + 1 \in 1 .. MaxPersists
  <2>1. clock + Cardinality(Unstamped) <= MaxPersists
        /\ IsFiniteSet({q \in Procs : pc[q] # "idle"})
    BY DEF TicksLeft
  <2>2. clock' + Cardinality(Unstamped') <= MaxPersists /\ clock' \in Nat
    BY <1>2, <1>3, <2>1, IndexCacheAssumption
  <2>3. clock + 1 \in 1 .. MaxPersists
    BY <1>2, <1>3, <2>1, IndexCacheAssumption
  <2> QED  BY <1>2, <2>1, <2>2, <2>3 DEF TicksLeft
<1>5. CallTypes'
  BY <1>2, <1>4, NoRowsExact, IndexCacheAssumption DEF CallTypes, Stations
<1>6. PlaceTypes'
  BY <1>2, <1>4 DEF PlaceTypes, CallTypes, Walked, After, Built, Unsealed, Extracted
<1> QED  BY <1>1, <1>4, <1>5, <1>6

\* The steps of a persist.
LEMMA PersistTyped ==
    ASSUME TypeInv, NEW p \in Procs,
           \/ Publish(p) \/ TruncateManifest(p) \/ WriteManifest(p)
           \/ TruncateRef(p) \/ WriteRef(p) \/ Scan(p)
    PROVE  TypeInv'
<1> USE DEF TypeInv, Publish, TruncateManifest, WriteManifest, TruncateRef, WriteRef, Scan,
            Goto, disk, work, bounds
<1>1. /\ spec[p] \in Specs /\ snap[p] \in Snaps /\ made[p] \in Graphs
      /\ stamp[p] \in 1 .. MaxPersists
  BY DEF PlaceTypes, Walked, After, Built
<1>2. [spec |-> spec[p], at |-> stamp[p]] \in Manifests
  BY <1>1 DEF Manifests
<1>3. DiskTypes' /\ ResultTypes'
  BY <1>1, <1>2 DEF DiskTypes, ResultTypes
<1>4. /\ pc' \in [Procs -> Stations] /\ \A q \in Procs \ {p} : pc'[q] = pc[q]
      /\ pc[p] \in Built /\ pc'[p] \in Built
      /\ UNCHANGED <<spec, kind, snap, made, stamp, puts, before, clock>>
  BY DEF CallTypes, Stations, Built, After
<1>5. aged' \in [Procs -> BOOLEAN]
      /\ victims' \in [Procs -> SUBSET (Snaps \X {"graph.db", "manifest.json"})]
  <2>1. aged' \in [Procs -> BOOLEAN]
    BY DEF CallTypes
  <2>2. CASE Scan(p)
    <3> DEFINE V == {n \in Snaps : Readable(n) /\ (Expired(n) \/ BeyondKeep(n))}
                      \X {"graph.db", "manifest.json"}
    <3>1. V \in SUBSET (Snaps \X {"graph.db", "manifest.json"})
      OBVIOUS
    <3>2. victims' = [victims EXCEPT ![p] = V]
      BY <2>2
    <3> HIDE DEF V
    <3> QED  BY <2>1, <3>1, <3>2 DEF CallTypes
  <2>3. CASE UNCHANGED victims
    BY <2>1, <2>3 DEF CallTypes
  <2> QED  BY <2>2, <2>3
<1>6. CallTypes'
  BY <1>4, <1>5 DEF CallTypes
<1>7. PlaceTypes'
  BY <1>1, <1>4 DEF PlaceTypes, Walked, After, Built, Unsealed
<1>8. TicksLeft'
  BY <1>4, TicksStay DEF Unstamped, Built, After
<1> QED  BY <1>3, <1>6, <1>7, <1>8

LEMMA RemoveTyped ==
    ASSUME TypeInv, NEW p \in Procs, Remove(p)
    PROVE  TypeInv'
<1> USE DEF TypeInv, Remove, bounds
<1>1. DiskTypes' /\ ResultTypes'
  BY DEF DiskTypes, ResultTypes
<1>2. CallTypes'
  BY DEF CallTypes
<1>3. PlaceTypes' /\ TicksLeft'
  BY DEF PlaceTypes, TicksLeft, Unstamped
<1> QED  BY <1>1, <1>2, <1>3

LEMMA AroundTyped ==
    ASSUME TypeInv,
           \/ UNCHANGED vars \/ \E specs \in SUBSET Specs : Gc(specs)
           \/ \E s \in Specs, f \in Files, c \in Contents : Edit(s, f, c)
    PROVE  TypeInv'
<1> USE DEF TypeInv, Gc, Edit, vars, disk, work
<1>1. DiskTypes' /\ ResultTypes'
  <2>1. CASE UNCHANGED vars
    BY <2>1 DEF DiskTypes, ResultTypes
  <2>2. CASE \E specs \in SUBSET Specs : Gc(specs)
    BY <2>2 DEF DiskTypes, ResultTypes
  <2>3. CASE \E s \in Specs, f \in Files, c \in Contents : Edit(s, f, c)
    BY <2>3 DEF DiskTypes, ResultTypes, Snaps
  <2> QED  BY <2>1, <2>2, <2>3
<1>2. UNCHANGED <<pc, spec, kind, snap, made, stamp, puts, before, aged, victims, clock>>
  OBVIOUS
<1>3. CallTypes'
  BY <1>2 DEF CallTypes
<1>4. PlaceTypes' /\ TicksLeft'
  BY <1>2 DEF PlaceTypes, TicksLeft, Unstamped
<1> QED  BY <1>1, <1>3, <1>4

\* Every reachable state of the cache and of the calls on it is well typed, also
\* where sources are edited while they are read; and no persist is without a tick.
THEOREM TypeCorrect == Spec => []TypeOK
<1>1. TypeInv /\ [Next]_vars => TypeInv'
  <2> SUFFICES ASSUME TypeInv, [Next]_vars PROVE TypeInv'
    OBVIOUS
  <2>1. ASSUME NEW p \in Procs, Step(p) PROVE TypeInv'
    BY <2>1, WalkTyped, EndTypes, BuildTyped, FlushTyped, PersistTyped, RemoveTyped
    DEF Step, BuildStep
  <2> QED
    BY <2>1, CallTyped, EndTypes, AroundTyped DEF Next
<1> QED  BY <1>1, TypeInit, TypeInvTypes, PTL DEF Spec

=============================================================================
