----------------------------- MODULE Downloads ------------------------------
(* The source of a GitHub spec: the directory in the cache that a commit is  *)
(* downloaded to, by processes that share the cache and may die.  It lies in *)
(* the snapshot's directory, which eviction and garbage collection remove.   *)
EXTENDS Integers, FiniteSets

CONSTANTS
    Procs,         \* the processes
    Files,         \* the files of the commit
    MaxFaults,     \* bound: requests that fail
    MaxCrashes,    \* bound: processes that die
    MaxResolves,   \* bound: times the spec is resolved
    MaxRemovals,   \* bound: times the snapshot is evicted or collected
    SerialResolve, \* one process at a time resolves the commit or removes it
    AtomicMarker,  \* no process dies between opening and writing the marker
    RemoverDies    \* one may die that evicts or collects, the marker still there

Marker == "marker"
Names == Files \cup {Marker}

DownloadsAssumption ==
    /\ {MaxFaults, MaxCrashes, MaxResolves, MaxRemovals} \subseteq Nat
    /\ {SerialResolve, AtomicMarker, RemoverDies} \subseteq BOOLEAN
    /\ Marker \notin Files

VARIABLES
    raw, root,     \* the commit's directory, and the one of the tarball in it, exist
    file,          \* file[f]: "absent", "part" or "whole"
    marker,        \* "none", "empty", or "root" when it names the root
    pc,
    todo,          \* todo[p]: what p has yet to remove or to extract
    open,          \* open[p]: the file p writes, while it has its name
    got,           \* got[p]: the tree p listed as the commit's
    faults, crashes, resolves, removals

diskVars == <<raw, root, file, marker>>
boundVars == <<faults, crashes, resolves, removals>>
vars == <<diskVars, pc, todo, open, got, boundVars>>

States == {"absent", "part", "whole"}
Commit == [f \in Files |-> "whole"]

Init ==
    /\ raw = FALSE /\ root = FALSE /\ marker = "none"
    /\ file = [f \in Files |-> "absent"]
    /\ pc = [p \in Procs |-> "idle"]
    /\ todo = [p \in Procs |-> {}] /\ open = [p \in Procs |-> {}]
    /\ got = [p \in Procs |-> Commit]
    /\ faults = 0 /\ crashes = 0 /\ resolves = 0 /\ removals = 0

Goto(p, where) == pc' = [pc EXCEPT ![p] = where]
Fails(p) == Goto(p, "idle")

MayStart(p) == pc[p] = "idle" /\ (SerialResolve => \A q \in Procs : pc[q] = "idle")

(* A spec is resolved to a commit before its directory is looked at. *)
Start(p) ==
    /\ MayStart(p) /\ resolves < MaxResolves
    /\ resolves' = resolves + 1
    /\ Goto(p, "resolve")
    /\ UNCHANGED <<diskVars, todo, open, got, faults, crashes, removals>>

(* A request fails with a SourceError. *)
RequestFails(p) ==
    /\ pc[p] \in {"resolve", "fetch"} /\ faults < MaxFaults
    /\ faults' = faults + 1
    /\ Fails(p)
    /\ UNCHANGED <<diskVars, todo, open, got, crashes, resolves, removals>>

(* The path of an empty marker is the working directory, which exists. *)
MarkedOrThere == root
Marked == marker = "empty" \/ (marker = "root" /\ root)

(* What rmtree lists. *)
OnDisk == {f \in Files : file[f] # "absent"} \cup (IF marker = "none" THEN {} ELSE {Marker})

Resolve(p) ==
    /\ pc[p] = "resolve"
    /\ IF Marked THEN Goto(p, IF marker = "empty" THEN "walk_cwd" ELSE "walk") /\ UNCHANGED todo
       ELSE /\ Goto(p, IF raw THEN "remove" ELSE "mkdir")
            /\ todo' = [todo EXCEPT ![p] = OnDisk]
    /\ UNCHANGED <<diskVars, open, got, boundVars>>

(* The snapshot is too old, one too many of its spec, of a spec that is no   *)
(* longer configured, or has no manifest: its directory is removed.          *)
Collect(p) ==
    /\ MayStart(p) /\ removals < MaxRemovals
    /\ raw
    /\ removals' = removals + 1
    /\ todo' = [todo EXCEPT ![p] = OnDisk]
    /\ Goto(p, "collect")
    /\ UNCHANGED <<diskVars, open, got, faults, crashes, resolves>>

Removing(p) == pc[p] \in {"remove", "collect"}

(* rmtree removes what it has listed one by one, in any order, ignores what  *)
(* is gone or new, and the directories after what they hold, if it is gone.  *)
Remove(p, x) ==
    /\ Removing(p) /\ x \in todo[p]
    /\ todo' = [todo EXCEPT ![p] = @ \ {x}]
    /\ IF x = Marker THEN marker' = "none" /\ UNCHANGED file
       ELSE file' = [file EXCEPT ![x] = "absent"] /\ UNCHANGED marker
    /\ open' = [q \in Procs |-> open[q] \ {x}]
    /\ UNCHANGED <<raw, root, pc, got, boundVars>>

RemoveRoot(p) ==
    /\ Removing(p) /\ root
    /\ todo[p] \cap Files = {} /\ \A f \in Files : file[f] = "absent"
    /\ root' = FALSE
    /\ UNCHANGED <<raw, file, marker, pc, todo, open, got, boundVars>>

RemoveDirs(p) ==
    /\ Removing(p) /\ todo[p] = {}
    /\ root' = \E f \in Files : file[f] # "absent"
    /\ raw' = (root' \/ marker # "none")
    /\ Goto(p, IF pc[p] = "remove" THEN "mkdir" ELSE "idle")
    /\ UNCHANGED <<file, marker, todo, open, got, boundVars>>

MakeDir(p) ==
    /\ pc[p] = "mkdir"
    /\ raw' = TRUE
    /\ Goto(p, "fetch")
    /\ UNCHANGED <<root, file, marker, todo, open, got, boundVars>>

Fetch(p) ==
    /\ pc[p] = "fetch"
    /\ todo' = [todo EXCEPT ![p] = Files]
    /\ Goto(p, "extract")
    /\ UNCHANGED <<diskVars, open, got, boundVars>>

(* A member is opened, which truncates it and makes its directories, and     *)
(* then written.  What is written to a file that was removed goes with it.   *)
Open(p, f) ==
    /\ pc[p] = "extract" /\ f \in todo[p]
    /\ raw' = TRUE /\ root' = TRUE
    /\ file' = [file EXCEPT ![f] = "part"]
    /\ todo' = [todo EXCEPT ![p] = @ \ {f}]
    /\ open' = [open EXCEPT ![p] = {f}]
    /\ Goto(p, "write")
    /\ UNCHANGED <<marker, got, boundVars>>

Write(p) ==
    /\ pc[p] = "write"
    /\ file' = [f \in Files |-> IF f \in open[p] /\ \A q \in Procs \ {p} : f \notin open[q]
                                THEN "whole" ELSE file[f]]
    /\ open' = [open EXCEPT ![p] = {}]
    /\ Goto(p, "extract")
    /\ UNCHANGED <<raw, root, marker, todo, got, boundVars>>

(* There is nothing to mark when another process has removed the root.       *)
FindRoot(p) ==
    /\ pc[p] = "extract" /\ todo[p] = {}
    /\ IF root THEN Goto(p, "mark") ELSE Fails(p)
    /\ UNCHANGED <<diskVars, todo, open, got, boundVars>>

Mark(p) ==
    /\ pc[p] = "mark"
    /\ IF ~raw THEN Fails(p) /\ UNCHANGED marker
       ELSE IF AtomicMarker \/ marker = "empty" THEN marker' = "root" /\ Goto(p, "walk")
       ELSE marker' = "empty" /\ UNCHANGED pc
    /\ UNCHANGED <<raw, root, file, todo, open, got, boundVars>>

Walk(p) ==
    /\ pc[p] \in {"walk", "walk_cwd"}
    /\ got' = [got EXCEPT ![p] = IF pc[p] = "walk" THEN file ELSE [f \in Files |-> "absent"]]
    /\ Goto(p, "idle")
    /\ UNCHANGED <<diskVars, todo, open, boundVars>>

Crash(p) ==
    /\ pc[p] # "idle" /\ crashes < MaxCrashes
    /\ RemoverDies \/ pc[p] # "collect" \/ marker = "none"
    /\ crashes' = crashes + 1
    /\ Goto(p, "idle")
    /\ todo' = [todo EXCEPT ![p] = {}] /\ open' = [open EXCEPT ![p] = {}]
    /\ UNCHANGED <<diskVars, got, faults, resolves, removals>>

Next ==
    \E p \in Procs :
        \/ Start(p) \/ RequestFails(p) \/ Resolve(p) \/ Collect(p)
        \/ RemoveRoot(p) \/ RemoveDirs(p) \/ MakeDir(p) \/ Fetch(p)
        \/ \E x \in Names : Remove(p, x)
        \/ \E f \in Files : Open(p, f)
        \/ Write(p) \/ FindRoot(p) \/ Mark(p) \/ Walk(p) \/ Crash(p)

Spec == Init /\ [][Next]_vars

------------------------------------------------------------------------------
TypeOK ==
    /\ raw \in BOOLEAN /\ root \in BOOLEAN /\ file \in [Files -> States]
    /\ marker \in {"none", "empty", "root"}
    /\ pc \in [Procs -> {"idle", "resolve", "collect", "remove", "mkdir", "fetch", "extract", "write",
                         "mark", "walk", "walk_cwd"}]
    /\ todo \in [Procs -> SUBSET Names] /\ open \in [Procs -> SUBSET Files]
    /\ got \in [Procs -> [Files -> States]]
    /\ faults \in Nat /\ crashes \in Nat /\ resolves \in Nat /\ removals \in Nat

(* What is listed under a commit is the commit, every file of it and whole,  *)
(* whatever a process that died in a download, or in removing what another   *)
(* had left, left in the directory: the graph built of it is kept under the  *)
(* commit's id and not built again.  False where RemoverDies: a process that *)
(* dies in an eviction may leave the marker beside part of the tree.         *)
WholeCommit == \A p \in Procs : got[p] = Commit
=============================================================================
