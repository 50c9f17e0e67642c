------------------------------ MODULE Workspace ------------------------------
(* The molexp provider on workspace trees: which workspace a call is about,  *)
(* what it makes there, what it lists, and what it ingests.                  *)
EXTENDS Integers, Sequences, SequencesExt, FiniteSets, Subsequences

CONSTANTS
    Servers,        \* processes that serve the tools on one file system
    Places,         \* directories an agent may name; a remote one begins with its host
    Hosts,
    Projects, Experiments, Ids, \* slugs of names, and ids of runs
    Params, Statuses,
    Sessions,       \* workspaces the settings may name, or None
    Bound,          \* the workspace the provider was made for, or None
    Cwd(_),         \* the working directory of a server
    Named,          \* workspaces that a call may name, or None
    Levels,         \* directories above one that are searched for a workspace
    None,
    MaxRuns, MaxMade, MaxFolders, MaxIngests \* bounds of the model

(* Directories are paths, and none that is named is deeper than the search.  *)
(* (No prover types the names of the layout, which are strings to TLC.)      *)
Dirs == Seq(STRING) \ {<<>>}
WorkspaceAssumption ==
    /\ Places \subseteq Dirs /\ Sessions \ {None} \subseteq Dirs /\ None \notin Seq(STRING)
    /\ \A s \in Servers : Cwd(s) \in Dirs
    /\ Projects \cup Experiments \cup Ids \subseteq STRING
    /\ {"projects", "experiments", "runs"} \subseteq STRING
    /\ Levels \in Nat /\ \A dir \in Places : Len(dir) <= Levels

VARIABLES
    session,  \* molexp.workspace of the settings
    made,     \* the roots of workspaces, in the order they were made
    folders,  \* the directories of projects and experiments, in the order they were made
    runs,     \* the runs, in the order they were made
    curves,   \* the pairs of a directory and a call that ingested its logs
    ingests,  \* how many calls of ingest_metrics have begun
    call,     \* what a server is in the middle of, or None
    answer    \* what ingest_metrics answered last, or None
vars == <<session, made, folders, runs, curves, ingests, call, answer>>

(* The layout of a workspace: layout.py's templates. *)
ProjectDir(root, p) == root \o <<"projects", p>>
ExperimentDir(root, p, e) == ProjectDir(root, p) \o <<"experiments", e>>
RunDir(experiment, id) == experiment \o <<"runs", id>>
In(dir, container, d) == Len(d) = Len(dir) + 2 /\ IsPrefix(Append(dir, container), d)
ChildrenOf(dir, container) == Those(folders, {d \in Range(folders) : In(dir, container, d)})
RunsIn(experiment) == Those(runs, {r \in Range(runs) : In(experiment, "runs", r.dir)})
RunDirs == {r.dir : r \in Range(runs)}

IsRoot(dir) == dir \in Range(made)
(* Every directory of the tree holds a meta.yaml, not only a workspace's.    *)
Marked(dir) == IsRoot(dir) \/ dir \in Range(folders) \cup RunDirs
Remote(dir) == Head(dir) \in Hosts

Init ==
    /\ session \in Sessions
    /\ made = <<>> /\ folders = <<>> /\ runs = <<>>
    /\ curves = {} /\ ingests = 0
    /\ call = [s \in Servers |-> None] /\ answer = None

(* The workspace of a call: the one it names, else the provider's, else the  *)
(* settings', else the working directory. None is an error.                  *)
Meant(s, named) ==
    CASE named # None -> named
      [] named = None /\ Bound # None -> Bound
      [] named = None /\ Bound = None /\ session # None -> session
      [] OTHER -> IF Marked(Cwd(s)) THEN Cwd(s) ELSE None

CreateOrGet(dirs, dir) == IF dir \in Range(dirs) THEN dirs ELSE Append(dirs, dir)

(* materialize_workspace *)
InSession(dir) == session # None /\ ~Remote(session) /\ IsStrictPrefix(session, dir)
Nearest(dir) == {k \in 1..Levels : k < Len(dir) /\ IsRoot(SubSeq(dir, 1, Len(dir) - k))}
Refuses(dir) == ~Remote(dir) /\ (InSession(dir) \/ Nearest(dir) # {})

Doing(s, tool) == call[s] # None /\ call[s].tool = tool

BeginMaterialize(s, dir) ==
    /\ call[s] = None /\ Len(made) < MaxMade
    /\ ~Refuses(dir)
    /\ call' = [call EXCEPT ![s] = [tool |-> "materialize", dir |-> dir]]
    /\ UNCHANGED <<session, made, folders, runs, curves, ingests, answer>>

EndMaterialize(s) ==
    /\ Doing(s, "materialize")
    /\ made' = CreateOrGet(made, call[s].dir)
    /\ call' = [call EXCEPT ![s] = None]
    /\ UNCHANGED <<session, folders, runs, curves, ingests, answer>>

(* add_project makes its workspace first, and looks at none above it. *)
AddProject(s, named, p) ==
    LET root == Meant(s, named) IN
    /\ call[s] = None /\ root # None /\ Len(made) < MaxMade /\ Len(folders) < MaxFolders
    /\ made' = CreateOrGet(made, root)
    /\ folders' = CreateOrGet(folders, ProjectDir(root, p))
    /\ UNCHANGED <<session, runs, curves, ingests, call, answer>>

AddExperiment(s, named, p, e) ==
    LET root == Meant(s, named) IN
    /\ call[s] = None /\ root # None /\ ProjectDir(root, p) \in Range(folders)
    /\ Len(folders) < MaxFolders
    /\ folders' = CreateOrGet(folders, ExperimentDir(root, p, e))
    /\ UNCHANGED <<session, made, runs, curves, ingests, call, answer>>

(* molexp's add_run gets the run of some parameters or makes another. *)
AddRun(experiment, params) ==
    \/ \E r \in Range(RunsIn(experiment)) : r.params = params /\ UNCHANGED runs
    \/ \E id \in Ids :
           /\ Len(runs) < MaxRuns /\ RunDir(experiment, id) \notin RunDirs
           /\ runs' = Append(runs, [dir |-> RunDir(experiment, id), params |-> params,
                                    status |-> "pending"])

CreateRun(s, named, p, e, params) ==
    LET root == Meant(s, named) IN
    /\ call[s] = None /\ root # None /\ ProjectDir(root, p) \in Range(folders)
    /\ ExperimentDir(root, p, e) \in Range(folders)
    /\ AddRun(ExperimentDir(root, p, e), params)
    /\ UNCHANGED <<session, made, folders, curves, ingests, call, answer>>

(* A run is driven by other programs. *)
Advance ==
    /\ \E n \in DOMAIN runs, status \in Statuses \ {"pending"} : runs' = [runs EXCEPT ![n].status = status]
    /\ UNCHANGED <<session, made, folders, curves, ingests, call, answer>>

------------------------------------------------------------------------------
(* list_runs: the runs below a workspace, a project or the experiments of    *)
(* an id, of a status, up to a limit that is looked at after a run is taken. *)
Each(dirs, Op(_)) == FlattenSeq([n \in DOMAIN dirs |-> Op(dirs[n])])
RunsOf(project) == Each(ChildrenOf(project, "experiments"), RunsIn)
Listed(root) == Each(ChildrenOf(root, "projects"), RunsOf)

ProjectOf(root, run) == run.dir[Len(root) + 2]
ExperimentOf(root, run) == run.dir[Len(root) + 4]
InScope(root, kind, id, run) ==
    CASE kind = "workspace" -> TRUE
      [] kind = "project" -> ProjectOf(root, run) = id
      [] kind = "experiment" -> ExperimentOf(root, run) = id

Taken(rows, limit, run, fits) ==
    IF (Len(rows) >= limit /\ rows # <<>>) \/ ~fits THEN rows ELSE Append(rows, run)
Rows(root, listed, kind, id, status, limit) ==
    FoldLeft(LAMBDA rows, run :
                 Taken(rows, limit, run,
                       InScope(root, kind, id, run) /\ status \in {None, run.status}),
             <<>>, listed)

------------------------------------------------------------------------------
(* ingest_metrics: a directory with a marker is taken for a workspace and    *)
(* stands for the runs of its projects, any other for itself.                *)
Targets(dir) == IF Marked(dir) THEN [n \in DOMAIN Listed(dir) |-> Listed(dir)[n].dir] ELSE <<dir>>
Exists(dir) == ~Remote(dir) /\ (Marked(dir) \/ \E root \in Range(made) : IsPrefix(dir, root))

BeginIngest(s, dir) ==
    /\ call[s] = None /\ ingests < MaxIngests
    /\ Exists(dir)
    /\ ingests' = ingests + 1
    /\ call' = [call EXCEPT ![s] = [tool |-> "ingest", dir |-> dir, n |-> ingests',
                                    todo |-> Targets(dir), runs |-> Targets(dir),
                                    results |-> {}, problems |-> {}]]
    /\ UNCHANGED <<session, made, folders, runs, curves, answer>>

(* A bug: the first run that fails is the last one. *)
IngestedOrStopped(c, failed) ==
    [c EXCEPT !.problems = IF failed THEN @ \cup {Head(c.todo)} ELSE @,
              !.results = IF failed THEN @ ELSE @ \cup {Head(c.todo)},
              !.todo = IF failed THEN <<>> ELSE Tail(@)]
(* A converter that raises may have written some of its curves. *)
Ingested(c, failed) ==
    [c EXCEPT !.problems = IF failed THEN @ \cup {Head(c.todo)} ELSE @,
              !.results = IF failed THEN @ ELSE @ \cup {Head(c.todo)},
              !.todo = Tail(@)]

IngestNext(s, failed, writes) ==
    /\ Doing(s, "ingest") /\ call[s].todo # <<>>
    /\ failed \/ writes
    /\ curves' = IF writes THEN curves \cup {<<Head(call[s].todo), call[s].n>>} ELSE curves
    /\ call' = [call EXCEPT ![s] = Ingested(@, failed)]
    /\ UNCHANGED <<session, made, folders, runs, ingests, answer>>

EndIngest(s) ==
    /\ Doing(s, "ingest") /\ call[s].todo = <<>>
    /\ answer' = call[s]
    /\ call' = [call EXCEPT ![s] = None]
    /\ UNCHANGED <<session, made, folders, runs, curves, ingests>>

Next ==
    \/ \E s \in Servers, dir \in Places : BeginMaterialize(s, dir)
    \/ \E s \in Servers : EndMaterialize(s) \/ EndIngest(s)
    \/ \E s \in Servers, named \in Named, p \in Projects : AddProject(s, named, p)
    \/ \E s \in Servers, named \in Named, p \in Projects, e \in Experiments :
           AddExperiment(s, named, p, e)
    \/ \E s \in Servers, named \in Named, p \in Projects, e \in Experiments, params \in Params :
           CreateRun(s, named, p, e, params)
    \/ Advance
    \/ \E s \in Servers, dir \in Places \cup RunDirs : BeginIngest(s, dir)
    \/ \E s \in Servers, failed, writes \in BOOLEAN : IngestNext(s, failed, writes)

Spec == Init /\ [][Next]_vars

------------------------------------------------------------------------------
(* What materialize_workspace makes is inside no workspace that is there when *)
(* it is done, nor inside the one of the settings, be it there yet or not    *)
(* (scaffold.py:58).  Nothing keeps a call of another server from making one  *)
(* between the check and the write.                                           *)
MakesApart ==
    \A s \in Servers :
        Doing(s, "materialize") /\ ~Remote(call[s].dir) /\ call'[s] = None =>
            \A root \in Range(made') \cup ({session} \ {None}) :
                ~IsStrictPrefix(root, call[s].dir)
NotNested == [][MakesApart]_vars

(* A call of ingest_metrics tells of each run it was about, that it was      *)
(* ingested or why not, and a run that fails keeps no other from being       *)
(* ingested (provider.py:532).                                               *)
TellsOfEachRun ==
    answer # None =>
        /\ answer.results \cup answer.problems = Range(answer.runs)
        /\ answer.results \cap answer.problems = {}
        /\ \A dir \in answer.results : <<dir, answer.n>> \in curves

(* The directory of a run that is given to ingest_metrics is ingested, or    *)
(* the answer says why not (provider.py:129).                                *)
RunDirIngested ==
    answer # None /\ answer.dir \in RunDirs => answer.results \cup answer.problems = {answer.dir}
=============================================================================
