------------------------------ MODULE Execution ------------------------------
(* Parts of the server that act for an agent and share no state with one     *)
(* another: the job tools, the workspace tools and the settings.             *)
(* A behaviour is one of a part; the variables of the others are off.        *)
EXTENDS Integers, Sequences, FiniteSets

CONSTANTS
    Explored,   \* the parts to explore
    off, None,
    \* Jobs
    Calls, Ids, Schedulers, Clusters, Profiles, SshHosts, Tails, Local,
    JobFaults, MaxLines, MaxCalls,
    \* Workspace
    Servers, Places, Hosts, Projects, Experiments, RunIds, Params, Statuses,
    Sessions, Cwd(_), Levels, MaxRuns, MaxMade, MaxFolders, MaxIngests,
    \* Settings
    Layers, Editors, Dicts, Lists, Scalars, Commands, Unset, MaxCommands, EditorCrashes

VARIABLES
    part,  \* the part that is explored
    jCall, jHandles, jDropped, jRecords, jTarget, jLive, jLog, jFaults, jMade,
    wSession, wMade, wFolders, wRuns, wCurves, wIngests, wCall, wAnswer,
    sFile, sEdit, sGiven, sEdits, sCrashes

J == INSTANCE Jobs WITH
    MaxFaults <- JobFaults, call <- jCall, handles <- jHandles, dropped <- jDropped,
    records <- jRecords, target <- jTarget, live <- jLive, log <- jLog, faults <- jFaults,
    made <- jMade
jobsVars == <<jCall, jHandles, jDropped, jRecords, jTarget, jLive, jLog,
              jFaults, jMade>>

(* No call names a workspace. *)
W == INSTANCE Workspace WITH
    Ids <- RunIds, Bound <- None, Named <- {None},
    session <- wSession, made <- wMade, folders <- wFolders, runs <- wRuns,
    curves <- wCurves, ingests <- wIngests, call <- wCall, answer <- wAnswer
workspaceVars == <<wSession, wMade, wFolders, wRuns, wCurves, wIngests, wCall,
                   wAnswer>>

(* One editor changes a file at a time. *)
L == INSTANCE Settings WITH
    MaxEdits <- MaxCommands, MaxCrashes <- EditorCrashes, SerialEdits <- TRUE,
    file <- sFile, edit <- sEdit, given <- sGiven, edits <- sEdits, crashes <- sCrashes
settingsVars == <<sFile, sEdit, sGiven, sEdits, sCrashes>>

partsVars == <<part, jobsVars, workspaceVars, settingsVars>>

------------------------------------------------------------------------------
(* What the parts assume of their constants. *)
ASSUME JobsParts == J!JobsAssumption
ASSUME WorkspaceParts == W!WorkspaceAssumption
ASSUME SettingsParts == L!SettingsAssumption

------------------------------------------------------------------------------
(* The variables of the parts that are not explored. *)
OffJobs ==
    /\ jCall = off /\ jHandles = off /\ jDropped = off /\ jRecords = off
    /\ jTarget = off /\ jLive = off /\ jLog = off /\ jFaults = off /\ jMade = off
OffWorkspace ==
    /\ wSession = off /\ wMade = off /\ wFolders = off /\ wRuns = off
    /\ wCurves = off /\ wIngests = off /\ wCall = off /\ wAnswer = off
OffSettings ==
    /\ sFile = off /\ sEdit = off /\ sGiven = off /\ sEdits = off /\ sCrashes = off

PartsInit ==
    /\ part \in Explored
    /\ IF part = "jobs" THEN J!Init ELSE OffJobs
    /\ IF part = "workspace" THEN W!Init ELSE OffWorkspace
    /\ IF part = "settings" THEN L!Init ELSE OffSettings

PartsNext ==
    \/ /\ part = "jobs" /\ J!Next
       /\ UNCHANGED <<part, workspaceVars, settingsVars>>
    \/ /\ part = "workspace" /\ W!Next
       /\ UNCHANGED <<part, jobsVars, settingsVars>>
    \/ /\ part = "settings" /\ L!Next
       /\ UNCHANGED <<part, jobsVars, workspaceVars>>

PartsSpec == PartsInit /\ [][PartsNext]_partsVars

------------------------------------------------------------------------------
(* The properties of the parts; their modules state them. *)

(* Jobs: what a call opens is closed, however it ends. *)
HandlesCounted == part = "jobs" => J!HandlesCounted
(* Jobs: a cancel reaches the job where it was submitted, but for one whose  *)
(* profile runs on a cluster that is the name of an SSH host.                *)
CancelReaches == part = "jobs" => J!CancelReaches
(* Jobs: a cancel reaches the job where it was submitted, whichever it is. *)
CancelReachesAll == part = "jobs" => J!CancelReachesAll
(* Jobs: logs that say a job is over are the end of all it wrote. *)
LogsAreLast == part = "jobs" => J!LogsAreLast

(* Workspace: materialize_workspace makes no workspace in another one,       *)
(* whatever is made meanwhile.                                               *)
NotNested == [][part = "workspace" => W!MakesApart]_partsVars
(* Workspace: an ingest tells of each run it was about. *)
TellsOfEachRun == part = "workspace" => W!TellsOfEachRun
(* Workspace: the directory of a run can be given to ingest_metrics. *)
RunDirIngested == part = "workspace" => W!RunDirIngested

(* Settings: a load gives what the finished commands said. *)
LoadsWhatWasSet == part = "settings" => L!LoadsWhatWasSet
=============================================================================
