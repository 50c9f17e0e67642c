------------------------------ MODULE Adoption ------------------------------
(***************************************************************************)
(* The adoption of a data directory into a molexp workspace               *)
(* (src/molmcp/providers/molexp/adopt): run_adoption materializes the run  *)
(* directories, writes a ledger, transfers every file with a hash check,   *)
(* ingests the logs and verifies.  A call may crash at any step; the next  *)
(* call resumes from the ledger on disk.  Files are abstracted to model    *)
(* values and their bytes to members of Contents.                          *)
(***************************************************************************)
EXTENDS Integers, Sequences, FiniteSets

CONSTANTS
    Files,          \* source files, named by their relative path
    Runs,           \* run directories of the plan
    Paths,          \* paths inside the target workspace
    Contents,       \* what a file may hold
    Absent,         \* no file there
    Junk,           \* bytes of no planned file: half a .partial, a bad read-back
    Order,          \* ledger order of the files
    RunOrder,       \* ledger order of the runs
    RunOf,          \* the run a file belongs to
    Dst,            \* _target_for: the destination of a file
    Part,           \* its sibling "<name>.partial"
    Original,       \* what each source file holds at first
    Links,          \* the files that are symlinks
    Logs,           \* the files an ingest converts into curves
    Artifacts,      \* the files that make the survey see a run
    Occupied,       \* destinations a stranger's file already occupies
    Modes,          \* the transfer modes the caller may ask for
    Wants,          \* whether a call asks for an ingest (TRUE) or not
    Plans,          \* the file sets an edited plan may list
    DerivedPlan,    \* whether a call may omit the plan and re-survey
    LiveSource,     \* whether the source may be written during a call
    FlushEvery,     \* LEDGER_FLUSH_EVERY
    MaxCrashes, MaxFaults, MaxEdits    \* bounds of the runs

ASSUME AdoptionAssumption ==
    /\ Absent \notin Contents /\ Junk \notin Contents /\ Absent # Junk
    /\ Order \in Seq(Files) /\ RunOrder \in Seq(Runs)
    /\ RunOf \in [Files -> Runs]
    /\ Dst \in [Files -> Paths] /\ Part \in [Files -> Paths]
    /\ Original \in [Files -> Contents]
    /\ Links \subseteq Files /\ Logs \subseteq Files /\ Artifacts \subseteq Files
    /\ \A f \in Files : Part[f] # Dst[f]
    /\ \A l \in Links, f \in Files \ Links : Dst[l] # Dst[f]
    /\ Occupied \subseteq Paths
    /\ Modes \subseteq {"copy", "move"}
    /\ Wants \subseteq BOOLEAN /\ DerivedPlan \in BOOLEAN /\ LiveSource \in BOOLEAN
    /\ Plans \subseteq SUBSET Files
    /\ FlushEvery \in Nat \ {0}
    /\ MaxCrashes \in Nat /\ MaxFaults \in Nat /\ MaxEdits \in Nat

\* Order is that of all files.
ASSUME OrderAssumption == \A f \in Files : \E k \in 1..Len(Order) : Order[k] = f

\* No planned file is named like the .partial of another: true of the paths
\* TLC checks but one, and an assumption of the theorems.
NoPartialNames == \A f, g \in Files : Part[f] # Dst[g]

VARIABLES
    src,            \* the source directory
    fs,             \* the target workspace
    disk,           \* .molexp-migration.json
    slots,          \* run directories molexp has materialized
    metrics,        \* times each log is in its run's append-only buffer, up to 2
    pc,             \* where the call is; "idle" between calls
    led,            \* the call's ledger, in memory
    mode, want, planned,    \* its arguments
    i, j,           \* its positions in Order and RunOrder
    since,          \* since_flush
    written,        \* hash of the bytes it has just written
    problems,       \* whether it has a problem to report
    outcome,        \* what the last call reported
    unlinked,       \* files whose source a call has unlinked
    original,       \* what the user last left in the source
    crashes, faults, edits

source == <<src, original, unlinked>>
args   == <<mode, want, planned>>
bounds == <<crashes, faults, edits>>
vars   == <<src, fs, disk, slots, metrics, pc, led, mode, want, planned, i, j,
            since, written, problems, outcome, unlinked, original,
            crashes, faults, edits>>

Statuses  == {"pending", "verified", "moved", "skipped", "failed"}
\* Mutant: a resume does not redo a failed entry either.
TerminalWithFailed == {"verified", "moved", "skipped", "failed"}
\* Mutant: a skipped entry is planned again.
TerminalWithoutSkipped == {"verified", "moved"}
\* Per-entry states a resume never redoes.
Terminal  == {"verified", "moved", "skipped"}
Settled   == {"verified", "moved"}
NoEntry   == "none"

Ledgers == [mode   : {"none", "copy", "move"},
            file   : [Files -> Statuses \cup {NoEntry}],
            sha    : [Files -> Contents \cup {Absent}],
            ingest : [Runs -> Statuses \cup {NoEntry}]]

\* read_ledger returns None: there is no ledger file yet.
NoLedger == [mode   |-> "none",
             file   |-> [f \in Files |-> NoEntry],
             sha    |-> [f \in Files |-> Absent],
             ingest |-> [r \in Runs |-> NoEntry]]

Init ==
    /\ src = Original /\ original = Original /\ unlinked = {}
    /\ fs = [p \in Paths |-> IF p \in Occupied THEN Junk ELSE Absent]
    /\ disk = NoLedger /\ led = NoLedger
    /\ slots = {}
    /\ metrics = [f \in Files |-> 0]
    /\ pc = "idle" /\ outcome = "none"
    /\ mode = "none" /\ want = FALSE /\ planned = {}
    /\ i = 1 /\ j = 1 /\ since = 0 /\ written = Absent /\ problems = FALSE
    /\ crashes = 0 /\ faults = 0 /\ edits = 0

-----------------------------------------------------------------------------
(* The plan and the ledger *)

\* A fresh survey: the files still in the source, in the directories that
\* still hold run-shaped output.
Surveyed == {f \in Files : /\ src[f] # Absent
                           /\ \E g \in Artifacts : RunOf[g] = RunOf[f] /\ src[g] # Absent}

RunsOf(S) == {RunOf[f] : f \in S}

\* _entries and resume_or_create: the entries of this plan, each with the
\* status of the existing journal when that is terminal.
Merged == [mode   |-> mode,
           file   |-> [f \in Files |->
                          IF f \notin planned THEN NoEntry
                          ELSE IF disk.file[f] \in Terminal THEN disk.file[f]
                          ELSE "pending"],
           sha    |-> [f \in Files |->
                          IF f \in planned /\ disk.file[f] \in Terminal
                          THEN disk.sha[f] ELSE Absent],
           ingest |-> [r \in Runs |->
                          IF ~want \/ r \notin RunsOf(planned) THEN NoEntry
                          ELSE IF disk.ingest[r] \in Terminal THEN disk.ingest[r]
                          ELSE "pending"]]

\* The call is accepted: preconditions hold, the journal on disk is of the
\* same mode, and molexp creates (or returns) the run directories.
Begin ==
    /\ pc = "idle"
    /\ mode' \in Modes /\ want' \in Wants
    /\ planned' \in Plans \cup (IF DerivedPlan THEN {Surveyed} ELSE {})
    /\ disk.mode \in {"none", mode'}
    /\ slots' = slots \cup RunsOf(planned')
    /\ pc' = "open" /\ problems' = FALSE /\ outcome' = "none"
    /\ UNCHANGED <<source, fs, disk, metrics, led, i, j, since, written, bounds>>

\* The full ledger is written before the first byte moves.
OpenLedger ==
    /\ pc = "open"
    /\ led' = Merged /\ disk' = Merged
    /\ pc' = "loop" /\ i' = 1 /\ j' = 1 /\ since' = 0
    /\ UNCHANGED <<source, fs, slots, metrics, args, written, problems,
                   outcome, bounds>>

-----------------------------------------------------------------------------
(* _transfer_all and transfer_file, for the file at position i *)

Open(f) == pc = "loop" /\ i \in 1..Len(Order) /\ f = Order[i]
           /\ led.file[f] \notin Terminal \cup {NoEntry}

At(f, p) == pc = p /\ i \in 1..Len(Order) /\ f = Order[i]

\* Mutant: the last file is left out.
LastLeftOut == i >= Len(Order)
AllVisited  == i > Len(Order)

\* Mutant: the copy is written over whatever is there.
AnyDestination(f)  == TRUE
FreeDestination(f) == fs[Dst[f]] = Absent

\* Mutant: an existing destination is taken for this file's copy, unhashed.
SomeBytes(f) == fs[Dst[f]] # Absent
SameBytes(f) == fs[Dst[f]] = src[f]

\* Mutant: the copy is trusted without reading it back.
NotReadBack(f) == TRUE
ReadsBack(f)   == fs[Dst[f]] = written

\* Mutant: one file too many between two checkpoints.
FlushLate == since + 1 > FlushEvery
FlushDue  == since + 1 >= FlushEvery

\* A finished transfer enters the in-memory ledger; the file system change and
\* this entry are one step because a crash forgets the entry in any case.
Record(f, status, hash) ==
    /\ led' = [led EXCEPT !.file[f] = status, !.sha[f] = hash]
    /\ since' = since + 1
    /\ pc' = IF FlushDue THEN "flush" ELSE "loop"
    /\ i' = i + 1

\* TransferError or OSError: the entry fails, the ledger and the error report
\* are written and the loop breaks -- to the ingest, which still runs.
Fail(f) ==
    /\ led' = [led EXCEPT !.file[f] = "failed"]
    /\ disk' = led'
    /\ problems' = TRUE /\ since' = 0
    /\ pc' = IF want THEN "ingest" ELSE "verify"
    /\ UNCHANGED <<slots, metrics, args, i, j, written, outcome>>

\* Mutant: the source goes in copy mode too.
ReleaseAlways(f) ==
    src' = [src EXCEPT ![f] = Absent] /\ unlinked' = unlinked \cup {f}

\* The tail of both transfer functions: in move mode the source goes.
Release(f) ==
    IF mode = "move"
    THEN src' = [src EXCEPT ![f] = Absent] /\ unlinked' = unlinked \cup {f}
    ELSE UNCHANGED <<src, unlinked>>

DoneStatus == IF mode = "move" THEN "moved" ELSE "verified"

SkipEntry ==
    /\ pc = "loop" /\ i \in 1..Len(Order)
    /\ led.file[Order[i]] \in Terminal \cup {NoEntry}
    /\ i' = i + 1
    /\ UNCHANGED <<source, fs, disk, slots, metrics, pc, led, args, j, since,
                   written, problems, outcome, bounds>>

\* "source vanished": a terminal entry, written at once.
Vanished(f) ==
    /\ Open(f) /\ src[f] = Absent
    /\ led' = [led EXCEPT !.file[f] = "skipped"]
    /\ disk' = led'
    /\ problems' = TRUE /\ since' = 0 /\ i' = i + 1
    /\ UNCHANGED <<source, fs, slots, metrics, pc, args, j, written, outcome,
                   bounds>>

\* The destination already holds the same bytes: nothing is written.
Reuse(f) ==
    /\ Open(f) /\ f \notin Links
    /\ src[f] # Absent /\ SameBytes(f)
    /\ Release(f) /\ Record(f, DoneStatus, src[f])
    /\ UNCHANGED <<original, fs, disk, slots, metrics, args, j, written,
                   problems, outcome, bounds>>

\* The destination holds different bytes: never overwritten.
Refuse(f) ==
    /\ Open(f) /\ src[f] # Absent
    /\ ~FreeDestination(f) /\ ~SameBytes(f)
    /\ Fail(f)
    /\ UNCHANGED <<source, fs, bounds>>

\* A symlink is recreated as a symlink, or found there already ...
MakeLink(f) ==
    /\ Open(f) /\ f \in Links
    /\ src[f] # Absent /\ (FreeDestination(f) \/ SameBytes(f))
    /\ fs' = [fs EXCEPT ![Dst[f]] = src[f]]
    /\ pc' = "linked"
    /\ UNCHANGED <<source, disk, slots, metrics, led, args, i, j, since,
                   written, problems, outcome, bounds>>

\* ... and its entry settles without a hash, unless there is nothing to unlink.
LinkDone(f) ==
    /\ At(f, "linked")
    /\ IF mode = "move" /\ src[f] = Absent
       THEN Fail(f) /\ UNCHANGED <<source, fs, bounds>>
       ELSE /\ Release(f) /\ Record(f, DoneStatus, Absent)
            /\ UNCHANGED <<original, fs, disk, slots, metrics, args, j,
                           written, problems, outcome, bounds>>

\* The destination is free: open (and truncate) the .partial sibling.
StartCopy(f) ==
    /\ Open(f) /\ f \notin Links
    /\ src[f] # Absent /\ FreeDestination(f)
    /\ fs' = [fs EXCEPT ![Part[f]] = Junk]
    /\ pc' = "copy"
    /\ UNCHANGED <<source, disk, slots, metrics, led, args, i, j, since,
                   written, problems, outcome, bounds>>

\* The bytes are streamed into the .partial and it replaces the destination.
\* A fault is a write that does not read back.
FinishCopy(f) ==
    /\ At(f, "copy") /\ src[f] # Absent
    /\ written' = src[f]
    /\ \E landed \in {src[f], Junk} :
         /\ fs' = [fs EXCEPT ![Part[f]] = Absent, ![Dst[f]] = landed]
         /\ landed = Junk => faults < MaxFaults
         /\ faults' = IF landed = Junk THEN faults + 1 ELSE faults
    /\ pc' = "check"
    /\ UNCHANGED <<source, disk, slots, metrics, led, args, i, j, since,
                   problems, outcome, crashes, edits>>

\* OSError while copying, or a source that is gone: the .partial is removed.
CopyFault(f) ==
    /\ At(f, "copy")
    /\ src[f] # Absent => faults < MaxFaults
    /\ faults' = IF src[f] # Absent THEN faults + 1 ELSE faults
    /\ fs' = [fs EXCEPT ![Part[f]] = Absent]
    /\ Fail(f)
    /\ UNCHANGED <<source, crashes, edits>>

\* The destination is read back: a mismatch stops the adoption, and so does a
\* source that is gone when its times are copied.
Mismatch(f) ==
    /\ At(f, "check")
    /\ ~ReadsBack(f) \/ src[f] = Absent
    /\ Fail(f)
    /\ UNCHANGED <<source, fs, bounds>>

\* An OSError around the copy: of a hash, of the link, of the read-back, of the
\* times copied, of the unlink.  What has landed stays, the source too.
Raises(f) ==
    /\ (Open(f) /\ src[f] # Absent) \/ At(f, "linked") \/ At(f, "check")
    /\ faults < MaxFaults /\ faults' = faults + 1
    /\ Fail(f)
    /\ UNCHANGED <<source, fs, crashes, edits>>

Verified(f) ==
    /\ At(f, "check")
    /\ ReadsBack(f) /\ src[f] # Absent
    /\ Release(f) /\ Record(f, DoneStatus, written)
    /\ UNCHANGED <<original, fs, disk, slots, metrics, args, j, written,
                   problems, outcome, bounds>>

\* write_ledger, every FlushEvery files and after the last one.
Checkpoint ==
    /\ pc = "flush"
    /\ disk' = led /\ since' = 0 /\ pc' = "loop"
    /\ UNCHANGED <<source, fs, slots, metrics, led, args, i, j, written,
                   problems, outcome, bounds>>

EndTransfer ==
    /\ pc = "loop" /\ AllVisited
    /\ disk' = IF since > 0 THEN led ELSE disk
    /\ since' = 0
    /\ pc' = IF want THEN "ingest" ELSE "verify"
    /\ UNCHANGED <<source, fs, slots, metrics, led, args, i, j, written,
                   problems, outcome, bounds>>

-----------------------------------------------------------------------------
(* _ingest_all, for the run at position j, and _verify *)

IngestAt(r) == pc = "ingest" /\ j \in 1..Len(RunOrder) /\ r = RunOrder[j]

SkipIngest ==
    /\ pc = "ingest" /\ j \in 1..Len(RunOrder)
    /\ led.ingest[RunOrder[j]] \in Terminal \cup {NoEntry}
    /\ j' = j + 1
    /\ UNCHANGED <<source, fs, disk, slots, metrics, pc, led, args, i, since,
                   written, problems, outcome, bounds>>

\* What molexp's converters find in the run directory.
Readable(r) == {f \in Logs : RunOf[f] = r /\ fs[Dst[f]] # Absent}

\* The converters append the curves of the logs they find; one that raises has
\* appended some of them.  Either way the entry becomes terminal.
Ingest(r) ==
    /\ IngestAt(r) /\ led.ingest[r] = "pending"
    /\ \E status \in {"verified", "skipped"}, S \in SUBSET Readable(r) :
         /\ status = "verified" => S = Readable(r)
         /\ status = "skipped" => faults < MaxFaults
         /\ faults' = IF status = "skipped" THEN faults + 1 ELSE faults
         /\ metrics' = [f \in Files |-> IF f \in S /\ metrics[f] < 2
                                         THEN metrics[f] + 1 ELSE metrics[f]]
         /\ led' = [led EXCEPT !.ingest[r] = status]
    /\ pc' = "journal" /\ j' = j + 1
    /\ UNCHANGED <<source, fs, disk, slots, args, i, since, written, problems,
                   outcome, crashes, edits>>

\* write_ledger after each ingested run.
JournalIngest ==
    /\ pc = "journal"
    /\ disk' = led /\ pc' = "ingest"
    /\ UNCHANGED <<source, fs, slots, metrics, led, args, i, j, since, written,
                   problems, outcome, bounds>>

EndIngest ==
    /\ pc = "ingest" /\ j > Len(RunOrder)
    /\ pc' = "verify"
    /\ UNCHANGED <<source, fs, disk, slots, metrics, led, args, i, j, since,
                   written, problems, outcome, bounds>>

\* _verify's findings: a settled file that is not there, an entry left open.
Outstanding == {f \in Files : led.file[f] \notin Terminal \cup {NoEntry}}
Missing     == {f \in Files : led.file[f] \in Settled /\ fs[Dst[f]] = Absent}

\* The per-call state is dropped: the call has returned, or the process died.
Forget ==
    /\ pc' = "idle" /\ led' = NoLedger
    /\ mode' = "none" /\ want' = FALSE /\ planned' = {}
    /\ i' = 1 /\ j' = 1 /\ since' = 0 /\ written' = Absent /\ problems' = FALSE

Finish ==
    /\ pc = "verify"
    /\ disk' = led
    /\ outcome' = IF ~problems /\ Outstanding = {} /\ Missing = {}
                  THEN "ok" ELSE "problems"
    /\ Forget
    /\ UNCHANGED <<source, fs, slots, metrics, bounds>>

Crash ==
    /\ pc # "idle" /\ crashes < MaxCrashes
    /\ crashes' = crashes + 1
    /\ outcome' = "none"
    /\ Forget
    /\ UNCHANGED <<source, fs, disk, slots, metrics, faults, edits>>

-----------------------------------------------------------------------------
(* The people around it *)

\* The user rewrites or deletes a source file: a deletion at any time, a write
\* during a call only where the source is live.
Edit(f, c) ==
    /\ edits < MaxEdits /\ edits' = edits + 1
    /\ src[f] \notin {Absent, c}
    /\ pc = "idle" \/ c = Absent \/ LiveSource
    /\ src' = [src EXCEPT ![f] = c] /\ original' = [original EXCEPT ![f] = c]
    /\ UNCHANGED <<unlinked, fs, disk, slots, metrics, pc, led, args, i, j,
                   since, written, problems, outcome, crashes, faults>>

\* "Move it aside and re-run": the operator clears a destination that holds
\* somebody else's bytes.
MoveAside(p) ==
    /\ pc = "idle" /\ fs[p] = Junk
    /\ fs' = [fs EXCEPT ![p] = Absent]
    /\ UNCHANGED <<source, disk, slots, metrics, pc, led, args, i, j, since,
                   written, problems, outcome, bounds>>

FileStep(f) ==
    \/ Vanished(f) \/ Reuse(f) \/ Refuse(f) \/ MakeLink(f) \/ LinkDone(f)
    \/ StartCopy(f) \/ FinishCopy(f) \/ CopyFault(f) \/ Mismatch(f) \/ Raises(f)
    \/ Verified(f)

\* One step of a running call.
Step ==
    \/ OpenLedger \/ SkipEntry \/ Checkpoint \/ EndTransfer
    \/ \E f \in Files : FileStep(f)
    \/ SkipIngest \/ \E r \in Runs : Ingest(r)
    \/ JournalIngest \/ EndIngest \/ Finish

Next ==
    \/ Begin \/ Step \/ Crash
    \/ \E f \in Files, c \in Contents \cup {Absent} : Edit(f, c)
    \/ \E p \in Paths : MoveAside(p)

Spec == Init /\ [][Next]_vars

\* run_adoption is an ordinary call: it does not stop of itself between steps.
FairSpec == Spec /\ WF_vars(Step)

-----------------------------------------------------------------------------
(* What an adoption promises *)

\* Every variable stays in its domain.
TypeOK ==
    /\ src \in [Files -> Contents \cup {Absent}]
    /\ original \in [Files -> Contents \cup {Absent}]
    /\ unlinked \subseteq Files
    /\ fs \in [Paths -> Contents \cup {Absent, Junk}]
    /\ disk \in Ledgers /\ led \in Ledgers
    /\ slots \subseteq Runs /\ metrics \in [Files -> 0..2]
    /\ pc \in {"idle", "open", "loop", "linked", "copy", "check", "flush", "ingest",
               "journal", "verify"}
    /\ mode \in {"none", "copy", "move"} /\ want \in BOOLEAN
    /\ planned \subseteq Files
    /\ i \in 1..(Len(Order) + 1) /\ j \in 1..(Len(RunOrder) + 1)
    /\ since \in 0..FlushEvery /\ written \in Contents \cup {Absent}
    /\ problems \in BOOLEAN /\ outcome \in {"none", "ok", "problems"}
    /\ crashes \in 0..MaxCrashes /\ faults \in 0..MaxFaults
    /\ edits \in 0..MaxEdits

\* The bytes the user last left in the source are in the source or at their
\* destination, through any crash, failed write, bad read-back, edited plan and
\* change of mode: the guarantee of copy -> verify -> unlink (transfer.py).
NothingLost ==
    \A f \in Files :
        original[f] # Absent => original[f] \in {src[f], fs[Dst[f]]}

\* A hash in the ledger is the hash of the destination: what adoption_status
\* (verify=true) audits before the operator deletes the original.
LedgerTruth ==
    \A f \in Files \ Links :
        disk.file[f] \in Settled => fs[Dst[f]] = disk.sha[f]

\* An adoption that reported ok left no entry of its plan open or failed, and
\* every file it settled at its destination (_verify).
OkMeansSettled ==
    outcome = "ok" =>
        \A f \in Files : /\ disk.file[f] \notin {"pending", "failed"}
                         /\ disk.file[f] \in Settled => fs[Dst[f]] \in Contents

\* "This never overwrites": bytes at a destination stay as they are while a call
\* runs (transfer_file's existence check and its os.replace).
DestinationsKept ==
    \A f \in Files : fs[Dst[f]] # Absent => fs'[Dst[f]] = fs[Dst[f]]
NeverOverwrites == [][pc # "idle" => DestinationsKept]_vars

\* A call unlinks a source file in move mode only, and only while the
\* destination holds the very bytes that go.
UnlinkOnlyCopied ==
    [][\A f \in unlinked' \ unlinked :
          mode = "move" /\ src[f] # Absent /\ fs'[Dst[f]] = src[f]]_vars

\* A run the journal on disk records as ingested, or given up, is not opened
\* again by a later call of the same plan, and its curves stay as they are: they
\* would double (_entries, resume_or_create, _ingest_all).
JournaledIngestKept ==
    [][\A r \in Runs : disk.ingest[r] \in {"verified", "skipped"} =>
          /\ disk'.ingest[r] \in {disk.ingest[r], NoEntry}
          /\ \A f \in Files : RunOf[f] = r => metrics'[f] = metrics[f]]_vars

\* While no transfer failed in this call, an ingest sees every file of the plan
\* transferred or given up: the order run_adoption's docstring fixes.
IngestAfterTransfer ==
    [][pc = "ingest" /\ pc' = "journal" /\ ~problems =>
          \A f \in planned : led.file[f] \in {"verified", "moved", "skipped"}]_vars

\* Custody is refined (see Custody.tla), and it knows no file that a call let go
\* of without a copy: "lost" is none of its places.
place == [f \in Files |->
            IF f \in unlinked
            THEN IF fs[Dst[f]] = original[f] THEN "target" ELSE "lost"
            ELSE IF src[f] = Absent THEN "gone"
            ELSE IF fs[Dst[f]] = src[f] THEN "both" ELSE "source"]
AbstractCustody == INSTANCE Custody WITH moving <- pc # "idle" /\ mode = "move"
ImplementsCustody == AbstractCustody!Spec

\* Re-running the same adoption until it succeeds settles every file: a crash,
\* a failed write or a bad read-back costs a re-run and nothing else.  A file a
\* crash let a move forget is given up, but only after its bytes arrived.
GivenUp(f)   == disk.file[f] = "skipped" /\ f \in unlinked
RerunsSettle == <>[](\A f \in Files : disk.file[f] \in Settled \/ GivenUp(f))

\* The operator keeps re-running and follows the refusal's advice.
RerunSpec == FairSpec /\ WF_vars(Begin)
                      /\ \A p \in Paths : SF_vars(MoveAside(p))

-----------------------------------------------------------------------------
(* What the documentation says besides, refuted by the violation runs *)

\* "the ledger says exactly which files were already unlinked" (transfer.py:9):
\* after a call that returned, every unlinked file is on record as moved.
UnlinkedOnRecord ==
    outcome # "none" => \A f \in unlinked : disk.file[f] = "moved"

\* "a resumed adoption never ingests a run twice" (test_molexp_adopt.py:560).
CurvesNotDoubled == \A f \in Files : metrics[f] < 2

=============================================================================
