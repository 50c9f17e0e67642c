--------------------------- MODULE Adoption_proofs ---------------------------
(***************************************************************************)
(* Theorems about Adoption, for every plan, directory and bound.  First    *)
(* the types; then the invariant of custody: where a file's bytes are at   *)
(* each point of a transfer, and that both ledgers tell the truth about it.*)
(***************************************************************************)
EXTENDS Adoption, TLAPS

LEMMA MergedType ==
    ASSUME disk \in Ledgers, mode \in {"copy", "move"}
    PROVE  Merged \in Ledgers
BY DEF Merged, Ledgers, Statuses, NoEntry, Terminal

LEMMA NoLedgerType == NoLedger \in Ledgers
BY DEF NoLedger, Ledgers, Statuses, NoEntry

LEMMA LedgerUpdate ==
    ASSUME NEW L \in Ledgers
    PROVE  /\ \A f \in Files, s \in Statuses : [L EXCEPT !.file[f] = s] \in Ledgers
           /\ \A f \in Files, s \in Statuses, h \in Contents \cup {Absent} :
                 [L EXCEPT !.file[f] = s, !.sha[f] = h] \in Ledgers
           /\ \A r \in Runs, s \in Statuses : [L EXCEPT !.ingest[r] = s] \in Ledgers
BY DEF Ledgers

-----------------------------------------------------------------------------
(* Types: TypeOK in four parts, strengthened by what the counters need *)

DirsOK ==
    /\ src \in [Files -> Contents \cup {Absent}]
    /\ original \in [Files -> Contents \cup {Absent}]
    /\ unlinked \subseteq Files
    /\ fs \in [Paths -> Contents \cup {Absent, Junk}]
    /\ slots \subseteq Runs /\ metrics \in [Files -> 0..2]

LedgersOK == disk \in Ledgers /\ led \in Ledgers

CallOK ==
    /\ pc \in {"idle", "open", "loop", "linked", "copy", "check", "flush",
               "ingest", "journal", "verify"}
    /\ mode \in {"none", "copy", "move"} /\ want \in BOOLEAN
    /\ planned \subseteq Files
    /\ written \in Contents \cup {Absent}
    /\ problems \in BOOLEAN /\ outcome \in {"none", "ok", "problems"}
    /\ pc # "idle" => mode \in {"copy", "move"}

\* The places of a transfer, between two checkpoints.
Transferring == {"loop", "linked", "copy", "check"}

CountsOK ==
    /\ i \in 1..(Len(Order) + 1) /\ j \in 1..(Len(RunOrder) + 1)
    /\ since \in 0..FlushEvery
    /\ crashes \in 0..MaxCrashes /\ faults \in 0..MaxFaults
    /\ edits \in 0..MaxEdits
    /\ pc \in Transferring => since < FlushEvery

TypeInv == DirsOK /\ LedgersOK /\ CallOK /\ CountsOK

LEMMA TypeInvIsTypeOK == TypeInv => TypeOK
BY DEF TypeInv, DirsOK, LedgersOK, CallOK, CountsOK, TypeOK

LEMMA InitType == Init => TypeInv
<1> SUFFICES ASSUME Init PROVE TypeInv
  OBVIOUS
<1>1. DirsOK
  BY AdoptionAssumption DEF Init, DirsOK
<1>2. LedgersOK
  BY NoLedgerType DEF Init, LedgersOK
<1>3. CallOK
  BY DEF Init, CallOK
<1>4. CountsOK
  BY AdoptionAssumption DEF Init, CountsOK, Transferring
<1> QED
  BY <1>1, <1>2, <1>3, <1>4 DEF TypeInv

\* A recorded transfer advances the cursor and stays within the checkpoint.
LEMMA RecordCounts ==
    ASSUME CountsOK, pc \in Transferring, i \in 1..Len(Order),
           NEW f, NEW status, NEW hash, Record(f, status, hash)
    PROVE  /\ i' \in 1..(Len(Order) + 1) /\ since' \in 0..FlushEvery
           /\ pc' \in Transferring => since' < FlushEvery
<1>1. since \in Nat /\ since < FlushEvery /\ FlushEvery \in Nat /\ Len(Order) \in Nat
  BY AdoptionAssumption DEF CountsOK
<1>2. since' = since + 1 /\ i' = i + 1
  BY DEF Record
<1>3. since' = FlushEvery => pc' = "flush"
  BY <1>1, <1>2 DEF Record, FlushDue
<1> QED
  BY <1>1, <1>2, <1>3 DEF Transferring

LEMMA BeginType == ASSUME TypeInv, Begin PROVE TypeInv'
<1>1. DirsOK'
  BY AdoptionAssumption DEF TypeInv, DirsOK, CallOK, Begin, RunsOf, Surveyed, source, args, bounds
<1>2. LedgersOK'
  BY DEF TypeInv, LedgersOK, DirsOK, CallOK, Statuses, Begin, RunsOf, Surveyed
<1>3. CallOK'
  BY AdoptionAssumption DEF TypeInv, DirsOK, CallOK, Begin, RunsOf, Surveyed, source, args, bounds
<1>4. CountsOK'
  BY AdoptionAssumption DEF TypeInv, CountsOK, CallOK, Begin, RunsOf, Surveyed, Transferring, source, args, bounds
<1> QED
  BY <1>1, <1>2, <1>3, <1>4 DEF TypeInv

LEMMA OpenLedgerType == ASSUME TypeInv, OpenLedger PROVE TypeInv'
<1>1. DirsOK'
  BY AdoptionAssumption DEF TypeInv, DirsOK, CallOK, OpenLedger, source, args, bounds
<1>2. LedgersOK'
  BY MergedType DEF TypeInv, LedgersOK, DirsOK, CallOK, Statuses, OpenLedger
<1>3. CallOK'
  BY AdoptionAssumption DEF TypeInv, DirsOK, CallOK, OpenLedger, source, args, bounds
<1>4. CountsOK'
  BY AdoptionAssumption DEF TypeInv, CountsOK, CallOK, OpenLedger, Transferring, source, args, bounds
<1> QED
  BY <1>1, <1>2, <1>3, <1>4 DEF TypeInv

LEMMA VanishedType == ASSUME TypeInv, NEW f \in Files, Vanished(f) PROVE TypeInv'
<1>1. DirsOK'
  BY AdoptionAssumption DEF TypeInv, DirsOK, CallOK, Vanished, Open, source, args, bounds
<1>2. LedgersOK'
  BY LedgerUpdate DEF TypeInv, LedgersOK, DirsOK, CallOK, Statuses, Vanished, Open
<1>3. CallOK'
  BY AdoptionAssumption DEF TypeInv, DirsOK, CallOK, Vanished, Open, source, args, bounds
<1>4. CountsOK'
  <2>1. /\ i \in 1..Len(Order) /\ i' = i + 1 /\ since' = 0 /\ pc' = pc /\ j' = j
        /\ crashes' = crashes /\ faults' = faults /\ edits' = edits
    BY DEF Vanished, Open, args, bounds
  <2>2. Len(Order) \in Nat /\ FlushEvery \in Nat \ {0}
    BY AdoptionAssumption
  <2> QED
    BY <2>1, <2>2 DEF TypeInv, CountsOK, Transferring
<1> QED
  BY <1>1, <1>2, <1>3, <1>4 DEF TypeInv

LEMMA ReuseType == ASSUME TypeInv, NEW f \in Files, Reuse(f) PROVE TypeInv'
<1>1. DirsOK'
  BY AdoptionAssumption DEF TypeInv, DirsOK, CallOK, Reuse, Open, Release, Record, DoneStatus, source, args, bounds
<1>2. LedgersOK'
  BY LedgerUpdate DEF TypeInv, LedgersOK, DirsOK, CallOK, Statuses, Reuse, Open, Release, Record, DoneStatus
<1>3. CallOK'
  BY AdoptionAssumption DEF TypeInv, DirsOK, CallOK, Reuse, Open, Release, Record, DoneStatus, source, args, bounds
<1>4. CountsOK'
  <2>1. pc \in Transferring /\ i \in 1..Len(Order)
    BY DEF Reuse, Open, Transferring
  <2>2. PICK h : Record(f, DoneStatus, h)
    BY DEF Reuse
  <2> QED
    BY <2>1, <2>2, RecordCounts DEF TypeInv, CountsOK, Reuse, bounds
<1> QED
  BY <1>1, <1>2, <1>3, <1>4 DEF TypeInv

LEMMA RefuseType == ASSUME TypeInv, NEW f \in Files, Refuse(f) PROVE TypeInv'
<1>1. DirsOK'
  BY AdoptionAssumption DEF TypeInv, DirsOK, CallOK, Refuse, Open, Fail, source, args, bounds
<1>2. LedgersOK'
  BY LedgerUpdate DEF TypeInv, LedgersOK, DirsOK, CallOK, Statuses, Refuse, Open, Fail
<1>3. CallOK'
  BY AdoptionAssumption DEF TypeInv, DirsOK, CallOK, Refuse, Open, Fail, source, args, bounds
<1>4. CountsOK'
  BY AdoptionAssumption DEF TypeInv, CountsOK, CallOK, Refuse, Open, Fail, Transferring, source, args, bounds
<1> QED
  BY <1>1, <1>2, <1>3, <1>4 DEF TypeInv

LEMMA MakeLinkType == ASSUME TypeInv, NEW f \in Files, MakeLink(f) PROVE TypeInv'
<1>1. DirsOK'
  BY AdoptionAssumption DEF TypeInv, DirsOK, CallOK, MakeLink, Open, source, args, bounds
<1>2. LedgersOK'
  BY DEF TypeInv, LedgersOK, DirsOK, CallOK, Statuses, MakeLink, Open
<1>3. CallOK'
  BY AdoptionAssumption DEF TypeInv, DirsOK, CallOK, MakeLink, Open, source, args, bounds
<1>4. CountsOK'
  BY AdoptionAssumption DEF TypeInv, CountsOK, CallOK, MakeLink, Open, Transferring, source, args, bounds
<1> QED
  BY <1>1, <1>2, <1>3, <1>4 DEF TypeInv

LEMMA LinkDoneType == ASSUME TypeInv, NEW f \in Files, LinkDone(f) PROVE TypeInv'
<1>1. CASE Fail(f) /\ UNCHANGED <<source, fs, bounds>>
  <2>1. DirsOK'
    BY <1>1 DEF TypeInv, DirsOK, Fail, source
  <2>2. LedgersOK'
    BY <1>1, LedgerUpdate DEF TypeInv, LedgersOK, Statuses, Fail
  <2>3. CallOK'
    BY <1>1 DEF TypeInv, CallOK, Fail, LinkDone, At, args
  <2>4. CountsOK'
    BY <1>1, AdoptionAssumption DEF TypeInv, CountsOK, Fail, Transferring, bounds
  <2> QED
    BY <2>1, <2>2, <2>3, <2>4 DEF TypeInv
<1>2. CASE /\ Release(f) /\ Record(f, DoneStatus, Absent)
           /\ UNCHANGED <<original, fs, disk, slots, metrics, args, j,
                          written, problems, outcome, bounds>>
  <2>1. DirsOK'
    BY <1>2 DEF TypeInv, DirsOK, Release
  <2>2. LedgersOK'
    BY <1>2, LedgerUpdate DEF TypeInv, LedgersOK, Statuses, Record, DoneStatus
  <2>3. CallOK'
    BY <1>2 DEF TypeInv, CallOK, Record, LinkDone, At, args
  <2>4. CountsOK'
    <3>1. pc \in Transferring /\ i \in 1..Len(Order)
      BY DEF LinkDone, At, Transferring
    <3> QED
      BY <1>2, <3>1, RecordCounts DEF TypeInv, CountsOK, bounds
  <2> QED
    BY <2>1, <2>2, <2>3, <2>4 DEF TypeInv
<1> QED
  BY <1>1, <1>2 DEF LinkDone

LEMMA StartCopyType == ASSUME TypeInv, NEW f \in Files, StartCopy(f) PROVE TypeInv'
<1>1. DirsOK'
  BY AdoptionAssumption DEF TypeInv, DirsOK, CallOK, StartCopy, Open, source, args, bounds
<1>2. LedgersOK'
  BY DEF TypeInv, LedgersOK, DirsOK, CallOK, Statuses, StartCopy, Open
<1>3. CallOK'
  BY AdoptionAssumption DEF TypeInv, DirsOK, CallOK, StartCopy, Open, source, args, bounds
<1>4. CountsOK'
  BY AdoptionAssumption DEF TypeInv, CountsOK, CallOK, StartCopy, Open, Transferring, source, args, bounds
<1> QED
  BY <1>1, <1>2, <1>3, <1>4 DEF TypeInv

LEMMA FinishCopyType == ASSUME TypeInv, NEW f \in Files, FinishCopy(f) PROVE TypeInv'
<1>1. DirsOK'
  BY AdoptionAssumption DEF TypeInv, DirsOK, CallOK, FinishCopy, At, source, args, bounds
<1>2. LedgersOK'
  BY DEF TypeInv, LedgersOK, DirsOK, CallOK, Statuses, FinishCopy, At
<1>3. CallOK'
  BY AdoptionAssumption DEF TypeInv, DirsOK, CallOK, FinishCopy, At, source, args, bounds
<1>4. CountsOK'
  BY AdoptionAssumption DEF TypeInv, CountsOK, CallOK, FinishCopy, At, Transferring, source, args, bounds
<1> QED
  BY <1>1, <1>2, <1>3, <1>4 DEF TypeInv

LEMMA CopyFaultType == ASSUME TypeInv, NEW f \in Files, CopyFault(f) PROVE TypeInv'
<1>1. DirsOK'
  BY AdoptionAssumption DEF TypeInv, DirsOK, CallOK, CopyFault, At, Fail, source, args, bounds
<1>2. LedgersOK'
  BY LedgerUpdate DEF TypeInv, LedgersOK, DirsOK, CallOK, Statuses, CopyFault, At, Fail
<1>3. CallOK'
  BY AdoptionAssumption DEF TypeInv, DirsOK, CallOK, CopyFault, At, Fail, source, args, bounds
<1>4. CountsOK'
  BY AdoptionAssumption DEF TypeInv, CountsOK, CallOK, CopyFault, At, Fail, Transferring, source, args, bounds
<1> QED
  BY <1>1, <1>2, <1>3, <1>4 DEF TypeInv

LEMMA MismatchType == ASSUME TypeInv, NEW f \in Files, Mismatch(f) PROVE TypeInv'
<1>1. DirsOK'
  BY AdoptionAssumption DEF TypeInv, DirsOK, CallOK, Mismatch, At, Fail, source, args, bounds
<1>2. LedgersOK'
  BY LedgerUpdate DEF TypeInv, LedgersOK, DirsOK, CallOK, Statuses, Mismatch, At, Fail
<1>3. CallOK'
  BY AdoptionAssumption DEF TypeInv, DirsOK, CallOK, Mismatch, At, Fail, source, args, bounds
<1>4. CountsOK'
  BY AdoptionAssumption DEF TypeInv, CountsOK, CallOK, Mismatch, At, Fail, Transferring, source, args, bounds
<1> QED
  BY <1>1, <1>2, <1>3, <1>4 DEF TypeInv

LEMMA RaisesType == ASSUME TypeInv, NEW f \in Files, Raises(f) PROVE TypeInv'
<1>1. DirsOK'
  BY AdoptionAssumption DEF TypeInv, DirsOK, CallOK, Raises, Open, At, Fail, source, args, bounds
<1>2. LedgersOK'
  BY LedgerUpdate DEF TypeInv, LedgersOK, DirsOK, CallOK, Statuses, Raises, Open, At, Fail
<1>3. CallOK'
  BY AdoptionAssumption DEF TypeInv, DirsOK, CallOK, Raises, Open, At, Fail, source, args, bounds
<1>4. CountsOK'
  BY AdoptionAssumption DEF TypeInv, CountsOK, CallOK, Raises, Open, At, Fail, Transferring, source, args, bounds
<1> QED
  BY <1>1, <1>2, <1>3, <1>4 DEF TypeInv

LEMMA VerifiedType == ASSUME TypeInv, NEW f \in Files, Verified(f) PROVE TypeInv'
<1>1. DirsOK'
  BY AdoptionAssumption DEF TypeInv, DirsOK, CallOK, Verified, At, Release, Record, DoneStatus, source, args, bounds
<1>2. LedgersOK'
  BY LedgerUpdate DEF TypeInv, LedgersOK, DirsOK, CallOK, Statuses, Verified, At, Release, Record, DoneStatus
<1>3. CallOK'
  BY AdoptionAssumption DEF TypeInv, DirsOK, CallOK, Verified, At, Release, Record, DoneStatus, source, args, bounds
<1>4. CountsOK'
  <2>1. pc \in Transferring /\ i \in 1..Len(Order)
    BY DEF Verified, At, Transferring
  <2>2. PICK h : Record(f, DoneStatus, h)
    BY DEF Verified
  <2> QED
    BY <2>1, <2>2, RecordCounts DEF TypeInv, CountsOK, Verified, bounds
<1> QED
  BY <1>1, <1>2, <1>3, <1>4 DEF TypeInv

LEMMA IngestType == ASSUME TypeInv, NEW r \in Runs, Ingest(r) PROVE TypeInv'
<1>1. PICK status \in {"verified", "skipped"}, S \in SUBSET Readable(r) :
        /\ status = "skipped" => faults < MaxFaults
        /\ faults' = IF status = "skipped" THEN faults + 1 ELSE faults
        /\ metrics' = [f \in Files |-> IF f \in S /\ metrics[f] < 2
                                       THEN metrics[f] + 1 ELSE metrics[f]]
        /\ led' = [led EXCEPT !.ingest[r] = status]
  BY DEF Ingest
<1>2. DirsOK'
  BY <1>1 DEF TypeInv, DirsOK, Ingest, source
<1>3. LedgersOK'
  BY <1>1, LedgerUpdate DEF TypeInv, LedgersOK, Ingest, Statuses
<1>4. CallOK'
  BY DEF TypeInv, CallOK, Ingest, IngestAt, args
<1>5. faults' \in 0..MaxFaults
  BY <1>1, AdoptionAssumption DEF TypeInv, CountsOK
<1>6. j' \in 1..(Len(RunOrder) + 1)
  BY AdoptionAssumption DEF Ingest, IngestAt
<1>7. CountsOK'
  BY <1>5, <1>6 DEF TypeInv, CountsOK, Ingest, Transferring
<1> QED
  BY <1>2, <1>3, <1>4, <1>7 DEF TypeInv

LEMMA FinishType == ASSUME TypeInv, Finish PROVE TypeInv'
<1>1. DirsOK'
  BY AdoptionAssumption DEF TypeInv, DirsOK, CallOK, Finish, Forget, source, args, bounds
<1>2. LedgersOK'
  BY NoLedgerType DEF TypeInv, LedgersOK, DirsOK, CallOK, Statuses, Finish, Forget
<1>3. CallOK'
  BY AdoptionAssumption DEF TypeInv, DirsOK, CallOK, Finish, Forget, source, args, bounds
<1>4. CountsOK'
  BY AdoptionAssumption DEF TypeInv, CountsOK, CallOK, Finish, Forget, Transferring, source, args, bounds
<1> QED
  BY <1>1, <1>2, <1>3, <1>4 DEF TypeInv

LEMMA CrashType == ASSUME TypeInv, Crash PROVE TypeInv'
<1>1. DirsOK'
  BY AdoptionAssumption DEF TypeInv, DirsOK, CallOK, Crash, Forget, source, args, bounds
<1>2. LedgersOK'
  BY NoLedgerType DEF TypeInv, LedgersOK, DirsOK, CallOK, Statuses, Crash, Forget
<1>3. CallOK'
  BY AdoptionAssumption DEF TypeInv, DirsOK, CallOK, Crash, Forget, source, args, bounds
<1>4. CountsOK'
  BY AdoptionAssumption DEF TypeInv, CountsOK, CallOK, Crash, Forget, Transferring, source, args, bounds
<1> QED
  BY <1>1, <1>2, <1>3, <1>4 DEF TypeInv

LEMMA EditType == ASSUME TypeInv, NEW f \in Files, NEW c \in Contents \cup {Absent}, Edit(f, c) PROVE TypeInv'
<1>1. DirsOK'
  BY AdoptionAssumption DEF TypeInv, DirsOK, CallOK, Edit, source, args, bounds
<1>2. LedgersOK'
  BY DEF TypeInv, LedgersOK, DirsOK, CallOK, Statuses, Edit
<1>3. CallOK'
  BY AdoptionAssumption DEF TypeInv, DirsOK, CallOK, Edit, source, args, bounds
<1>4. CountsOK'
  BY AdoptionAssumption DEF TypeInv, CountsOK, CallOK, Edit, Transferring, source, args, bounds
<1> QED
  BY <1>1, <1>2, <1>3, <1>4 DEF TypeInv

LEMMA MoveAsideType == ASSUME TypeInv, NEW p \in Paths, MoveAside(p) PROVE TypeInv'
<1>1. DirsOK'
  BY AdoptionAssumption DEF TypeInv, DirsOK, CallOK, MoveAside, source, args, bounds
<1>2. LedgersOK'
  BY DEF TypeInv, LedgersOK, DirsOK, CallOK, Statuses, MoveAside
<1>3. CallOK'
  BY AdoptionAssumption DEF TypeInv, DirsOK, CallOK, MoveAside, source, args, bounds
<1>4. CountsOK'
  BY AdoptionAssumption DEF TypeInv, CountsOK, CallOK, MoveAside, Transferring, source, args, bounds
<1> QED
  BY <1>1, <1>2, <1>3, <1>4 DEF TypeInv

\* The steps that only move a cursor or write the ledger.
Bookkeeping ==
    \/ SkipEntry \/ Checkpoint \/ EndTransfer \/ SkipIngest \/ JournalIngest
    \/ EndIngest

LEMMA BookkeepingType == ASSUME TypeInv, Bookkeeping PROVE TypeInv'
<1> USE AdoptionAssumption DEF TypeInv, source, args, bounds
<1>1. DirsOK'
  BY DEF DirsOK, Bookkeeping, SkipEntry, Checkpoint, EndTransfer, SkipIngest,
         JournalIngest, EndIngest
<1>2. LedgersOK'
  BY DEF LedgersOK, Bookkeeping, SkipEntry, Checkpoint, EndTransfer, SkipIngest,
         JournalIngest, EndIngest
<1>3. CallOK'
  BY DEF CallOK, Bookkeeping, SkipEntry, Checkpoint, EndTransfer, SkipIngest,
         JournalIngest, EndIngest
<1>4. CountsOK'
  <2>1. CASE SkipEntry
    BY <2>1 DEF CountsOK, Transferring, SkipEntry
  <2>2. CASE SkipIngest
    BY <2>2 DEF CountsOK, Transferring, SkipIngest
  <2>3. CASE Checkpoint \/ EndTransfer
    BY <2>3 DEF CountsOK, Transferring, Checkpoint, EndTransfer
  <2>4. CASE JournalIngest \/ EndIngest
    BY <2>4 DEF CountsOK, Transferring, JournalIngest, EndIngest
  <2> QED
    BY <2>1, <2>2, <2>3, <2>4 DEF Bookkeeping
<1> QED
  BY <1>1, <1>2, <1>3, <1>4

LEMMA FileStepType == ASSUME TypeInv, NEW f \in Files, FileStep(f) PROVE TypeInv'
BY VanishedType, ReuseType, RefuseType, MakeLinkType, LinkDoneType, StartCopyType,
   FinishCopyType, CopyFaultType, MismatchType, RaisesType, VerifiedType DEF FileStep

LEMMA TypeStep == TypeInv /\ [Next]_vars => TypeInv'
<1> SUFFICES ASSUME TypeInv, [Next]_vars PROVE TypeInv'
  OBVIOUS
<1>1. CASE Begin
  BY <1>1, BeginType
<1>2. CASE Step
  BY <1>2, OpenLedgerType, FileStepType, BookkeepingType, IngestType, FinishType
     DEF Step, Bookkeeping
<1>3. CASE Crash
  BY <1>3, CrashType
<1>4. CASE \E f \in Files, c \in Contents \cup {Absent} : Edit(f, c)
  BY <1>4, EditType
<1>5. CASE \E p \in Paths : MoveAside(p)
  BY <1>5, MoveAsideType
<1>6. CASE UNCHANGED vars
  BY <1>6 DEF vars, TypeInv, DirsOK, LedgersOK, CallOK, CountsOK
<1> QED
  BY <1>1, <1>2, <1>3, <1>4, <1>5, <1>6 DEF Next

LEMMA TypeAlways == Spec => []TypeInv
BY InitType, TypeStep, PTL DEF Spec

\* Type correctness of every state of every adoption.
THEOREM TypeCorrect == Spec => []TypeOK
BY TypeAlways, TypeInvIsTypeOK, PTL

-----------------------------------------------------------------------------
(* Custody: what holds of the bytes at each point of a transfer *)

\* Nobody but the user changes what a source file holds.
SourceInv == \A f \in Files : src[f] \in {original[f], Absent}

\* While a file is in transfer: its destination is free until the copy lands,
\* then it is the copy or junk, and the source has not changed meanwhile.
TransferInv ==
    /\ pc \in {"copy", "check", "linked"} => i \in 1..Len(Order)
    /\ pc = "copy" => Order[i] \notin Links /\ fs[Dst[Order[i]]] = Absent
    /\ pc = "check" => /\ Order[i] \notin Links /\ written \in Contents
                       /\ fs[Dst[Order[i]]] \in {written, Junk}
                       /\ src[Order[i]] \in {written, Absent}
    /\ pc = "linked" => /\ Order[i] \in Links
                        /\ src[Order[i]] \in {fs[Dst[Order[i]]], Absent}

\* The hashes in a ledger are the hashes of the destinations in directory d.
LedgerHolds(L, d) ==
    \A f \in Files \ Links :
        L.file[f] \in Settled => L.sha[f] \in Contents /\ d[Dst[f]] = L.sha[f]

CustodyInv ==
    /\ SourceInv /\ NothingLost /\ TransferInv
    /\ LedgerHolds(disk, fs) /\ LedgerHolds(led, fs)

\* Bytes that came from a source stay at their destination: every step, the
\* operator's included, keeps them.
BytesKept == \A f \in Files : fs[Dst[f]] \in Contents => fs'[Dst[f]] = fs[Dst[f]]

\* The theorems' assumptions about the surroundings.
Quiet == NoPartialNames /\ ~LiveSource

LEMMA KeptIsBytesKept == DestinationsKept => BytesKept
BY AdoptionAssumption DEF DestinationsKept, BytesKept

LEMMA LedgerHoldsKept ==
    ASSUME NEW L, LedgerHolds(L, fs), BytesKept
    PROVE  LedgerHolds(L, fs')
BY DEF LedgerHolds, BytesKept

\* What every step of the system keeps, given the invariant.
LEMMA FileStepKept ==
    ASSUME Quiet, TypeInv, CustodyInv, NEW f \in Files, FileStep(f)
    PROVE  DestinationsKept
<1> USE AdoptionAssumption DEF Quiet, NoPartialNames, DestinationsKept
<1>1. CASE StartCopy(f)
  BY <1>1 DEF StartCopy, TypeInv, DirsOK
<1>2. CASE FinishCopy(f)
  <2>1. fs[Dst[f]] = Absent
    BY <1>2 DEF FinishCopy, At, CustodyInv, TransferInv
  <2> QED
    BY <1>2, <2>1 DEF FinishCopy, TypeInv, DirsOK
<1>3. CASE CopyFault(f)
  BY <1>3 DEF CopyFault, TypeInv, DirsOK
<1>4. CASE MakeLink(f)
  BY <1>4 DEF MakeLink, FreeDestination, SameBytes, TypeInv, DirsOK
<1>5. CASE Vanished(f) \/ Reuse(f) \/ Refuse(f) \/ LinkDone(f) \/ Mismatch(f) \/ Raises(f) \/ Verified(f)
  BY <1>5 DEF Vanished, Reuse, Refuse, LinkDone, Mismatch, Raises, Verified
<1> QED
  BY <1>1, <1>2, <1>3, <1>4, <1>5 DEF FileStep

LEMMA StepKept ==
    ASSUME Quiet, TypeInv, CustodyInv, [Next]_vars, pc # "idle"
    PROVE  DestinationsKept
<1>1. CASE fs' = fs
  BY <1>1 DEF DestinationsKept
<1>2. CASE \E f \in Files : FileStep(f)
  BY <1>2, FileStepKept
<1> QED
  BY <1>1, <1>2 DEF Next, Step, Begin, OpenLedger, SkipEntry, Checkpoint, EndTransfer,
     SkipIngest, Ingest, JournalIngest, EndIngest, Finish, Crash, Edit, MoveAside, vars

LEMMA NextKept ==
    ASSUME Quiet, TypeInv, CustodyInv, [Next]_vars
    PROVE  BytesKept
<1>1. CASE pc # "idle"
  BY <1>1, StepKept, KeptIsBytesKept
<1>2. CASE pc = "idle"
  <2>1. CASE fs' = fs
    BY <2>1 DEF BytesKept
  <2>2. CASE \E p \in Paths : MoveAside(p)
    BY <2>2, AdoptionAssumption DEF MoveAside, BytesKept, TypeInv, DirsOK
  <2> QED
    BY <1>2, <2>1, <2>2 DEF Next, Step, Begin, OpenLedger, SkipEntry, Checkpoint,
       EndTransfer, SkipIngest, Ingest, JournalIngest, EndIngest, Finish, Crash, Edit,
       FileStep, Vanished, Reuse, Refuse, MakeLink, LinkDone, StartCopy, FinishCopy,
       CopyFault, Mismatch, Raises, Verified, Open, At, IngestAt, vars
<1> QED
  BY <1>1, <1>2

\* A transfer step leaves the source alone, or unlinks the file it is at, in
\* move mode, while the destination holds the same bytes.
LEMMA ReleaseSafe ==
    ASSUME Quiet, TypeInv, CustodyInv, NEW f \in Files, FileStep(f)
    PROVE  /\ original' = original
           /\ \/ src' = src /\ unlinked' = unlinked
              \/ /\ mode = "move" /\ src[f] # Absent /\ fs[Dst[f]] = src[f]
                 /\ src' = [src EXCEPT ![f] = Absent]
                 /\ unlinked' = unlinked \cup {f}
                 /\ fs' = fs
<1>1. CASE Reuse(f)
  BY <1>1 DEF Reuse, Release, SameBytes
<1>2. CASE LinkDone(f)
  BY <1>2 DEF LinkDone, At, Release, Fail, source, CustodyInv, TransferInv
<1>3. CASE Verified(f)
  <2>1. src[f] = written /\ fs[Dst[f]] = written
    BY <1>3 DEF Verified, At, ReadsBack, CustodyInv, TransferInv
  <2> QED
    BY <1>3, <2>1 DEF Verified, Release
<1>4. CASE source' = source
  BY <1>4 DEF source
<1> QED
  BY <1>1, <1>2, <1>3, <1>4 DEF FileStep, Vanished, Refuse, MakeLink, StartCopy,
     FinishCopy, CopyFault, Mismatch, Raises

\* A step that leaves both the source and what the user left there.
LEMMA SameSource ==
    ASSUME TypeInv, CustodyInv, BytesKept, src' = src, original' = original
    PROVE  SourceInv' /\ NothingLost'
BY AdoptionAssumption DEF TypeInv, DirsOK, CustodyInv, SourceInv, NothingLost, BytesKept

LEMMA BytesStep ==
    ASSUME Quiet, TypeInv, CustodyInv, [Next]_vars
    PROVE  SourceInv' /\ NothingLost'
<1>0. BytesKept
  BY NextKept
<1>1. CASE source' = source
  BY <1>0, <1>1, SameSource DEF source
<1>2. ASSUME NEW f \in Files, FileStep(f) PROVE SourceInv' /\ NothingLost'
  <2>1. CASE src' = src /\ original' = original
    BY <1>0, <2>1, SameSource
  <2>2. CASE /\ src[f] # Absent /\ fs[Dst[f]] = src[f] /\ original' = original
             /\ src' = [src EXCEPT ![f] = Absent] /\ fs' = fs
    BY <2>2 DEF TypeInv, DirsOK, CustodyInv, SourceInv, NothingLost
  <2> QED
    BY <1>2, <2>1, <2>2, ReleaseSafe
<1>3. ASSUME NEW f \in Files, NEW c \in Contents \cup {Absent}, Edit(f, c)
      PROVE  SourceInv' /\ NothingLost'
  BY <1>3 DEF Edit, TypeInv, DirsOK, CustodyInv, SourceInv, NothingLost
<1> QED
  BY <1>1, <1>2, <1>3 DEF Next, Step, Begin, OpenLedger, SkipEntry, Checkpoint,
     EndTransfer, SkipIngest, Ingest, JournalIngest, EndIngest, Finish, Crash,
     MoveAside, vars, source

LEMMA TransferStep ==
    ASSUME Quiet, TypeInv, CustodyInv, [Next]_vars
    PROVE  TransferInv'
<1> USE AdoptionAssumption DEF TypeInv, DirsOK, CallOK
<1>1. CASE pc' \notin {"copy", "check", "linked"}
  BY <1>1 DEF TransferInv
<1>2. ASSUME NEW f \in Files, StartCopy(f) PROVE TransferInv'
  BY <1>2 DEF StartCopy, Open, FreeDestination, TransferInv, Quiet, NoPartialNames
<1>3. ASSUME NEW f \in Files, FinishCopy(f) PROVE TransferInv'
  BY <1>3 DEF FinishCopy, At, TransferInv, CustodyInv, source
<1>4. ASSUME NEW f \in Files, MakeLink(f) PROVE TransferInv'
  BY <1>4 DEF MakeLink, Open, TransferInv, source
<1>5. ASSUME NEW f \in Files, NEW c \in Contents \cup {Absent}, Edit(f, c)
      PROVE  TransferInv'
  BY <1>5 DEF Edit, Quiet, TransferInv, CustodyInv
<1>6. CASE UNCHANGED vars
  BY <1>6 DEF vars, TransferInv, CustodyInv
<1>7. ASSUME NEW f \in Files, \/ Vanished(f) \/ Reuse(f) \/ Refuse(f) \/ LinkDone(f)
                              \/ CopyFault(f) \/ Mismatch(f) \/ Raises(f) \/ Verified(f)
      PROVE  TransferInv'
  BY <1>1, <1>7 DEF Vanished, Reuse, Refuse, LinkDone, CopyFault, Mismatch, Raises, Verified,
     Record, Fail, Open
<1>8. ASSUME \/ Begin \/ OpenLedger \/ Bookkeeping \/ Finish \/ Crash
             \/ \E r \in Runs : Ingest(r)
             \/ \E p \in Paths : MoveAside(p)
      PROVE  TransferInv'
  BY <1>1, <1>8 DEF Begin, OpenLedger, Bookkeeping, SkipEntry, Checkpoint, EndTransfer,
     SkipIngest, Ingest, JournalIngest, EndIngest, Finish, Forget, Crash, MoveAside
<1> QED
  BY <1>2, <1>3, <1>4, <1>5, <1>6, <1>7, <1>8 DEF Next, Step, FileStep, Bookkeeping

\* Putting a settled entry into a ledger that holds keeps it holding, if its
\* hash is the destination's; any other status needs nothing.
LEMMA LedgerHoldsUpdate ==
    ASSUME NEW L \in Ledgers, NEW d, LedgerHolds(L, d), NEW f \in Files
    PROVE  /\ \A s : s \notin Settled => LedgerHolds([L EXCEPT !.file[f] = s], d)
           /\ \A s, h : f \in Links \/ (h \in Contents /\ d[Dst[f]] = h) =>
                 LedgerHolds([L EXCEPT !.file[f] = s, !.sha[f] = h], d)
BY DEF Ledgers, LedgerHolds

LEMMA LedgerStep ==
    ASSUME Quiet, TypeInv, CustodyInv, [Next]_vars
    PROVE  LedgerHolds(disk', fs') /\ LedgerHolds(led', fs')
<1>0. LedgerHolds(disk, fs') /\ LedgerHolds(led, fs') /\ LedgerHolds(NoLedger, fs')
  BY NextKept, LedgerHoldsKept DEF CustodyInv, LedgerHolds, NoLedger, NoEntry, Settled
<1> USE DEF TypeInv, LedgersOK
<1>1. CASE disk' \in {disk, led} /\ led' \in {led, NoLedger}
  BY <1>0, <1>1
<1>2. CASE OpenLedger
  BY <1>0, <1>2 DEF OpenLedger, Merged, LedgerHolds, Settled, Terminal, NoEntry
<1>3. ASSUME NEW f \in Files, Fail(f)
      PROVE  LedgerHolds(disk', fs') /\ LedgerHolds(led', fs')
  BY <1>0, <1>3, LedgerHoldsUpdate DEF Fail, Settled
<1>4. ASSUME NEW f \in Files, Vanished(f)
      PROVE  LedgerHolds(disk', fs') /\ LedgerHolds(led', fs')
  BY <1>0, <1>4, LedgerHoldsUpdate DEF Vanished, Settled
<1>5. ASSUME NEW f \in Files, NEW h, Record(f, DoneStatus, h), disk' = disk,
             f \in Links \/ (h \in Contents /\ fs'[Dst[f]] = h)
      PROVE  LedgerHolds(disk', fs') /\ LedgerHolds(led', fs')
  BY <1>0, <1>5, LedgerHoldsUpdate DEF Record
<1>6. ASSUME NEW f \in Files, Reuse(f)
      PROVE  LedgerHolds(disk', fs') /\ LedgerHolds(led', fs')
  BY <1>5, <1>6 DEF Reuse, SameBytes, DirsOK
<1>7. ASSUME NEW f \in Files, Verified(f)
      PROVE  LedgerHolds(disk', fs') /\ LedgerHolds(led', fs')
  BY <1>5, <1>7 DEF Verified, At, ReadsBack, CustodyInv, TransferInv
<1>8. ASSUME NEW f \in Files, LinkDone(f)
      PROVE  LedgerHolds(disk', fs') /\ LedgerHolds(led', fs')
  BY <1>3, <1>5, <1>8 DEF LinkDone, At, CustodyInv, TransferInv
<1>9. ASSUME NEW f \in Files, FileStep(f)
      PROVE  LedgerHolds(disk', fs') /\ LedgerHolds(led', fs')
  BY <1>1, <1>3, <1>4, <1>6, <1>7, <1>8, <1>9
     DEF FileStep, Refuse, MakeLink, StartCopy, FinishCopy, CopyFault, Mismatch, Raises
<1>10. ASSUME NEW r \in Runs, Ingest(r)
       PROVE  LedgerHolds(disk', fs') /\ LedgerHolds(led', fs')
  <2>1. PICK status : led' = [led EXCEPT !.ingest[r] = status]
    BY <1>10 DEF Ingest
  <2>2. disk' = disk /\ fs' = fs
    BY <1>10 DEF Ingest
  <2>3. LedgerHolds([led EXCEPT !.ingest[r] = status], fs')
    BY <1>0 DEF LedgerHolds, Ledgers
  <2> QED
    BY <1>0, <2>1, <2>2, <2>3
<1>11. ASSUME \/ Begin \/ Bookkeeping \/ Finish \/ Crash \/ UNCHANGED vars
              \/ \E p \in Paths : MoveAside(p)
              \/ \E f \in Files, c \in Contents \cup {Absent} : Edit(f, c)
       PROVE  LedgerHolds(disk', fs') /\ LedgerHolds(led', fs')
  BY <1>1, <1>11 DEF Begin, Bookkeeping, SkipEntry, Checkpoint, EndTransfer, SkipIngest,
     JournalIngest, EndIngest, Finish, Forget, Crash, vars, MoveAside, Edit
<1> QED
  BY <1>2, <1>9, <1>10, <1>11 DEF Next, Step, Bookkeeping

LEMMA CustodyInit == Init => CustodyInv
BY AdoptionAssumption DEF Init, CustodyInv, SourceInv, NothingLost, TransferInv,
   LedgerHolds, NoLedger, NoEntry, Settled

LEMMA CustodyStep ==
    ASSUME Quiet, TypeInv, CustodyInv, [Next]_vars
    PROVE  CustodyInv'
BY BytesStep, TransferStep, LedgerStep DEF CustodyInv

LEMMA CustodyAlways == ASSUME Quiet PROVE Spec => [](TypeInv /\ CustodyInv)
<1>1. Init => TypeInv /\ CustodyInv
  BY InitType, CustodyInit
<1>2. TypeInv /\ CustodyInv /\ [Next]_vars => TypeInv' /\ CustodyInv'
  BY TypeStep, CustodyStep
<1> QED
  BY <1>1, <1>2, PTL DEF Spec

\* No crash, failed write, bad read-back, edited plan, change of mode or re-run
\* loses a file's bytes, whatever the plan -- provided that no planned file is
\* named like another's .partial and that the source is quiet during a call.
THEOREM NothingLostAlways == ASSUME Quiet PROVE Spec => []NothingLost
BY CustodyAlways, PTL DEF CustodyInv

\* The journal on disk never vouches for bytes that are not there.
THEOREM LedgerTruthAlways == ASSUME Quiet PROVE Spec => []LedgerTruth
<1>1. CustodyInv => LedgerTruth
  BY DEF CustodyInv, LedgerHolds, LedgerTruth
<1> QED
  BY <1>1, CustodyAlways, PTL

\* A running call never changes bytes at a destination.
THEOREM NeverOverwritesAlways == ASSUME Quiet PROVE Spec => NeverOverwrites
<1>1. TypeInv /\ CustodyInv /\ [Next]_vars => [pc # "idle" => DestinationsKept]_vars
  BY StepKept
<1> QED
  BY <1>1, CustodyAlways, PTL DEF Spec, NeverOverwrites

\* A call unlinks a source file in move mode only, with its copy in place.
THEOREM UnlinkOnlyCopiedAlways == ASSUME Quiet PROVE Spec => UnlinkOnlyCopied
<1> DEFINE A == \A f \in unlinked' \ unlinked :
                   mode = "move" /\ src[f] # Absent /\ fs'[Dst[f]] = src[f]
<1>1. TypeInv /\ CustodyInv /\ [Next]_vars => [A]_vars
  <2> SUFFICES ASSUME Quiet, TypeInv, CustodyInv, [Next]_vars PROVE A
    OBVIOUS
  <2>1. CASE unlinked' = unlinked
    BY <2>1
  <2>2. CASE \E f \in Files : FileStep(f)
    BY <2>2, ReleaseSafe
  <2> QED
    BY <2>1, <2>2 DEF Next, Step, Begin, OpenLedger, SkipEntry, Checkpoint, EndTransfer,
       SkipIngest, Ingest, JournalIngest, EndIngest, Finish, Crash, Edit, MoveAside,
       vars, source
<1> QED
  BY <1>1, CustodyAlways, PTL DEF Spec, UnlinkOnlyCopied

-----------------------------------------------------------------------------
(* What an adoption that reported ok has done *)

\* Symlinks carry no hash: of them the ledger says that they are there.
LinksHold(L, d) ==
    \A f \in Links : L.file[f] \in Settled => d[Dst[f]] \in Contents

\* A link that was just made is there, so are those of both ledgers; and "ok" is
\* the report of a call that left no entry of its plan open.
OkInv ==
    /\ pc = "linked" => fs[Dst[Order[i]]] \in Contents
    /\ LinksHold(disk, fs) /\ LinksHold(led, fs)
    /\ outcome = "ok" =>
          pc = "idle" /\ \A f \in Files : disk.file[f] \notin {"pending", "failed"}

LEMMA OkInit == Init => OkInv
BY AdoptionAssumption DEF Init, OkInv, LinksHold, NoLedger, NoEntry, Settled

LEMMA LinksHoldKept ==
    ASSUME NEW L, LinksHold(L, fs), BytesKept
    PROVE  LinksHold(L, fs')
BY AdoptionAssumption DEF LinksHold, BytesKept

LEMMA LinksHoldUpdate ==
    ASSUME NEW L \in Ledgers, NEW d, LinksHold(L, d), NEW f \in Files
    PROVE  /\ \A s : s \notin Settled => LinksHold([L EXCEPT !.file[f] = s], d)
           /\ \A s, h : f \notin Links \/ d[Dst[f]] \in Contents =>
                 LinksHold([L EXCEPT !.file[f] = s, !.sha[f] = h], d)
BY AdoptionAssumption DEF Ledgers, LinksHold

LEMMA LinksFileStep ==
    ASSUME Quiet, TypeInv, CustodyInv, OkInv, NEW f \in Files, FileStep(f)
    PROVE  LinksHold(disk', fs') /\ LinksHold(led', fs')
<1>0. LinksHold(disk, fs') /\ LinksHold(led, fs')
  BY FileStepKept, KeptIsBytesKept, LinksHoldKept DEF OkInv
<1> USE DEF TypeInv, LedgersOK
<1>1. CASE Fail(f)
  BY <1>0, <1>1, LinksHoldUpdate DEF Fail, Settled
<1>2. CASE Vanished(f)
  BY <1>0, <1>2, LinksHoldUpdate DEF Vanished, Settled
<1>3. ASSUME NEW h, Record(f, DoneStatus, h), disk' = disk,
             f \notin Links \/ fs'[Dst[f]] \in Contents
      PROVE  LinksHold(disk', fs') /\ LinksHold(led', fs')
  BY <1>0, <1>3, LinksHoldUpdate DEF Record
<1>4. CASE Reuse(f)
  BY <1>3, <1>4 DEF Reuse
<1>5. CASE Verified(f)
  BY <1>3, <1>5 DEF Verified, At, CustodyInv, TransferInv
<1>6. CASE LinkDone(f)
  BY <1>1, <1>3, <1>6 DEF LinkDone, At, OkInv
<1>7. CASE disk' = disk /\ led' = led
  BY <1>0, <1>7
<1> QED
  BY <1>1, <1>2, <1>4, <1>5, <1>6, <1>7
     DEF FileStep, Refuse, MakeLink, StartCopy, FinishCopy, CopyFault, Mismatch, Raises

LEMMA LinksStep ==
    ASSUME Quiet, TypeInv, CustodyInv, OkInv, [Next]_vars
    PROVE  LinksHold(disk', fs') /\ LinksHold(led', fs')
<1>0. LinksHold(disk, fs') /\ LinksHold(led, fs')
  BY NextKept, LinksHoldKept DEF OkInv
<1>1. LinksHold(NoLedger, fs')
  BY AdoptionAssumption DEF LinksHold, NoLedger, NoEntry, Settled
<1>2. CASE disk' \in {disk, led} /\ led' \in {led, NoLedger}
  BY <1>0, <1>2, <1>1
<1>3. CASE OpenLedger
  BY <1>0, <1>3, AdoptionAssumption DEF OpenLedger, Merged, LinksHold, Settled, NoEntry
<1>4. ASSUME NEW r \in Runs, Ingest(r)
      PROVE  LinksHold(disk', fs') /\ LinksHold(led', fs')
  <2>1. PICK status : led' = [led EXCEPT !.ingest[r] = status]
    BY <1>4 DEF Ingest
  <2>2. led'.file = led.file
    BY <2>1 DEF TypeInv, LedgersOK, Ledgers
  <2> QED
    BY <1>0, <1>4, <2>2 DEF LinksHold, Ingest
<1>5. ASSUME \/ Begin \/ Bookkeeping \/ Finish \/ Crash \/ UNCHANGED vars
             \/ \E p \in Paths : MoveAside(p)
             \/ \E f \in Files, c \in Contents \cup {Absent} : Edit(f, c)
      PROVE  LinksHold(disk', fs') /\ LinksHold(led', fs')
  BY <1>2, <1>5 DEF Begin, Bookkeeping, SkipEntry, Checkpoint, EndTransfer, SkipIngest,
     JournalIngest, EndIngest, Finish, Forget, Crash, vars, MoveAside, Edit
<1> QED
  BY <1>3, <1>4, <1>5, LinksFileStep DEF Next, Step, Bookkeeping

\* The link of a step that ends at "linked" holds bytes.
LEMMA LinkedStep ==
    ASSUME Quiet, TypeInv, CustodyInv, OkInv, [Next]_vars, pc' = "linked"
    PROVE  (fs[Dst[Order[i]]])' \in Contents
<1> USE AdoptionAssumption
<1>1. ASSUME NEW f \in Files, MakeLink(f) PROVE (fs[Dst[Order[i]]])' \in Contents
  BY <1>1 DEF MakeLink, Open, TypeInv, DirsOK
<1>2. CASE pc = "linked" /\ i' = i /\ fs' = fs
  BY <1>2 DEF OkInv
<1> QED
  BY <1>1, <1>2 DEF Next, Step, FileStep, Begin, OpenLedger, SkipEntry, Checkpoint,
     EndTransfer, Vanished, Reuse, Refuse, LinkDone, StartCopy, FinishCopy, CopyFault,
     Mismatch, Raises, Verified, Record, Fail, Open, SkipIngest, Ingest, JournalIngest, EndIngest,
     Finish, Forget, Crash, Edit, MoveAside, vars

\* _verify lets a call report ok only when nothing of its plan is left open.
LEMMA ReportStep ==
    ASSUME TypeInv, OkInv, [Next]_vars, outcome' = "ok"
    PROVE  pc' = "idle" /\ \A f \in Files : disk'.file[f] \notin {"pending", "failed"}
<1>1. CASE Finish
  BY <1>1 DEF Finish, Forget, Outstanding, Terminal, NoEntry
<1>2. CASE outcome = "ok" /\ pc' = pc /\ disk' = disk
  BY <1>2 DEF OkInv
<1> QED
  BY <1>1, <1>2 DEF OkInv, Next, Step, FileStep, Begin, OpenLedger, SkipEntry, Checkpoint,
     EndTransfer, Vanished, Reuse, Refuse, MakeLink, LinkDone, StartCopy, FinishCopy,
     CopyFault, Mismatch, Raises, Verified, Record, Fail, Open, At, IngestAt, SkipIngest, Ingest,
     JournalIngest, EndIngest, Crash, Edit, MoveAside, vars

\* An adoption that reported ok left no entry of its plan open or failed, and what
\* it settled is at its destination until another call begins, whatever the user
\* does to the source and the operator to the workspace in between.
THEOREM OkMeansSettledAlways == ASSUME Quiet PROVE Spec => []OkMeansSettled
<1>1. TypeInv /\ CustodyInv /\ OkInv /\ [Next]_vars => OkInv'
  BY LinksStep, LinkedStep, ReportStep DEF OkInv
<1>2. CustodyInv /\ OkInv => OkMeansSettled
  BY DEF CustodyInv, LedgerHolds, OkInv, LinksHold, OkMeansSettled
<1> QED
  BY <1>1, <1>2, OkInit, CustodyAlways, PTL DEF Spec

-----------------------------------------------------------------------------
(* The ingest, after the transfer and once *)

\* The files before position n are settled, given up, or not of the plan.
DoneBefore(L, n) ==
    \A k \in 1..Len(Order) : k < n => L.file[Order[k]] \in Terminal \cup {NoEntry}

\* A call that has opened its ledger has an entry for each file of its plan, has
\* done the files it has passed, and goes on to the ingest when it has passed them
\* all or has a problem to report; and what the ledger on disk says of a run that
\* is ingested, or given up, the one in memory says too.
Opened == {"loop", "linked", "copy", "check", "flush", "ingest", "journal", "verify"}
IngestInv ==
    pc \in Opened =>
        /\ \A f \in planned : led.file[f] # NoEntry
        /\ problems \/ DoneBefore(led, i)
        /\ pc \in {"ingest", "journal"} => problems \/ i > Len(Order)
        /\ \A r \in Runs : disk.ingest[r] \in {"verified", "skipped"} =>
               led.ingest[r] = disk.ingest[r]

LEMMA IngestInit == Init => IngestInv
BY DEF Init, IngestInv, Opened

\* A transfer that ends leaves the entries of the others, and of the runs, alone.
LEMMA EntryUpdate ==
    ASSUME NEW L \in Ledgers, NEW k \in 1..Len(Order), NEW s \in Statuses
    PROVE  /\ \A h : LET M == [L EXCEPT !.file[Order[k]] = s, !.sha[Order[k]] = h] IN
               /\ M.ingest = L.ingest
               /\ M.file \in [Files -> Statuses \cup {NoEntry}] /\ M.file[Order[k]] = s
               /\ \A f \in Files : f # Order[k] => M.file[f] = L.file[f]
           /\ LET M == [L EXCEPT !.file[Order[k]] = s] IN
               /\ M.ingest = L.ingest
               /\ M.file \in [Files -> Statuses \cup {NoEntry}] /\ M.file[Order[k]] = s
               /\ \A f \in Files : f # Order[k] => M.file[f] = L.file[f]
<1>1. Order[k] \in Files
  BY AdoptionAssumption
<1> QED
  BY <1>1 DEF Ledgers

LEMMA RecordIngest ==
    ASSUME TypeInv, IngestInv, i \in 1..Len(Order), pc \in Transferring,
           NEW h, Record(Order[i], DoneStatus, h), disk' = disk, planned' = planned,
           problems' = problems
    PROVE  IngestInv'
<1>1. /\ Order \in Seq(Files) /\ Len(Order) \in Nat /\ i \in Nat
      /\ \A k \in 1..Len(Order) : Order[k] \in Files
  BY AdoptionAssumption
<1>2. PICK s : s = DoneStatus /\ s \in {"verified", "moved"}
  BY DEF DoneStatus
<1>3. /\ led' = [led EXCEPT !.file[Order[i]] = s, !.sha[Order[i]] = h]
      /\ led \in Ledgers /\ s \in Statuses
  BY <1>2 DEF Record, TypeInv, LedgersOK, Statuses
<1>4. /\ led'.ingest = led.ingest /\ led'.file[Order[i]] = s
      /\ \A f \in Files : f # Order[i] => led'.file[f] = led.file[f]
  BY <1>3, EntryUpdate
<1>5. i' = i + 1 /\ pc' \in {"loop", "flush"}
  BY DEF Record
<1>6. /\ \A f \in planned : led.file[f] # NoEntry
      /\ problems \/ DoneBefore(led, i)
      /\ \A r \in Runs : disk.ingest[r] \in {"verified", "skipped"} =>
             led.ingest[r] = disk.ingest[r]
  BY DEF IngestInv, Transferring, Opened
<1>7. \A f \in planned : led'.file[f] # NoEntry
  BY <1>2, <1>4, <1>6 DEF NoEntry, TypeInv, CallOK
<1>8. DoneBefore(led, i) => DoneBefore(led', i')
  BY <1>1, <1>2, <1>4, <1>5 DEF DoneBefore, Terminal
<1> QED
  BY <1>4, <1>5, <1>6, <1>7, <1>8 DEF IngestInv

LEMMA FailIngest ==
    ASSUME TypeInv, IngestInv, i \in 1..Len(Order), pc \in Transferring,
           NEW s \in {"failed", "skipped"}, led' = [led EXCEPT !.file[Order[i]] = s],
           disk' = led', planned' = planned, problems'
    PROVE  IngestInv'
<1>1. \A k \in 1..Len(Order) : Order[k] \in Files
  BY AdoptionAssumption
<1>2. led \in Ledgers /\ s \in Statuses
  BY DEF TypeInv, LedgersOK, Statuses
<1>3. /\ led'.file[Order[i]] = s
      /\ \A f \in Files : f # Order[i] => led'.file[f] = led.file[f]
  BY <1>2, EntryUpdate
<1>4. \A f \in planned : led.file[f] # NoEntry
  BY DEF IngestInv, Transferring, Opened
<1>5. \A f \in planned : led'.file[f] # NoEntry
  BY <1>3, <1>4 DEF NoEntry, TypeInv, CallOK
<1> QED
  BY <1>5 DEF IngestInv

LEMMA FileStepIngest ==
    ASSUME TypeInv, IngestInv, NEW f \in Files, FileStep(f)
    PROVE  IngestInv'
<1>0. i \in 1..Len(Order) /\ f = Order[i] /\ pc \in Transferring
  BY DEF FileStep, Vanished, Reuse, Refuse, MakeLink, LinkDone, StartCopy, FinishCopy,
     CopyFault, Mismatch, Raises, Verified, Open, At, Transferring
<1>1. CASE Fail(f) /\ planned' = planned
  BY <1>0, <1>1, FailIngest DEF Fail
<1>2. CASE Vanished(f)
  BY <1>0, <1>2, FailIngest DEF Vanished, args
<1>3. CASE /\ \E h : Record(f, DoneStatus, h)
           /\ disk' = disk /\ planned' = planned /\ problems' = problems
  BY <1>0, <1>3, RecordIngest
<1>4. CASE /\ disk' = disk /\ led' = led /\ planned' = planned /\ problems' = problems
           /\ i' = i /\ pc' \in {"linked", "copy", "check"}
  BY <1>0, <1>4 DEF IngestInv, Opened, Transferring, DoneBefore
<1>5. Fail(f) => planned' = planned
  BY DEF Fail, args
<1> QED
  BY <1>1, <1>2, <1>3, <1>4, <1>5
     DEF FileStep, Reuse, Refuse, MakeLink, LinkDone, StartCopy, FinishCopy, CopyFault,
         Mismatch, Raises, Verified, args

LEMMA OpenLedgerIngest ==
    ASSUME TypeInv, OpenLedger PROVE IngestInv'
<1>1. led' = Merged /\ disk' = Merged /\ planned' = planned /\ i' = 1 /\ pc' = "loop"
  BY DEF OpenLedger, args
<1>2. planned \subseteq Files
  BY DEF TypeInv, CallOK
<1>3. \A f \in planned : Merged.file[f] # NoEntry
  BY <1>2 DEF Merged, NoEntry, Terminal
<1>4. DoneBefore(Merged, 1)
  BY DEF DoneBefore
<1> QED
  BY <1>1, <1>3, <1>4 DEF IngestInv

LEMMA IngestKeeps ==
    ASSUME TypeInv, IngestInv, NEW r \in Runs, Ingest(r)
    PROVE  IngestInv'
<1>1. PICK s : led' = [led EXCEPT !.ingest[r] = s]
  BY DEF Ingest
<1>2. /\ led'.file = led.file
      /\ \A q \in Runs : q # r => led'.ingest[q] = led.ingest[q]
  BY <1>1 DEF TypeInv, LedgersOK, Ledgers
<1>3. led.ingest[r] = "pending" /\ pc = "ingest"
  BY DEF Ingest, IngestAt
<1>4. disk' = disk /\ planned' = planned /\ problems' = problems /\ i' = i /\ pc' = "journal"
  BY DEF Ingest, args
<1>5. disk.ingest[r] \notin {"verified", "skipped"}
  BY <1>3 DEF IngestInv, Opened
<1> QED
  BY <1>2, <1>3, <1>4, <1>5 DEF IngestInv, Opened, DoneBefore

LEMMA BookkeepingIngest ==
    ASSUME TypeInv, IngestInv, Bookkeeping
    PROVE  IngestInv'
<1> USE DEF args
<1>1. CASE SkipEntry
  <2>1. Len(Order) \in Nat /\ i \in Nat
    BY <1>1, AdoptionAssumption DEF SkipEntry
  <2>2. DoneBefore(led, i) => DoneBefore(led, i + 1)
    BY <1>1, <2>1 DEF SkipEntry, DoneBefore
  <2> QED
    BY <1>1, <2>2 DEF SkipEntry, IngestInv, Opened, DoneBefore
<1>2. CASE EndTransfer
  BY <1>2 DEF EndTransfer, AllVisited, IngestInv, Opened, DoneBefore
<1>3. CASE Checkpoint \/ SkipIngest \/ JournalIngest \/ EndIngest
  BY <1>3 DEF Checkpoint, SkipIngest, JournalIngest, EndIngest, IngestInv, Opened, DoneBefore
<1> QED
  BY <1>1, <1>2, <1>3 DEF Bookkeeping

LEMMA IngestStep ==
    TypeInv /\ IngestInv /\ [Next]_vars => IngestInv'
<1> SUFFICES ASSUME TypeInv, IngestInv, [Next]_vars PROVE IngestInv'
  OBVIOUS
<1>1. CASE Begin \/ Finish \/ Crash
  BY <1>1 DEF Begin, Finish, Crash, Forget, IngestInv, Opened
<1>2. ASSUME NEW f \in Files, NEW c \in Contents \cup {Absent}, Edit(f, c) PROVE IngestInv'
  BY <1>2 DEF Edit, args, IngestInv, Opened, DoneBefore
<1>3. ASSUME NEW p \in Paths, MoveAside(p) PROVE IngestInv'
  BY <1>3 DEF MoveAside, args, IngestInv, Opened, DoneBefore
<1>4. CASE UNCHANGED vars
  BY <1>4 DEF vars, IngestInv, Opened, DoneBefore
<1> QED
  BY <1>1, <1>2, <1>3, <1>4, OpenLedgerIngest, FileStepIngest, IngestKeeps, BookkeepingIngest
     DEF Next, Step, Bookkeeping

LEMMA IngestAlways == Spec => [](TypeInv /\ IngestInv)
BY IngestInit, IngestStep, TypeAlways, PTL DEF Spec

\* While no file failed in a call, its ingest sees every file of its plan
\* transferred or given up (run_adoption).
THEOREM IngestAfterTransferAlways == Spec => IngestAfterTransfer
<1>1. ASSUME TypeInv, IngestInv, Next, pc = "ingest", pc' = "journal", ~problems
      PROVE  \A f \in planned : led.file[f] \in {"verified", "moved", "skipped"}
  <2>1. DoneBefore(led, i) /\ i > Len(Order) /\ \A f \in planned : led.file[f] # NoEntry
    BY <1>1 DEF IngestInv, Opened
  <2>2. /\ planned \subseteq Files /\ Len(Order) \in Nat /\ i \in Nat
        /\ \A f \in Files : \E k \in 1..Len(Order) : Order[k] = f
    BY <1>1, AdoptionAssumption, OrderAssumption DEF TypeInv, CallOK, CountsOK
  <2>3. \A f \in Files : led.file[f] \in Terminal \cup {NoEntry}
    BY <2>1, <2>2 DEF DoneBefore
  <2> QED
    BY <2>1, <2>2, <2>3 DEF Terminal
<1>2. TypeInv /\ IngestInv /\ [Next]_vars =>
          [pc = "ingest" /\ pc' = "journal" /\ ~problems =>
              \A f \in planned : led.file[f] \in {"verified", "moved", "skipped"}]_vars
  BY <1>1
<1> QED
  BY <1>2, IngestAlways, PTL DEF Spec, IngestAfterTransfer

\* What a step leaves of a run that the ledger on disk says is ingested: its entry,
\* or none where another plan or a call without ingest takes over, and its curves.
LEMMA CurvesKept ==
    ASSUME TypeInv, IngestInv, Next, NEW r \in Runs,
           disk.ingest[r] \in {"verified", "skipped"}
    PROVE  /\ disk'.ingest[r] \in {disk.ingest[r], NoEntry}
           /\ \A f \in Files : RunOf[f] = r => metrics'[f] = metrics[f]
<1> USE DEF args, bounds, source
<1>1. CASE OpenLedger
  <2>1. disk' = Merged /\ metrics' = metrics
    BY <1>1 DEF OpenLedger
  <2>2. Merged.ingest[r] \in {disk.ingest[r], NoEntry}
    BY DEF Merged, Terminal
  <2> QED
    BY <2>1, <2>2
<1>2. ASSUME NEW q \in Runs, Ingest(q)
      PROVE  disk' = disk /\ \A f \in Files : RunOf[f] = r => metrics'[f] = metrics[f]
  <2>1. q # r
    BY <1>2 DEF Ingest, IngestAt, IngestInv, Opened
  <2>2. PICK S \in SUBSET Readable(q) :
            metrics' = [f \in Files |-> IF f \in S /\ metrics[f] < 2
                                        THEN metrics[f] + 1 ELSE metrics[f]]
    BY <1>2 DEF Ingest
  <2>3. \A f \in Files : RunOf[f] = r => f \notin S
    BY <2>1 DEF Readable
  <2> QED
    BY <1>2, <2>2, <2>3 DEF Ingest
<1>3. CASE /\ \E k \in 1..Len(Order), s \in {"failed", "skipped"} :
                  led' = [led EXCEPT !.file[Order[k]] = s]
           /\ pc \in Opened /\ disk' = led' /\ metrics' = metrics
  <2>1. led'.ingest = led.ingest
    BY <1>3, EntryUpdate DEF TypeInv, LedgersOK, Statuses
  <2> QED
    BY <1>3, <2>1 DEF IngestInv
<1>4. CASE pc \in Opened /\ disk' \in {disk, led} /\ metrics' = metrics
  BY <1>4 DEF IngestInv
<1>5. CASE disk' = disk /\ metrics' = metrics
  BY <1>5
<1>6. ASSUME NEW f \in Files, FileStep(f)
      PROVE  \/ disk' = disk /\ metrics' = metrics
             \/ /\ \E k \in 1..Len(Order), s \in {"failed", "skipped"} :
                      led' = [led EXCEPT !.file[Order[k]] = s]
                /\ pc \in Opened /\ disk' = led' /\ metrics' = metrics
  <2>1. i \in 1..Len(Order) /\ f = Order[i] /\ pc \in Opened
    BY <1>6 DEF FileStep, Vanished, Reuse, Refuse, MakeLink, LinkDone, StartCopy, FinishCopy,
       CopyFault, Mismatch, Raises, Verified, Open, At, Opened
  <2>2. CASE Fail(f)
    BY <2>1, <2>2 DEF Fail
  <2>3. CASE Vanished(f)
    BY <2>1, <2>3 DEF Vanished
  <2> QED
    BY <1>6, <2>2, <2>3 DEF FileStep, Reuse, Refuse, MakeLink, LinkDone, StartCopy, FinishCopy,
       CopyFault, Mismatch, Raises, Verified
<1> QED
  BY <1>1, <1>2, <1>3, <1>4, <1>5, <1>6
     DEF Next, Step, Begin, SkipEntry, Checkpoint, EndTransfer, SkipIngest, JournalIngest,
         EndIngest, Finish, Crash, Edit, MoveAside, Opened

\* A run that the ledger on disk says is ingested, or given up, is not ingested
\* again by a later call with the same plan, wherever one crashed, and its curves
\* stay as they are (_entries, resume_or_create, _ingest_all).
THEOREM JournaledIngestKeptAlways == Spec => JournaledIngestKept
<1>1. TypeInv /\ IngestInv /\ [Next]_vars =>
          [\A r \in Runs : disk.ingest[r] \in {"verified", "skipped"} =>
              /\ disk'.ingest[r] \in {disk.ingest[r], NoEntry}
              /\ \A f \in Files : RunOf[f] = r => metrics'[f] = metrics[f]]_vars
  BY CurvesKept
<1> QED
  BY <1>1, IngestAlways, PTL DEF Spec, JournaledIngestKept

-----------------------------------------------------------------------------
(* Custody.tla is implemented *)

\* A released file holds, at its destination, what the user last left.
ReleasedInv ==
    \A f \in unlinked : src[f] = Absent /\ original[f] \in Contents

AbstractInv == TypeInv /\ CustodyInv /\ ReleasedInv

LEMMA AbstractInit == Init => AbstractInv /\ AbstractCustody!Init
<1> SUFFICES ASSUME Init PROVE AbstractInv /\ AbstractCustody!Init
  OBVIOUS
<1>1. AbstractInv
  BY InitType, CustodyInit DEF Init, AbstractInv, ReleasedInv
<1>2. place = [f \in Files |-> "source"]
  BY AdoptionAssumption DEF Init, place
<1> QED
  BY <1>1, <1>2 DEF Init, AbstractCustody!Init

\* Where the source is left alone, bytes kept means that files stay in place,
\* except that a copy may land.
LEMMA CopyPlaces ==
    ASSUME AbstractInv, BytesKept, UNCHANGED source
    PROVE  \E S \in SUBSET {f \in Files : place[f] = "source"} :
              place' = [f \in Files |-> IF f \in S THEN "both" ELSE place[f]]
<1> DEFINE S == {f \in Files : place[f] = "source" /\ place'[f] = "both"}
<1>1. src' = src /\ original' = original /\ unlinked' = unlinked
  BY DEF source
<1>2. ASSUME NEW f \in Files
      PROVE  place'[f] = IF f \in S THEN "both" ELSE place[f]
  <2>1. CASE f \in unlinked
    BY <1>1, <2>1, AdoptionAssumption
       DEF place, BytesKept, AbstractInv, ReleasedInv, CustodyInv, NothingLost
  <2>2. CASE f \notin unlinked /\ src[f] = Absent
    BY <1>1, <2>2 DEF place
  <2>3. CASE f \notin unlinked /\ src[f] # Absent
    BY <1>1, <2>3 DEF place, BytesKept, AbstractInv, TypeInv, DirsOK
  <2> QED
    BY <2>1, <2>2, <2>3
<1>3. place' = [f \in Files |-> place'[f]]
  BY DEF place
<1> QED
  BY <1>2, <1>3

LEMMA SourceKeptStep ==
    ASSUME Quiet, AbstractInv, [Next]_vars, UNCHANGED source
    PROVE  AbstractCustody!Next
<1>0. BytesKept
  BY NextKept DEF AbstractInv
<1>1. CASE fs' = fs
  <2>1. place' = place
    BY <1>1 DEF place, source
  <2> QED
    BY <2>1 DEF AbstractCustody!Next, AbstractCustody!Switch
<1>2. CASE UNCHANGED (pc # "idle" /\ mode = "move")
  BY <1>0, <1>2, CopyPlaces DEF AbstractCustody!Next, AbstractCustody!Copy
<1>3. ASSUME NEW f \in Files, FileStep(f)
      PROVE  UNCHANGED (pc # "idle" /\ mode = "move")
  BY <1>3 DEF FileStep, Vanished, Reuse, Refuse, MakeLink, LinkDone, StartCopy,
     FinishCopy, CopyFault, Mismatch, Raises, Verified, Fail, Record, Open, At, args
<1>4. CASE \E p \in Paths : MoveAside(p)
  BY <1>2, <1>4 DEF MoveAside, args
<1> QED
  BY <1>1, <1>2, <1>3, <1>4 DEF Next, Step, Begin, OpenLedger, SkipEntry, Checkpoint,
     EndTransfer, SkipIngest, Ingest, JournalIngest, EndIngest, Finish, Crash, Edit, vars

LEMMA ReleaseStep ==
    ASSUME AbstractInv, NEW f \in Files, pc # "idle", pc' # "idle", mode' = mode,
           mode = "move", src[f] # Absent, fs[Dst[f]] = src[f], fs' = fs,
           src' = [src EXCEPT ![f] = Absent], unlinked' = unlinked \cup {f},
           original' = original
    PROVE  ReleasedInv' /\ AbstractCustody!Release(f)
<1>1. f \notin unlinked /\ src[f] = original[f] /\ src[f] \in Contents
  BY DEF AbstractInv, ReleasedInv, CustodyInv, SourceInv, TypeInv, DirsOK
<1>2. ReleasedInv'
  BY <1>1 DEF AbstractInv, ReleasedInv, TypeInv, DirsOK
<1>3. place[f] = "both"
  BY <1>1 DEF place
<1>4. ASSUME NEW g \in Files PROVE place'[g] = IF g = f THEN "target" ELSE place[g]
  BY <1>1 DEF place, AbstractInv, TypeInv, DirsOK
<1>5. place' = [place EXCEPT ![f] = "target"]
  BY <1>4 DEF place
<1> QED
  BY <1>2, <1>3, <1>5 DEF AbstractCustody!Release

LEMMA EditStep ==
    ASSUME AbstractInv, NEW f \in Files, NEW c \in Contents \cup {Absent}, Edit(f, c)
    PROVE  ReleasedInv' /\ AbstractCustody!Edit(f)
<1>1. f \notin unlinked /\ src[f] # Absent
  BY DEF Edit, AbstractInv, ReleasedInv
<1>2. ReleasedInv'
  BY <1>1 DEF Edit, AbstractInv, ReleasedInv, TypeInv, DirsOK
<1>3. place[f] \in {"source", "both"}
  BY <1>1 DEF place
<1>4. ASSUME NEW g \in Files, g # f PROVE place'[g] = place[g]
  BY <1>4 DEF Edit, place, AbstractInv, TypeInv, DirsOK
<1>5. place'[f] \in {"source", "both", "gone"}
  BY <1>1 DEF Edit, place
<1>6. place' = [place EXCEPT ![f] = place'[f]]
  <2>1. place' = [g \in Files |-> place'[g]] /\ place = [g \in Files |-> place[g]]
    BY DEF place
  <2> HIDE DEF place
  <2> QED
    BY <1>4, <2>1
<1>7. UNCHANGED (pc # "idle" /\ mode = "move")
  BY DEF Edit, args
<1> QED
  BY <1>2, <1>3, <1>5, <1>6, <1>7 DEF AbstractCustody!Edit

LEMMA AbstractStep ==
    ASSUME Quiet, AbstractInv, [Next]_vars
    PROVE  AbstractInv' /\ AbstractCustody!Next
<1>0. TypeInv' /\ CustodyInv'
  BY TypeStep, CustodyStep DEF AbstractInv
<1>1. CASE UNCHANGED source
  BY <1>0, <1>1, SourceKeptStep DEF AbstractInv, ReleasedInv, source
<1>2. ASSUME NEW f \in Files, FileStep(f), ~UNCHANGED source
      PROVE  AbstractInv' /\ AbstractCustody!Next
  <2>1. /\ mode = "move" /\ src[f] # Absent /\ fs[Dst[f]] = src[f]
        /\ src' = [src EXCEPT ![f] = Absent] /\ unlinked' = unlinked \cup {f}
        /\ fs' = fs /\ original' = original
    BY <1>2, ReleaseSafe DEF AbstractInv, source
  <2>2. pc # "idle" /\ pc' # "idle" /\ mode' = mode
    BY <1>2 DEF FileStep, Vanished, Reuse, Refuse, MakeLink, LinkDone, StartCopy,
       FinishCopy, CopyFault, Mismatch, Raises, Verified, Fail, Record, Open, At, args
  <2> QED
    BY <1>0, <2>1, <2>2, ReleaseStep DEF AbstractInv, AbstractCustody!Next
<1>3. ASSUME NEW f \in Files, NEW c \in Contents \cup {Absent}, Edit(f, c)
      PROVE  AbstractInv' /\ AbstractCustody!Next
  BY <1>0, <1>3, EditStep DEF AbstractInv, AbstractCustody!Next
<1> QED
  BY <1>1, <1>2, <1>3 DEF Next, Step, Begin, OpenLedger, SkipEntry, Checkpoint,
     EndTransfer, SkipIngest, Ingest, JournalIngest, EndIngest, Finish, Crash,
     MoveAside, vars, source

\* An adoption is a custodian: every step of it, its crashes and the people
\* around it maps to a step Custody allows.
THEOREM CustodyImplemented == ASSUME Quiet PROVE Spec => ImplementsCustody
<1>1. Init => AbstractInv /\ AbstractCustody!Init
  BY AbstractInit
<1>2. AbstractInv /\ [Next]_vars => AbstractInv' /\ [AbstractCustody!Next]_(AbstractCustody!vars)
  BY AbstractStep
<1> QED
  BY <1>1, <1>2, PTL DEF Spec, ImplementsCustody, AbstractCustody!Spec

=============================================================================
