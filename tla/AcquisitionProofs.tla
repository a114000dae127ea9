------------------------- MODULE AcquisitionProofs --------------------------
(***************************************************************************)
(* Proofs about Acquisition for any files, names, contents and faults: what*)
(* is on record as downloaded stands in the archive, once, and a range that*)
(* counts as covered has nothing left to fetch.                            *)
(***************************************************************************)
EXTENDS Acquisition, FiniteSetTheorems, SequenceTheorems, TLAPS

(***************************************************************************)
(* The inductive invariant.  The plan holds no namesakes and a run that has*)
(* not begun holds nothing; what it has claimed is held, what it has       *)
(* downloaded is claimed, and an entry is completed after its artifact is  *)
(* on record; a name a run has downloaded is staged with the *)
(* bytes of the planned file; the archive has the bytes of the first file  *)
(* of each name; what the finalizer reports is archived, and listed once   *)
(* the manifests are saved; candidates a scan put on no record are already *)
(* in the archive, and a covered range owes nothing.                       *)
(***************************************************************************)
Planned == {plan[i] : i \in DOMAIN plan}

RunFits ==
  /\ \A d \in Planned : ~Shadowed(d)
  /\ phase = "idle" => fresh = {} /\ satisfied = {} /\ claims = {}
  /\ phase \in {"idle", "download"} => entries = {}
  /\ \A d \in claims : file[d] = "held"
  /\ phase \in {"download", "archive"} => \A d \in Planned : Name[d] \in fresh => d \in claims
  /\ \A d \in entries : file[d] = "succeeded" => artifact[d]

StagedFits == \A d \in Planned :
  Name[d] \in fresh /\ staged[Name[d]] # Nothing => staged[Name[d]] = Bytes[d]

ArchiveFits == \A d \in Documents :
  ~Shadowed(d) /\ Archived(Name[d]) => archive[Name[d]] = Bytes[d]

FoundFits == removed = {} =>
  /\ \A d \in entries : archive[Name[d]] = Bytes[d]
  /\ phase # "archive" => \A d \in entries : Name[d] \in listed
  /\ \A d \in satisfied : Bytes[d] \in Stored

ScanFits ==
  /\ phase # "idle" /\ removed = {} =>
       \A d \in Documents : file[d] = "none" => Shadowed(d) \/ Archived(Name[d])
  /\ window = "succeeded" =>
       phase = "idle" /\ \A d \in Documents : file[d] \in {"none", "succeeded", "protected"}

DiskFits == StagedFits /\ ArchiveFits /\ FoundFits

IInv ==
  /\ TypeOK /\ RunFits /\ DiskFits /\ ScanFits
  /\ SettledIsArchived /\ ArchivedOnce /\ CoveredIsArchived

-----------------------------------------------------------------------------
\* A plan is a sequence of documents, and the position is one of its own.
LEMMA PlanOfScan ==
  ASSUME NEW S \in SUBSET Documents, NEW list \in InOrder(S)
  PROVE  list \in Seq(Documents) /\ \A i \in DOMAIN list : list[i] \in S
<1>1. Cardinality(S) \in Nat
  BY FS_Subset, FS_CardinalityType, AcquisitionAssumption
<1>2. list \in [1 .. Cardinality(S) -> S]
  BY DEF InOrder
<1>3. list \in Seq(S)
  BY <1>1, <1>2
<1> QED BY <1>2, <1>3

\* What a run keeps when it leaves.
LEMMA LeaveTypes ==
  ASSUME Leave
  PROVE  /\ phase' = "idle" /\ plan' \in Seq(Documents) /\ at' \in 1 .. Len(plan') + 1
         /\ claims' = {} /\ fresh' = {} /\ entries' = {} /\ satisfied' = {}
BY DEF Leave

-----------------------------------------------------------------------------
(* Every step keeps the types.                                             *)

\* A fault is counted within the bound.
LEMMA FaultTypes ==
  ASSUME TypeOK, Fault
  PROVE  faults' \in 0 .. MaxFaults
BY AcquisitionAssumption DEF TypeOK, Fault

\* The scan, and the steps between the phases.
LEMMA RunTypes ==
  ASSUME TypeOK, UNCHANGED unusable, Scan \/ Downloaded \/ SaveBatchManifest \/ SaveRunManifest \/ Reconciled \/ Close
  PROVE  TypeOK'
<1>1. CASE Scan
  <2>1. plan' \in Seq(Documents)
    BY <1>1, PlanOfScan DEF Scan, Candidates
  <2>2. phase' \in Phases /\ at' = 1 /\ at' \in 1 .. Len(plan') + 1
    BY <1>1, <2>1 DEF Scan, Phases
  <2>3. file' \in [Documents -> Files]
    BY <1>1 DEF Scan, TypeOK, Files
  <2> QED BY <1>1, <2>1, <2>2, <2>3 DEF Scan, TypeOK, Windows, Listed, disk, found
<1>2. CASE Downloaded \/ SaveRunManifest \/ Reconciled
  <2>1. phase' \in Phases /\ UNCHANGED plan /\ at' = 1
    BY <1>2 DEF Downloaded, SaveRunManifest, Reconciled, Goto, Phases
  <2> QED BY <1>2, <2>1 DEF Downloaded, SaveRunManifest, Reconciled, TypeOK, rows, disk, found
<1>3. CASE SaveBatchManifest
  <2>1. phase' \in Phases /\ UNCHANGED plan /\ at' = 1
    BY <1>3 DEF SaveBatchManifest, Goto, Phases
  <2>2. listed' \subseteq Names
    BY <1>3 DEF SaveBatchManifest, TypeOK, Names
  <2> QED BY <1>3, <2>1, <2>2 DEF SaveBatchManifest, TypeOK, rows, found
<1>4. CASE Close
  <2>1. window' \in Windows
    BY <1>4 DEF Close, Windows, Listed
  <2> QED BY <1>4, <2>1, LeaveTypes DEF Close, TypeOK, Phases, disk
<1> QED BY <1>1, <1>2, <1>3, <1>4

\* One turn of the browser loop.
LEMMA DownloadTypes ==
  ASSUME TypeOK, UNCHANGED unusable, NEW d \in Documents,
         NotDue(d) \/ Collide(d) \/ Download(d) \/ Refuse(d) \/ Raise(d) \/ RaiseUnusable(d)
  PROVE  TypeOK'
<1>0. plan \in Seq(Documents) /\ at \in 1 .. Len(plan) + 1 /\ Len(plan) \in Nat
  BY DEF TypeOK
<1>1. Name[d] \in Names /\ Bytes[d] \in Contents
  BY DEF Names, Contents
<1>2. CASE NotDue(d)
  <2>1. UNCHANGED <<phase, plan>> /\ at' \in 1 .. Len(plan) + 1
    BY <1>0, <1>2 DEF NotDue, Here
  <2>2. satisfied' \subseteq Documents
    BY <1>2 DEF NotDue, TypeOK
  <2> QED BY <1>2, <2>1, <2>2 DEF NotDue, TypeOK, rows, disk
<1>3. CASE Collide(d)
  <2>1. UNCHANGED <<phase, plan>> /\ at' \in 1 .. Len(plan) + 1
    BY <1>0, <1>3 DEF Collide, Tries, Here, Advance
  <2>2. file' \in [Documents -> Files] /\ reauth' \subseteq Documents
    BY <1>3 DEF Collide, Outcome, TypeOK, Files
  <2> QED BY <1>3, <2>1, <2>2 DEF Collide, TypeOK, disk, found
<1>4. CASE Download(d)
  <2>1. UNCHANGED <<phase, plan>> /\ at' \in 1 .. Len(plan) + 1
    BY <1>0, <1>4 DEF Download, Tries, Here, Advance
  <2>2. file' \in [Documents -> Files]
    BY <1>4 DEF Download, TypeOK, Files
  <2>3. staged' \in [Names -> Contents \union {Nothing}]
    BY <1>1, <1>4 DEF Download, TypeOK
  <2>4. claims' \subseteq Documents /\ fresh' \subseteq Names
    BY <1>1, <1>4 DEF Download, TypeOK
  <2> QED BY <1>4, <2>1, <2>2, <2>3, <2>4 DEF Download, TypeOK, found
<1>5. CASE Refuse(d)
  <2>1. UNCHANGED <<phase, plan>> /\ at' \in 1 .. Len(plan) + 1
    BY <1>0, <1>5 DEF Refuse, Tries, Here
  <2>2. file' \in [Documents -> Files] /\ reauth' \subseteq Documents
    BY <1>5 DEF Refuse, Outcome, TypeOK, Files
  <2> QED BY <1>5, <2>1, <2>2, FaultTypes DEF Refuse, TypeOK, disk, found
<1>6. CASE Raise(d) \/ RaiseUnusable(d)
  <2>1. Abandon(d) /\ faults' \in 0 .. MaxFaults
    BY <1>6, FaultTypes DEF Raise, RaiseUnusable, TypeOK
  <2>2. file' \in [Documents -> Files]
    BY <2>1 DEF Abandon, TypeOK, Files
  <2>3. cutOff' \subseteq Documents
    BY <2>1 DEF Abandon, Forgotten, TypeOK
  <2> QED BY <2>1, <2>2, <2>3, LeaveTypes DEF Abandon, TypeOK, Phases, disk
<1> QED BY <1>2, <1>3, <1>4, <1>5, <1>6

\* One turn of the finalizer.
LEMMA FinalizerTypes ==
  ASSUME TypeOK, UNCHANGED unusable, NEW d \in Documents,
         CreditDuplicate(d) \/ MoveToArchive(d) \/ PassOver(d)
  PROVE  TypeOK'
<1>0. plan \in Seq(Documents) /\ at \in 1 .. Len(plan) + 1 /\ Len(plan) \in Nat
  BY DEF TypeOK
<1>1. CASE CreditDuplicate(d) \/ MoveToArchive(d) \/ PassOver(d)
  <2>1. UNCHANGED <<phase, plan>> /\ at' \in 1 .. Len(plan) + 1
    BY <1>0, <1>1 DEF CreditDuplicate, MoveToArchive, PassOver, Here, Advance
  <2>2. /\ satisfied' \subseteq Documents /\ entries' \subseteq Documents
        /\ staged' \in [Names -> Contents \union {Nothing}]
        /\ archive' \in [Names -> Contents \union {Nothing}]
    <3>1. Name[d] \in Names
      BY DEF Names
    <3> QED BY <1>1, <3>1 DEF CreditDuplicate, MoveToArchive, PassOver, TypeOK, disk, found
  <2> QED BY <1>1, <2>1, <2>2 DEF CreditDuplicate, MoveToArchive, PassOver, TypeOK, rows, disk, found
<1> QED BY <1>1

\* One turn of the reconciliation.
LEMMA SettleTypes ==
  ASSUME TypeOK, UNCHANGED unusable, NEW d \in Documents,
         \/ RecordArtifact(d) \/ CompleteDownload(d) \/ EnsureExtract(d)
         \/ CompleteCredited(d) \/ ArtifactMissing(d) \/ NotReconciled(d) \/ NotClaimed(d)
  PROVE  TypeOK'
<1>0. plan \in Seq(Documents) /\ at \in 1 .. Len(plan) + 1 /\ Len(plan) \in Nat
  BY DEF TypeOK
<1>1. CASE RecordArtifact(d)
  BY <1>1 DEF RecordArtifact, TypeOK, disk, loop, found
<1>2. CASE NotClaimed(d) \/ EnsureExtract(d)
  <2>1. UNCHANGED <<phase, plan>> /\ at' \in 1 .. Len(plan) + 1
    BY <1>0, <1>2 DEF NotClaimed, EnsureExtract, Completed, Here, Advance
  <2>2. queued' \subseteq Documents
    BY <1>2 DEF NotClaimed, EnsureExtract, TypeOK, rows
  <2> QED BY <1>2, <2>1, <2>2 DEF NotClaimed, EnsureExtract, TypeOK, rows, disk, found
<1>3. CASE CompleteDownload(d) \/ CompleteCredited(d) \/ ArtifactMissing(d) \/ NotReconciled(d)
  <2>1. UNCHANGED <<phase, plan>> /\ at' \in 1 .. Len(plan) + 1
    BY <1>0, <1>3 DEF CompleteDownload, CompleteCredited, ArtifactMissing, NotReconciled, Settles,
       Here, Advance, loop
  <2>2. /\ file' \in [Documents -> Files] /\ reauth' \subseteq Documents
        /\ claims' \subseteq Documents
    BY <1>3 DEF CompleteDownload, CompleteCredited, ArtifactMissing, NotReconciled, Settle, Outcome,
       TypeOK, Files
  <2> QED BY <1>3, <2>1, <2>2 DEF CompleteDownload, CompleteCredited, ArtifactMissing, NotReconciled,
             TypeOK, disk, found
<1> QED BY <1>1, <1>2, <1>3

\* What may go wrong, and time.
LEMMA OtherTypes ==
  ASSUME TypeOK, UNCHANGED unusable,
         \/ ScanBlocked \/ FinalizerRaises \/ Crash \/ (\E d \in Documents : Elapse(d))
         \/ (\E n \in Names : RemoveArchived(n) \/ ClearStaged(n))
  PROVE  TypeOK'
<1>0. CASE FinalizerRaises
  <2>1. file' \in [Documents -> Files] /\ reauth' \subseteq Documents
    BY <1>0 DEF FinalizerRaises, TypeOK, Files
  <2>2. cutOff' \subseteq Documents
    BY <1>0 DEF FinalizerRaises, Forgotten, TypeOK
  <2> QED BY <1>0, <2>1, <2>2, FaultTypes, LeaveTypes DEF FinalizerRaises, TypeOK, Phases, disk
<1>1. CASE ScanBlocked
  BY <1>1, FaultTypes DEF ScanBlocked, TypeOK, Windows, Listed, disk, loop, found
<1>2. CASE Crash
  <2>1. cutOff' \subseteq Documents
    BY <1>2 DEF Crash, Forgotten, TypeOK
  <2> QED BY <1>2, <2>1, FaultTypes, LeaveTypes DEF Crash, TypeOK, Phases, rows, disk
<1>3. ASSUME NEW d \in Documents, Elapse(d) PROVE TypeOK'
  BY <1>3 DEF Elapse, TypeOK, Files, disk, loop, found
<1>4. ASSUME NEW n \in Names, RemoveArchived(n) PROVE TypeOK'
  BY <1>4, FaultTypes DEF RemoveArchived, TypeOK, rows, loop, found
<1>5. ASSUME NEW n \in Names, ClearStaged(n) PROVE TypeOK'
  BY <1>5, FaultTypes DEF ClearStaged, TypeOK, rows, loop, found
<1> QED BY <1>0, <1>1, <1>2, <1>3, <1>4, <1>5

-----------------------------------------------------------------------------
(* Steps that leave the directories alone: the run and the ledger go on.   *)

\* What a step leaves of the files, and what a run may forget meanwhile.
Undisturbed ==
  /\ UNCHANGED <<artifact, queued, staged, archive, listed, removed>>
  /\ fresh' \subseteq fresh /\ entries' \subseteq entries
  /\ UNCHANGED plan \/ plan' = <<>> \/ fresh' = {}

\* A step that leaves the files alone keeps what is said of them, if what it takes
\* for satisfied or done is archived, and a report is not taken back unlisted.
LEMMA UndisturbedKeeps ==
  ASSUME IInv, Undisturbed,
         phase' = "archive" \/ phase # "archive" \/ entries' = {},
         removed = {} => \A d \in satisfied' : d \in satisfied \/ Bytes[d] \in Stored,
         \A d \in Documents : file[d] = "succeeded" => file'[d] = "succeeded",
         removed = {} => \A d \in Documents :
           file'[d] = "succeeded" => file[d] = "succeeded" \/ Bytes[d] \in Stored
  PROVE  DiskFits' /\ SettledIsArchived' /\ ArchivedOnce'
<1>1. StagedFits'
  BY DEF IInv, DiskFits, StagedFits, Undisturbed, Planned
<1>2. ArchiveFits' /\ ArchivedOnce'
  BY DEF IInv, DiskFits, ArchiveFits, ArchivedOnce, Undisturbed, Archived, Shadowed
<1>3. Stored' = Stored
  BY DEF Stored, Undisturbed
<1>4. FoundFits'
  BY <1>3 DEF IInv, DiskFits, FoundFits, Undisturbed
<1>5. SettledIsArchived'
  BY <1>3 DEF IInv, SettledIsArchived, Undisturbed
<1> QED BY <1>1, <1>2, <1>4, <1>5 DEF DiskFits

\* While a range is being scanned it is not covered.
LEMMA RunningKeeps ==
  ASSUME IInv, window' # "succeeded",
         phase' # "idle" /\ removed' = {} =>
           /\ phase # "idle" /\ removed = {}
           /\ \A d \in Documents : /\ file'[d] = "none" => file[d] = "none"
                                   /\ Archived(Name[d]) => Archived(Name[d])'
  PROVE  ScanFits' /\ CoveredIsArchived'
BY DEF IInv, ScanFits, CoveredIsArchived, Shadowed

\* While a run is on, the range is not covered.
LEMMA Running ==
  ASSUME IInv, phase # "idle"
  PROVE  window # "succeeded"
BY DEF IInv, ScanFits

\* A planned document is one of the plan.
LEMMA HereIsPlanned ==
  ASSUME TypeOK, NEW p, NEW d \in Documents, Here(p, d)
  PROVE  d \in Planned
BY DEF TypeOK, Here, Planned

\* A run that leaves keeps the invariant, whatever becomes of the rows it claimed.
LEMMA LeaveKeeps ==
  ASSUME IInv, phase # "idle", Leave, UNCHANGED <<window, queued, artifact, disk, removed>>,
         \A d \in Documents : file'[d] = "succeeded" <=> file[d] = "succeeded"
  PROVE  RunFits' /\ DiskFits' /\ ScanFits' /\ SettledIsArchived' /\ ArchivedOnce' /\ CoveredIsArchived'
<1>1. /\ phase' = "idle" /\ plan' = <<>>
      /\ claims' = {} /\ fresh' = {} /\ entries' = {} /\ satisfied' = {}
  BY DEF Leave
<1>2. RunFits'
  BY <1>1 DEF RunFits, Planned
<1>3. Undisturbed
  BY <1>1 DEF Undisturbed, disk
<1>4. DiskFits' /\ SettledIsArchived' /\ ArchivedOnce'
  BY <1>1, <1>3, UndisturbedKeeps
<1>5. ScanFits' /\ CoveredIsArchived'
  BY <1>1, Running, RunningKeeps
<1> QED BY <1>2, <1>4, <1>5

-----------------------------------------------------------------------------
(* Each step keeps the rest of the invariant.                              *)

Rest == RunFits /\ DiskFits /\ ScanFits /\ SettledIsArchived /\ ArchivedOnce /\ CoveredIsArchived

\* A plan has no namesakes, and what it leaves out is archived.
LEMMA ScanKeeps ==
  ASSUME IInv, Scan \/ ScanBlocked
  PROVE  Rest'
<1>0. phase = "idle" /\ fresh = {} /\ satisfied = {} /\ claims = {} /\ entries = {}
  BY DEF IInv, RunFits, Scan, ScanBlocked
<1>1. /\ UNCHANGED <<artifact, queued, staged, archive, listed, removed, fresh, satisfied, claims, entries>>
      /\ window' # "succeeded"
  BY DEF Scan, ScanBlocked, disk, found
<1>2. Undisturbed
  BY <1>0, <1>1 DEF Undisturbed
<1>3. CASE Scan
  <2>1. \A d \in Planned' : d \in Candidates
    BY <1>3, PlanOfScan DEF Scan, Planned, Candidates
  <2>2. phase' \in {"close", "download"}
    BY <1>3 DEF Scan
  <2>3. RunFits'
    BY <1>0, <1>1, <2>1, <2>2 DEF RunFits, Candidates, Shadowed
  <2>4. \A d \in Documents : file'[d] = "succeeded" <=> file[d] = "succeeded"
    BY <1>3 DEF Scan
  <2>5. DiskFits' /\ SettledIsArchived' /\ ArchivedOnce'
    BY <1>0, <1>1, <1>2, <2>4, UndisturbedKeeps
  <2>6. \A d \in Documents : file'[d] = "none" => Shadowed(d) \/ Archived(Name[d])
    BY <1>3 DEF Scan, Candidates
  <2>7. ScanFits' /\ CoveredIsArchived'
    BY <1>1, <2>6 DEF ScanFits, CoveredIsArchived, Shadowed, Archived
  <2> QED BY <2>3, <2>5, <2>7 DEF Rest
<1>4. CASE ScanBlocked
  <2>1. UNCHANGED <<phase, plan, file>>
    BY <1>4 DEF ScanBlocked, loop
  <2>2. RunFits'
    BY <1>0, <1>1, <2>1 DEF IInv, RunFits, Planned, Shadowed
  <2>3. DiskFits' /\ SettledIsArchived' /\ ArchivedOnce'
    BY <1>0, <1>1, <1>2, <2>1, UndisturbedKeeps
  <2>4. ScanFits' /\ CoveredIsArchived'
    BY <1>0, <1>1, <2>1, RunningKeeps
  <2> QED BY <2>2, <2>3, <2>4 DEF Rest
<1> QED BY <1>3, <1>4

\* Turns of the loops that move no file.
LEMMA TurnKeeps ==
  ASSUME IInv, NEW d \in Documents,
         \/ NotDue(d) \/ Collide(d) \/ Refuse(d)
         \/ PassOver(d) \/ CreditDuplicate(d)
         \/ CompleteDownload(d) \/ CompleteCredited(d) \/ ArtifactMissing(d)
         \/ NotReconciled(d) \/ NotClaimed(d)
  PROVE  Rest'
<1>1. /\ phase # "idle" /\ d \in Planned
      /\ UNCHANGED <<phase, plan, artifact, queued, staged, archive, listed, removed, fresh, entries, window>>
  BY HereIsPlanned DEF NotDue, Collide, Refuse, Tries, PassOver, CreditDuplicate, CompleteDownload,
     CompleteCredited, ArtifactMissing, NotReconciled, NotClaimed, Settles, Settle, Here, Advance,
     rows, disk, found, loop, IInv
<1>2. Undisturbed
  BY <1>1 DEF Undisturbed
<1>3. RunFits'
  <2>1. CASE NotDue(d) \/ PassOver(d) \/ CreditDuplicate(d) \/ NotClaimed(d)
    <3>1. UNCHANGED <<file, claims>>
      BY <2>1 DEF NotDue, PassOver, CreditDuplicate, NotClaimed, rows
    <3> QED BY <1>1, <3>1 DEF IInv, RunFits, Planned, Shadowed
  <2>2. CASE Collide(d) \/ Refuse(d)
    <3>1. /\ file[d] = "due" /\ UNCHANGED claims
          /\ \A e \in Documents : e # d => file'[e] = file[e]
          /\ file'[d] # "succeeded"
      BY <2>2 DEF Collide, Refuse, Tries, Outcome, IInv, TypeOK
    <3>2. claims \subseteq Documents /\ entries \subseteq Documents /\ d \notin claims
      BY <3>1 DEF IInv, TypeOK, RunFits
    <3> QED BY <1>1, <3>1, <3>2 DEF IInv, RunFits, Planned, Shadowed
  <2>3. CASE CompleteDownload(d) \/ CompleteCredited(d) \/ ArtifactMissing(d) \/ NotReconciled(d)
    <3>1. /\ phase = "settle" /\ claims' = claims \ {d}
          /\ \A e \in Documents : e # d => file'[e] = file[e]
          /\ d \in entries /\ file'[d] = "succeeded" => artifact[d]
      BY <2>3 DEF CompleteDownload, CompleteCredited, ArtifactMissing, NotReconciled, Settles, Here,
         Settle, Outcome, IInv, TypeOK
    <3>2. claims \subseteq Documents /\ entries \subseteq Documents
      BY DEF IInv, TypeOK
    <3> QED BY <1>1, <3>1, <3>2 DEF IInv, RunFits, Planned, Shadowed
  <2> QED BY <2>1, <2>2, <2>3
<1>4. ASSUME removed = {} PROVE
        /\ \A e \in satisfied' : e \in satisfied \/ Bytes[e] \in Stored
        /\ \A e \in Documents : file'[e] = "succeeded" => file[e] = "succeeded" \/ Bytes[e] \in Stored
  <2>1. CASE NotDue(d)
    BY <1>4, <2>1 DEF NotDue, rows, IInv, SettledIsArchived
  <2>2. CASE CreditDuplicate(d)
    <3>1. staged[Name[d]] = Bytes[d] /\ staged[Name[d]] \in Stored
      BY <1>1, <2>2 DEF CreditDuplicate, Discovered, Duplicate, IInv, DiskFits, StagedFits
    <3> QED BY <2>2, <3>1 DEF CreditDuplicate, rows
  <2>3. CASE CompleteDownload(d) \/ CompleteCredited(d)
    <3>1. ASSUME d \in entries PROVE Bytes[d] \in Stored
      <4>1. archive[Name[d]] = Bytes[d]
        BY <1>4, <3>1 DEF IInv, DiskFits, FoundFits
      <4>2. Name[d] \in DOMAIN archive /\ Bytes[d] # Nothing
        BY AcquisitionAssumption DEF IInv, TypeOK, Names, Contents
      <4> QED BY <4>1, <4>2 DEF Stored, Range
    <3>2. Bytes[d] \in Stored
      BY <1>4, <2>3, <3>1 DEF CompleteDownload, CompleteCredited, IInv, DiskFits, FoundFits
    <3> QED BY <2>3, <3>2 DEF CompleteDownload, CompleteCredited, Settle, Outcome, found, IInv, TypeOK
  <2>4. CASE Collide(d) \/ Refuse(d) \/ ArtifactMissing(d) \/ NotReconciled(d)
    BY <2>4 DEF Collide, Refuse, ArtifactMissing, NotReconciled, Settle, Outcome, found, IInv, TypeOK
  <2>5. CASE PassOver(d) \/ NotClaimed(d)
    BY <2>5 DEF PassOver, NotClaimed, rows, found
  <2> QED BY <2>1, <2>2, <2>3, <2>4, <2>5
<1>5. \A e \in Documents : /\ file[e] = "succeeded" => file'[e] = "succeeded"
                           /\ file'[e] = "none" => file[e] = "none"
  <2>1. CASE NotDue(d) \/ PassOver(d) \/ CreditDuplicate(d) \/ NotClaimed(d)
    BY <2>1 DEF NotDue, PassOver, CreditDuplicate, NotClaimed, rows
  <2>2. CASE Collide(d) \/ Refuse(d)
    BY <2>2 DEF Collide, Refuse, Tries, Outcome, IInv, TypeOK
  <2>3. CASE CompleteDownload(d) \/ CompleteCredited(d) \/ ArtifactMissing(d) \/ NotReconciled(d)
    <3>1. file[d] = "held"
      BY <2>3 DEF CompleteDownload, CompleteCredited, ArtifactMissing, NotReconciled, Settles, IInv, RunFits
    <3> QED BY <2>3, <3>1 DEF CompleteDownload, CompleteCredited, ArtifactMissing, NotReconciled, Settle,
               Outcome, IInv, TypeOK
  <2> QED BY <2>1, <2>2, <2>3
<1>6. DiskFits' /\ SettledIsArchived' /\ ArchivedOnce'
  BY <1>1, <1>2, <1>4, <1>5, UndisturbedKeeps
<1>7. ScanFits' /\ CoveredIsArchived'
  BY <1>1, <1>5, Running, RunningKeeps DEF Archived
<1> QED BY <1>3, <1>6, <1>7 DEF Rest

\* Two planned documents never share a name.
LEMMA NoNamesakes ==
  ASSUME IInv, NEW d \in Planned, NEW e \in Documents, ~Shadowed(e), Name[e] = Name[d]
  PROVE  e = d
<1>1. d \in Documents /\ ~Shadowed(d)
  BY DEF IInv, RunFits, Planned, TypeOK
<1>2. d \in Nat /\ e \in Nat
  BY <1>1, AcquisitionAssumption
<1> QED BY <1>1, <1>2 DEF Shadowed

\* A new name is staged with the bytes of the planned file.
LEMMA DownloadKeeps ==
  ASSUME IInv, NEW d \in Documents, Download(d)
  PROVE  Rest'
<1>1. /\ phase = "download" /\ d \in Planned
      /\ UNCHANGED <<phase, plan, artifact, queued, archive, listed, removed, entries, satisfied, window>>
      /\ staged' = [staged EXCEPT ![Name[d]] = Bytes[d]]
      /\ fresh' = fresh \union {Name[d]}
      /\ file[d] = "due" /\ file' = [file EXCEPT ![d] = "held"]
      /\ claims' = claims \union {d}
  BY HereIsPlanned DEF Download, Tries, Here, Advance, found, IInv
<1>2. RunFits'
  <2>1. /\ file'[d] = "held" /\ \A e \in Documents : e # d => file'[e] = file[e]
        /\ claims \subseteq Documents /\ entries = {} /\ Planned \subseteq Documents
    BY <1>1 DEF IInv, TypeOK, RunFits, Planned
  <2>2. ASSUME NEW e \in Planned, Name[e] \in fresh' PROVE e \in claims'
    <3>1. CASE Name[e] = Name[d]
      BY <1>1, <2>1, <3>1, NoNamesakes DEF IInv, RunFits
    <3> QED BY <1>1, <2>2, <3>1 DEF IInv, RunFits
  <2>3. Planned' = Planned
    BY <1>1 DEF Planned
  <2> QED BY <1>1, <2>1, <2>2, <2>3 DEF IInv, RunFits, Shadowed
<1>3. StagedFits'
  <2> SUFFICES ASSUME NEW e \in Planned, Name[e] \in fresh', staged'[Name[e]] # Nothing
               PROVE  staged'[Name[e]] = Bytes[e]
    BY <1>1 DEF StagedFits, Planned
  <2>1. e \in Documents /\ ~Shadowed(e)
    BY DEF IInv, RunFits, Planned, TypeOK
  <2>2. Name[e] \in Names /\ Name[d] \in Names /\ staged \in [Names -> Contents \union {Nothing}]
    BY <2>1 DEF Names, IInv, TypeOK
  <2>3. CASE Name[e] = Name[d]
    <3>1. e = d
      BY <1>1, <2>1, <2>3, NoNamesakes
    <3> QED BY <1>1, <2>2, <3>1
  <2>4. CASE Name[e] # Name[d]
    BY <1>1, <2>2, <2>4 DEF IInv, DiskFits, StagedFits
  <2> QED BY <2>3, <2>4
<1>4. ArchiveFits' /\ FoundFits' /\ ArchivedOnce'
  BY <1>1 DEF IInv, DiskFits, ArchiveFits, FoundFits, ArchivedOnce, Archived, Shadowed, Stored
<1>5. SettledIsArchived'
  BY <1>1 DEF IInv, TypeOK, SettledIsArchived, Stored
<1>6. ScanFits' /\ CoveredIsArchived'
  BY <1>1, Running, RunningKeeps DEF Archived, IInv, TypeOK
<1> QED BY <1>2, <1>3, <1>4, <1>5, <1>6 DEF Rest, DiskFits

\* The archive gets a new name with the bytes of the planned document.
LEMMA MoveKeeps ==
  ASSUME IInv, NEW d \in Documents, MoveToArchive(d)
  PROVE  Rest'
<1>1. /\ phase = "archive" /\ d \in Planned
      /\ UNCHANGED <<phase, plan, artifact, queued, file, claims, window, listed, removed, fresh, satisfied>>
      /\ archive' = [archive EXCEPT ![Name[d]] = staged[Name[d]]]
      /\ staged' = [staged EXCEPT ![Name[d]] = Nothing]
      /\ entries' = entries \union {d}
      /\ Name[d] \in fresh /\ staged[Name[d]] \notin Stored /\ ~Archived(Name[d])
  BY HereIsPlanned DEF MoveToArchive, Here, Advance, Discovered, Duplicate, rows, IInv
<1>2. staged[Name[d]] = Bytes[d]
  BY <1>1 DEF MoveToArchive, Discovered, IInv, DiskFits, StagedFits
<1>3. /\ Name[d] \in Names /\ Bytes[d] \in Contents /\ Bytes[d] # Nothing
      /\ archive \in [Names -> Contents \union {Nothing}]
      /\ staged \in [Names -> Contents \union {Nothing}]
  BY AcquisitionAssumption DEF Names, Contents, IInv, TypeOK
<1>4. /\ archive'[Name[d]] = Bytes[d]
      /\ \A n \in Names : Archived(n) => n # Name[d] /\ archive'[n] = archive[n] /\ archive'[n] # Nothing
      /\ \A n \in Names : n # Name[d] => archive'[n] = archive[n]
  BY <1>1, <1>2, <1>3 DEF Archived
<1>5. Stored \subseteq Stored'
  <2> SUFFICES ASSUME NEW n \in Names, archive[n] # Nothing PROVE archive[n] \in Stored'
    BY <1>3 DEF Stored, Range
  <2>1. archive'[n] = archive[n] /\ n \in DOMAIN archive'
    BY <1>1, <1>3, <1>4 DEF Archived
  <2> QED BY <2>1 DEF Stored, Range
<1>6. RunFits'
  <2>1. file[d] = "held"
    BY <1>1 DEF IInv, RunFits
  <2> QED BY <1>1, <2>1 DEF IInv, RunFits, Planned, Shadowed
<1>7. StagedFits'
  <2> SUFFICES ASSUME NEW e \in Planned, Name[e] \in fresh, staged'[Name[e]] # Nothing
               PROVE  staged'[Name[e]] = Bytes[e]
    BY <1>1 DEF StagedFits, Planned
  <2>1. Name[e] \in Names
    BY DEF Names, Planned, IInv, TypeOK
  <2> QED BY <1>1, <1>3, <2>1 DEF IInv, DiskFits, StagedFits
<1>8. ArchiveFits'
  <2> SUFFICES ASSUME NEW e \in Documents, ~Shadowed(e), archive'[Name[e]] # Nothing
               PROVE  archive'[Name[e]] = Bytes[e]
    BY DEF ArchiveFits, Archived, Shadowed
  <2>1. Name[e] \in Names
    BY DEF Names
  <2>2. CASE Name[e] = Name[d]
    BY <1>1, <1>4, <2>2, NoNamesakes
  <2>3. CASE Name[e] # Name[d]
    BY <1>4, <2>1, <2>3 DEF IInv, DiskFits, ArchiveFits, Archived
  <2> QED BY <2>2, <2>3
<1>9. FoundFits'
  <2> SUFFICES ASSUME removed = {}
               PROVE  /\ \A e \in entries' : archive'[Name[e]] = Bytes[e]
                      /\ \A e \in satisfied : Bytes[e] \in Stored'
    BY <1>1 DEF FoundFits
  <2>1. ASSUME NEW e \in entries PROVE archive'[Name[e]] = Bytes[e]
    <3>1. e \in Documents /\ archive[Name[e]] = Bytes[e]
      BY DEF IInv, TypeOK, DiskFits, FoundFits
    <3>2. Name[e] \in Names /\ Archived(Name[e])
      BY <3>1, AcquisitionAssumption DEF Names, Contents, Archived
    <3> QED BY <1>4, <3>1, <3>2
  <2>2. \A e \in satisfied : Bytes[e] \in Stored
    BY DEF IInv, DiskFits, FoundFits
  <2> QED BY <1>1, <1>4, <1>5, <2>1, <2>2
<1>10. ArchivedOnce'
  <2> SUFFICES ASSUME NEW m \in Names, NEW n \in Names, archive'[m] # Nothing, archive'[m] = archive'[n]
               PROVE  m = n
    BY DEF ArchivedOnce, Archived
  <2>1. ASSUME NEW k \in Names, k # Name[d], archive'[k] # Nothing PROVE archive'[k] # Bytes[d]
    BY <1>1, <1>2, <1>3, <1>4, <2>1 DEF Stored, Range
  <2>2. CASE m # Name[d] /\ n # Name[d]
    BY <1>4, <2>2 DEF IInv, ArchivedOnce, Archived
  <2> QED BY <1>4, <2>1, <2>2
<1>11. SettledIsArchived'
  <2> SUFFICES ASSUME removed = {}, NEW e \in Documents
               PROVE  /\ artifact[e] => archive'[Name[e]] = Bytes[e] /\ Name[e] \in listed
                      /\ file[e] = "succeeded" => Bytes[e] \in Stored'
                      /\ e \in queued => artifact[e] /\ file[e] = "succeeded"
    BY <1>1 DEF SettledIsArchived
  <2>1. ASSUME artifact[e] PROVE archive'[Name[e]] = Bytes[e] /\ Name[e] \in listed
    <3>1. archive[Name[e]] = Bytes[e] /\ Name[e] \in listed
      BY <2>1 DEF IInv, SettledIsArchived
    <3>2. Name[e] \in Names /\ Archived(Name[e])
      BY <3>1, AcquisitionAssumption DEF Names, Contents, Archived
    <3> QED BY <1>4, <3>1, <3>2
  <2> QED BY <1>5, <2>1 DEF IInv, SettledIsArchived
<1>12. ScanFits' /\ CoveredIsArchived'
  <2>1. \A e \in Documents : Archived(Name[e]) => Archived(Name[e])'
    BY <1>4 DEF Archived, Names
  <2> QED BY <1>1, <2>1, Running, RunningKeeps
<1> QED BY <1>6, <1>7, <1>8, <1>9, <1>10, <1>11, <1>12 DEF Rest, DiskFits

\* The manifests list what was moved.
LEMMA PhaseKeeps ==
  ASSUME IInv, Downloaded \/ SaveBatchManifest \/ SaveRunManifest \/ Reconciled
  PROVE  Rest'
<1>1. /\ phase # "idle" /\ phase' # "idle"
      /\ UNCHANGED <<plan, artifact, queued, staged, archive, removed, fresh, entries, satisfied, file,
                     claims, window>>
  BY DEF Downloaded, SaveBatchManifest, SaveRunManifest, Reconciled, LoopEnds, Goto, rows, disk, found
<1>2. /\ phase' # "download"
      /\ phase' = "archive" => phase = "download"
      /\ phase' # "archive" /\ removed = {} => \A d \in entries : Name[d] \in listed'
      /\ listed \subseteq listed'
  BY DEF Downloaded, SaveBatchManifest, SaveRunManifest, Reconciled, LoopEnds, Goto, disk, IInv, RunFits,
     DiskFits, FoundFits
<1>3. RunFits'
  BY <1>1, <1>2 DEF IInv, RunFits, Planned, Shadowed
<1>4. DiskFits' /\ SettledIsArchived' /\ ArchivedOnce'
  BY <1>1, <1>2 DEF IInv, DiskFits, StagedFits, ArchiveFits, FoundFits, SettledIsArchived,
     ArchivedOnce, Archived, Stored, Planned, Shadowed
<1>5. ScanFits' /\ CoveredIsArchived'
  BY <1>1, Running, RunningKeeps DEF Archived
<1> QED BY <1>3, <1>4, <1>5 DEF Rest

\* An artifact is an entry, archived and listed; and a text is to be extracted of a
\* completed entry, whose artifact is on record.
LEMMA RecordKeeps ==
  ASSUME IInv, NEW d \in Documents, RecordArtifact(d) \/ EnsureExtract(d)
  PROVE  Rest'
<1>1. /\ phase = "settle" /\ d \in entries
      /\ artifact' = [artifact EXCEPT ![d] = TRUE] \/ UNCHANGED artifact
      /\ UNCHANGED <<plan, phase, staged, archive, listed, removed, fresh, entries, satisfied, claims,
                     file, window>>
  BY DEF RecordArtifact, EnsureExtract, Completed, Settles, Here, Advance, disk, loop, found
<1>2. \A e \in Documents : artifact[e] => artifact'[e]
  BY <1>1 DEF IInv, TypeOK
<1>3. RunFits'
  BY <1>1, <1>2 DEF IInv, TypeOK, RunFits, Planned, Shadowed
<1>4. DiskFits' /\ ArchivedOnce'
  BY <1>1 DEF IInv, DiskFits, StagedFits, ArchiveFits, FoundFits, ArchivedOnce, Planned, Shadowed,
     Archived, Stored
<1>5. SettledIsArchived'
  <2>1. removed = {} => archive[Name[d]] = Bytes[d] /\ Name[d] \in listed
    BY <1>1 DEF IInv, DiskFits, FoundFits
  <2>2. \A e \in queued' : e \in queued \/ (e = d /\ artifact[d] /\ file[d] = "succeeded")
    BY DEF RecordArtifact, EnsureExtract, Completed, IInv, RunFits
  <2> QED BY <1>1, <1>2, <2>1, <2>2 DEF IInv, TypeOK, SettledIsArchived, Stored
<1>6. ScanFits' /\ CoveredIsArchived'
  BY <1>1, Running, RunningKeeps DEF Archived
<1> QED BY <1>3, <1>4, <1>5, <1>6 DEF Rest

\* A range is closed as covered when nothing is owed: what it has on no record is in
\* the archive already.
LEMMA CloseKeeps ==
  ASSUME IInv, Close
  PROVE  Rest'
<1>1. phase = "close" /\ Leave /\ UNCHANGED <<file, queued, artifact, disk, removed>>
  BY DEF Close
<1>2. /\ phase' = "idle" /\ plan' = <<>>
      /\ claims' = {} /\ fresh' = {} /\ entries' = {} /\ satisfied' = {}
  BY <1>1 DEF Leave
<1>3. RunFits'
  BY <1>2 DEF RunFits, Planned
<1>4. DiskFits' /\ SettledIsArchived' /\ ArchivedOnce'
  <2>1. Undisturbed
    BY <1>1, <1>2 DEF Undisturbed, disk
  <2> QED BY <1>1, <1>2, <2>1, UndisturbedKeeps
<1>5. CASE Debts # {}
  <2>1. window' # "succeeded"
    BY <1>5 DEF Close
  <2>2. ScanFits' /\ CoveredIsArchived'
    BY <1>2, <2>1, RunningKeeps
  <2> QED BY <1>3, <1>4, <2>2 DEF Rest
<1>6. CASE Debts = {}
  <2>1. \A d \in Documents : file[d] \in {"none", "succeeded", "protected"}
    BY <1>6 DEF Debts
  <2>2. ASSUME removed = {}, NEW d \in Documents
        PROVE  Bytes[d] \in Stored \/ file[d] = "protected" \/ Shadowed(d)
    <3>1. CASE file[d] = "succeeded"
      BY <2>2, <3>1 DEF IInv, SettledIsArchived
    <3>2. CASE file[d] = "none" /\ ~Shadowed(d)
      <4>1. Archived(Name[d])
        BY <1>1, <2>2, <3>2 DEF IInv, ScanFits
      <4>2. archive[Name[d]] = Bytes[d] /\ Bytes[d] # Nothing
        BY <3>2, <4>1 DEF IInv, DiskFits, ArchiveFits, Archived
      <4>3. Name[d] \in DOMAIN archive
        BY DEF IInv, TypeOK, Names
      <4> QED BY <4>2, <4>3 DEF Stored, Range
    <3> QED BY <2>1, <3>1, <3>2
  <2>3. ScanFits'
    BY <1>1, <1>2, <2>1 DEF ScanFits
  <2>4. Stored' = Stored
    BY <1>1 DEF Stored, disk
  <2>5. CoveredIsArchived'
    BY <1>1, <2>2, <2>4 DEF CoveredIsArchived, Shadowed
  <2> QED BY <1>3, <1>4, <2>3, <2>5 DEF Rest
<1> QED BY <1>5, <1>6

\* A run that is cut off leaves.
LEMMA CutOffKeeps ==
  ASSUME IInv, Crash \/ FinalizerRaises \/ (\E d \in Documents : Raise(d) \/ RaiseUnusable(d))
  PROVE  Rest'
<1>1. /\ phase # "idle" /\ Leave /\ UNCHANGED <<window, queued, artifact, disk, removed>>
      /\ \A d \in Documents : file'[d] = "succeeded" <=> file[d] = "succeeded"
  <2>1. CASE Crash
    BY <2>1 DEF Crash, rows
  <2>2. CASE FinalizerRaises
    BY <2>2 DEF FinalizerRaises, IInv, RunFits
  <2>3. ASSUME NEW d \in Documents, Raise(d) \/ RaiseUnusable(d)
        PROVE  /\ phase # "idle" /\ Leave /\ UNCHANGED <<window, queued, artifact, disk, removed>>
               /\ \A e \in Documents : file'[e] = "succeeded" <=> file[e] = "succeeded"
    BY <2>3 DEF Raise, RaiseUnusable, Abandon, Tries, Here, IInv, TypeOK
  <2> QED BY <2>1, <2>2, <2>3
<1> QED BY <1>1, LeaveKeeps DEF Rest

\* Waiting and abandoned rows become due: there are none in a covered range.
LEMMA ElapseKeeps ==
  ASSUME IInv, NEW d \in Documents, Elapse(d)
  PROVE  Rest'
<1>1. /\ file[d] \in {"waiting", "held"} /\ file' = [file EXCEPT ![d] = "due"]
      /\ d \in claims => file[d] = "waiting"
      /\ UNCHANGED <<window, artifact, queued, staged, archive, listed, removed, phase, plan, claims, fresh,
                     entries, satisfied>>
  BY DEF Elapse, disk, loop, found
<1>2. RunFits'
  <2>1. d \notin claims /\ claims \subseteq Documents /\ entries \subseteq Documents
    BY <1>1 DEF IInv, TypeOK, RunFits
  <2> QED BY <1>1, <2>1 DEF IInv, TypeOK, RunFits, Planned, Shadowed
<1>3. Undisturbed
  BY <1>1 DEF Undisturbed
<1>4. \A e \in Documents : /\ file'[e] = "succeeded" <=> file[e] = "succeeded"
                           /\ file'[e] = "none" => file[e] = "none"
  BY <1>1 DEF IInv, TypeOK
<1>5. DiskFits' /\ SettledIsArchived' /\ ArchivedOnce'
  BY <1>1, <1>3, <1>4, UndisturbedKeeps
<1>6. window # "succeeded"
  BY <1>1 DEF IInv, ScanFits
<1>7. ScanFits' /\ CoveredIsArchived'
  BY <1>1, <1>4, <1>6, RunningKeeps DEF Archived
<1> QED BY <1>2, <1>5, <1>7 DEF Rest

\* A hand in the archive ends the promises about it, but for its contents.
LEMMA RemoveKeeps ==
  ASSUME IInv, NEW n \in Names, RemoveArchived(n)
  PROVE  Rest'
<1>1. /\ archive' = [archive EXCEPT ![n] = Nothing] /\ removed' # {}
      /\ UNCHANGED <<window, artifact, queued, file, staged, listed, phase, plan, claims, fresh, entries, satisfied>>
  BY DEF RemoveArchived, rows, loop, found
<1>2. archive \in [Names -> Contents \union {Nothing}]
  BY DEF IInv, TypeOK
<1>3. RunFits' /\ StagedFits'
  BY <1>1 DEF IInv, DiskFits, RunFits, StagedFits, Planned, Shadowed
<1>4. ArchiveFits' /\ ArchivedOnce'
  BY <1>1, <1>2 DEF IInv, DiskFits, ArchiveFits, ArchivedOnce, Archived, Names, Shadowed
<1>5. FoundFits' /\ SettledIsArchived' /\ ScanFits' /\ CoveredIsArchived'
  BY <1>1 DEF IInv, FoundFits, SettledIsArchived, ScanFits, CoveredIsArchived
<1> QED BY <1>3, <1>4, <1>5 DEF Rest, DiskFits

\* A staged file disappears.
LEMMA ClearKeeps ==
  ASSUME IInv, NEW n \in Names, ClearStaged(n)
  PROVE  Rest'
<1>1. /\ staged' = [staged EXCEPT ![n] = Nothing]
      /\ UNCHANGED <<window, artifact, queued, file, archive, listed, removed, phase, plan, claims, fresh,
                     entries, satisfied>>
  BY DEF ClearStaged, rows, loop, found
<1>2. StagedFits'
  <2>1. \A d \in Planned : Name[d] \in Names
    BY DEF Planned, Names, IInv, TypeOK
  <2> QED BY <1>1, <2>1 DEF IInv, TypeOK, DiskFits, StagedFits, Planned
<1> QED BY <1>1, <1>2 DEF Rest, IInv, RunFits, DiskFits, ArchiveFits, FoundFits, ScanFits,
           SettledIsArchived, ArchivedOnce, CoveredIsArchived, Planned, Shadowed, Archived, Stored

-----------------------------------------------------------------------------
\* A download run begins with nothing on record, staged or archived.
THEOREM Initial == Init => IInv
<1> SUFFICES ASSUME Init PROVE IInv
  OBVIOUS
<1>1. TypeOK
  BY AcquisitionAssumption DEF Init, TypeOK, Files, Listed, Windows, Phases
<1>2. RunFits /\ DiskFits
  BY DEF Init, RunFits, DiskFits, StagedFits, ArchiveFits, FoundFits, Planned, Archived, Names
<1>3. ScanFits /\ SettledIsArchived /\ ArchivedOnce /\ CoveredIsArchived
  BY DEF Init, ScanFits, SettledIsArchived, ArchivedOnce, CoveredIsArchived, Archived
<1> QED BY <1>1, <1>2, <1>3 DEF IInv

\* One step, one action.
THEOREM Inductive == IInv /\ [Next]_vars => IInv'
<1> SUFFICES ASSUME IInv, [Next]_vars PROVE TypeOK' /\ Rest'
  BY DEF IInv, Rest
<1> TypeOK
  BY DEF IInv
<1> UNCHANGED unusable
  BY DEF Next, RunStep, Environment, vars
<1>1. CASE Scan
  BY <1>1, RunTypes, ScanKeeps
<1>2. CASE Downloaded \/ SaveBatchManifest \/ SaveRunManifest \/ Reconciled
  BY <1>2, RunTypes, PhaseKeeps
<1>3. CASE Close
  BY <1>3, RunTypes, CloseKeeps
<1>4. ASSUME NEW d \in Documents, NotDue(d) \/ Collide(d) \/ Refuse(d)
      PROVE  TypeOK' /\ Rest'
  BY <1>4, DownloadTypes, TurnKeeps
<1>5. ASSUME NEW d \in Documents, Download(d)
      PROVE  TypeOK' /\ Rest'
  BY <1>5, DownloadTypes, DownloadKeeps
<1>6. ASSUME NEW d \in Documents, CreditDuplicate(d) \/ PassOver(d)
      PROVE  TypeOK' /\ Rest'
  BY <1>6, FinalizerTypes, TurnKeeps
<1>7. ASSUME NEW d \in Documents, MoveToArchive(d)
      PROVE  TypeOK' /\ Rest'
  BY <1>7, FinalizerTypes, MoveKeeps
<1>8. ASSUME NEW d \in Documents, RecordArtifact(d) \/ EnsureExtract(d)
      PROVE  TypeOK' /\ Rest'
  BY <1>8, SettleTypes, RecordKeeps
<1>9. ASSUME NEW d \in Documents,
             \/ CompleteDownload(d) \/ CompleteCredited(d) \/ ArtifactMissing(d)
             \/ NotReconciled(d) \/ NotClaimed(d)
      PROVE  TypeOK' /\ Rest'
  BY <1>9, SettleTypes, TurnKeeps
<1>10. CASE ScanBlocked
  BY <1>10, OtherTypes, ScanKeeps
<1>11. CASE FinalizerRaises \/ Crash
  BY <1>11, OtherTypes, CutOffKeeps
<1>12. ASSUME NEW d \in Documents, Raise(d) \/ RaiseUnusable(d)
       PROVE  TypeOK' /\ Rest'
  BY <1>12, DownloadTypes, CutOffKeeps
<1>13. ASSUME NEW d \in Documents, Elapse(d)
       PROVE  TypeOK' /\ Rest'
  BY <1>13, OtherTypes, ElapseKeeps
<1>14. ASSUME NEW n \in Names, RemoveArchived(n)
       PROVE  TypeOK' /\ Rest'
  BY <1>14, OtherTypes, RemoveKeeps
<1>15. ASSUME NEW n \in Names, ClearStaged(n)
       PROVE  TypeOK' /\ Rest'
  BY <1>15, OtherTypes, ClearKeeps
<1>16. CASE UNCHANGED vars
  <2>1. TypeOK'
    BY <1>16 DEF TypeOK, vars, rows, disk, loop, found
  <2>2. Rest'
    BY <1>16 DEF IInv, Rest, RunFits, DiskFits, StagedFits, ArchiveFits, FoundFits, ScanFits,
       SettledIsArchived, ArchivedOnce, CoveredIsArchived, Planned, Shadowed, Archived, Stored,
       vars, rows, disk, loop, found
  <2> QED BY <2>1, <2>2
<1> QED BY <1>1, <1>2, <1>3, <1>4, <1>5, <1>6, <1>7, <1>8, <1>9, <1>10, <1>11, <1>12, <1>13,
           <1>14, <1>15, <1>16 DEF Next, RunStep, Environment

\* The inductive invariant holds in every state of the download run.
THEOREM InvariantHolds == Spec => []IInv
BY Initial, Inductive, PTL DEF Spec

-----------------------------------------------------------------------------
\* Every variable keeps its type: a stage is always in one of the states the
\* ledger knows, and the loop never runs past the end of its plan.
THEOREM TypeCorrect == Spec => []TypeOK
<1>1. IInv => TypeOK
  BY DEF IInv
<1> QED BY <1>1, InvariantHolds, PTL

\* What DownloadPipeline.run puts on record as downloaded stands in the archive,
\* with its own bytes and its manifest entry, whatever run was cut off and
\* whichever files share a name or a content, until somebody removes a file.
THEOREM RecordsAreArchived == Spec => []SettledIsArchived
<1>1. IInv => SettledIsArchived
  BY DEF IInv
<1> QED BY <1>1, InvariantHolds, PTL

\* run_finalization archives no content twice, for any number of files, names
\* and faults.
THEOREM ContentsOnce == Spec => []ArchivedOnce
<1>1. IInv => ArchivedOnce
  BY DEF IInv
<1> QED BY <1>1, InvariantHolds, PTL

\* A range DownloadPipeline.run closes as covered has left no file behind
\* that is neither archived, nor protected, nor the namesake of another one.
THEOREM CoveredIsComplete == Spec => []CoveredIsArchived
<1>1. IInv => CoveredIsArchived
  BY DEF IInv
<1> QED BY <1>1, InvariantHolds, PTL
=============================================================================
