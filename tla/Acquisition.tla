---------------------------- MODULE Acquisition -----------------------------
(***************************************************************************)
(* From a scan to an archived PDF: the download run of one source, with    *)
(* the files it moves.                                                     *)
(*   scan_window, filter_topics       scripts/scan_zsxq_download_candidates*)
(*   download_candidate_on_page       scripts/download_zsxq_plan_file.py   *)
(*   run_finalization                 scripts/finalize_download_batch.py   *)
(*   DownloadPipeline.run             src/zsxq_pipeline/download.py        *)
(* SourceWindows has the windows and their order; here one range of the    *)
(* source is scanned again and again until it is covered, and what counts  *)
(* is where each file is when the run is cut off: in the staging           *)
(* directory, in the archive, in the manifest or on record.                *)
(* A name stands for all spellings build_filename_key takes for equal.     *)
(***************************************************************************)
EXTENDS Integers, Sequences, FiniteSets, Functions

CONSTANTS
  Documents, \* the matching files of the range, in the order the scan meets them
  Name,      \* the file name of each
  Bytes,     \* and its content
  Doubtful,  \* matching files whose name may be no PDF's
  MaxFaults  \* bound on refusals, exceptions, crashes and removals

Nothing  == "nothing"
Names    == {Name[d] : d \in Documents}
Contents == {Bytes[d] : d \in Documents}

ASSUME AcquisitionAssumption ==
  /\ Documents \subseteq Nat /\ IsFiniteSet(Documents)
  /\ Doubtful \subseteq Documents
  /\ MaxFaults \in Nat
  /\ Nothing \notin Contents

VARIABLES
  unusable, \* those of the doubtful files whose name is no PDF's: no run gets past them
  window,   \* source_windows: status of the range
  file,     \* stage_attempts: the DOWNLOAD stage of each document
  reauth,   \* and those whose row has the error code need_reauth
  queued,   \* and those with a TEXT_EXTRACT stage
  artifact, \* documents: is a PDF artifact on record
  staged,   \* the staging directory
  archive,  \* the archive of PDFs
  listed    \* names in the batch manifest

VARIABLES
  phase,    \* where the run is
  plan,     \* the candidates of the scan plan
  at,       \* position of the loop over them
  claims,   \* documents whose stage lease the run holds
  fresh,    \* names written to the staging directory since the run began
  entries,  \* downloaded_entries of the run manifest
  satisfied,\* and its satisfied_entries
  faults,   \* faults so far
  cutOff,   \* documents downloaded by a run that did not settle them (history)
  removed   \* names removed from the archive by hand (history)

rows  == <<window, file, reauth, queued, artifact>>
disk  == <<staged, archive, listed>>
loop  == <<phase, plan, at>>
found == <<entries, satisfied>>
vars  == <<unusable, rows, disk, loop, claims, fresh, found, faults, cutOff, removed>>

\* "waiting" is retry_wait, "protected" quarantined with source_content_protected,
\* "refused" blocked_release.
Files  == {"none", "due", "held", "waiting", "protected", "refused", "succeeded"}

\* A tick lists these, and never a window that is blocked for another reason than
\* the login.
Listed  == {"scheduled", "running", "blocked_auth", "partial"}
Windows == Listed \union {"blocked", "succeeded"}
Phases == {"idle", "download", "archive", "manifest", "settle", "close"}

TypeOK ==
  /\ unusable \subseteq Doubtful
  /\ window \in Windows
  /\ file \in [Documents -> Files]
  /\ reauth \subseteq Documents /\ queued \subseteq Documents
  /\ artifact \in [Documents -> BOOLEAN]
  /\ staged \in [Names -> Contents \union {Nothing}]
  /\ archive \in [Names -> Contents \union {Nothing}]
  /\ listed \subseteq Names
  /\ phase \in Phases
  /\ plan \in Seq(Documents) /\ at \in 1 .. Len(plan) + 1
  /\ claims \subseteq Documents
  /\ fresh \subseteq Names
  /\ entries \subseteq Documents /\ satisfied \subseteq Documents
  /\ faults \in 0 .. MaxFaults
  /\ cutOff \subseteq Documents /\ removed \subseteq Names

Init ==
  /\ unusable \in SUBSET Doubtful
  /\ window = "scheduled"
  /\ file = [d \in Documents |-> "none"]
  /\ reauth = {} /\ queued = {}
  /\ artifact = [d \in Documents |-> FALSE]
  /\ staged = [n \in Names |-> Nothing]
  /\ archive = [n \in Names |-> Nothing]
  /\ listed = {}
  /\ phase = "idle" /\ plan = <<>> /\ at = 1
  /\ claims = {} /\ fresh = {} /\ entries = {} /\ satisfied = {}
  /\ faults = 0 /\ cutOff = {} /\ removed = {}

Fault == faults < MaxFaults /\ faults' = faults + 1

Archived(n) == archive[n] # Nothing
Stored == Range(archive) \ {Nothing}

\* The run forgets everything; its claims stay on record until they expire.
Leave ==
  /\ phase' = "idle" /\ plan' = <<>> /\ at' = 1
  /\ claims' = {} /\ fresh' = {} /\ entries' = {} /\ satisfied' = {}

Forgotten == {d \in claims : Name[d] \in fresh}
Goto(p) == phase' = p /\ at' = 1 /\ UNCHANGED plan
Advance == at' = at + 1 /\ UNCHANGED <<phase, plan>>
LoopEnds(p) == phase = p /\ at > Len(plan)
Here(p, d) == phase = p /\ at <= Len(plan) /\ d = plan[at]

\* complete_stage and fail_stage write the error code anew, a claim leaves it.
Outcome(d, state) == file' = [file EXCEPT ![d] = state] /\ reauth' = reauth \ {d}

-----------------------------------------------------------------------------
(* The scan                                                                *)

Shadowed(d) == \E e \in Documents : e < d /\ Name[e] = Name[d]

\* Mutant: only documents that are not on record yet.
CandidatesNew == {d \in Documents : ~Archived(Name[d]) /\ ~Shadowed(d) /\ file[d] = "none"}

\* A name that is archived, or that an earlier topic of the scan has, is skipped.
Candidates == {d \in Documents : ~Archived(Name[d]) /\ ~Shadowed(d)}

\* The sequence of the members of a set in the order of the scan, the only one.
InOrder(S) == {list \in [1 .. Cardinality(S) -> S] :
                 \A i, j \in DOMAIN list : i < j => list[i] < list[j]}

\* The plan is put on record, then its candidates.
Scan ==
  /\ phase = "idle" /\ window \in Listed
  /\ window' = "running"
  /\ plan' \in InOrder(Candidates)
  /\ file' = [d \in Documents |->
               IF d \in Candidates /\ file[d] = "none" THEN "due" ELSE file[d]]
  /\ phase' = (IF Candidates = {} THEN "close" ELSE "download") /\ at' = 1
  /\ UNCHANGED <<reauth, queued, artifact, disk, claims, fresh, found, faults, cutOff, removed>>

\* The login is lost, or the topics API answers with an error to every retry.
ScanBlocked ==
  /\ phase = "idle" /\ window \in Listed /\ Fault
  /\ window' \in {"blocked", "blocked_auth"}
  /\ UNCHANGED <<file, reauth, queued, artifact, disk, loop, claims, fresh, found, cutOff, removed>>

-----------------------------------------------------------------------------
(* The browser: one candidate after the other.                             *)

\* Nothing to claim.  A row whose last outcome was a lost login ends the loop,
\* whoever holds it now.
NotDue(d) ==
  /\ Here("download", d) /\ file[d] # "due"
  /\ IF d \in reauth THEN at' = Len(plan) + 1 ELSE at' = at + 1
  /\ satisfied' = IF file[d] = "succeeded" THEN satisfied \union {d} ELSE satisfied
  /\ UNCHANGED <<rows, disk, phase, plan, claims, fresh, entries, faults, cutOff, removed>>

\* A file of that name is in the staging directory: it may be anything.
Collides(d) == staged[Name[d]] # Nothing

Tries(d) == Here("download", d) /\ file[d] = "due" /\ d \notin unusable

Collide(d) ==
  /\ Tries(d) /\ Collides(d)
  /\ Outcome(d, "refused") /\ Advance
  /\ UNCHANGED <<window, queued, artifact, disk, claims, fresh, found, faults, cutOff, removed>>

\* The browser saves to a hidden file, which is checked and renamed.
Download(d) ==
  /\ Tries(d) /\ ~Collides(d)
  /\ file' = [file EXCEPT ![d] = "held"] /\ claims' = claims \union {d}
  /\ staged' = [staged EXCEPT ![Name[d]] = Bytes[d]]
  /\ fresh' = fresh \union {Name[d]}
  /\ Advance
  /\ UNCHANGED <<window, reauth, queued, artifact, archive, listed, found, faults, cutOff, removed>>

\* A timeout or an unavailable page is retried, protected content never; the
\* daily limit and a lost login end the loop.
Refuse(d) ==
  /\ Tries(d) /\ ~Collides(d) /\ Fault
  /\ \/ \E state \in {"waiting", "protected"} : Outcome(d, state) /\ at' = at + 1
     \/ Outcome(d, "waiting") /\ at' = Len(plan) + 1
     \/ /\ file' = [file EXCEPT ![d] = "waiting"] /\ reauth' = reauth \union {d}
        /\ at' = Len(plan) + 1
  /\ UNCHANGED <<window, queued, artifact, disk, phase, plan, claims, fresh, found, cutOff, removed>>

\* An exception leaves the run with its claims.
Abandon(d) ==
  /\ file' = [file EXCEPT ![d] = "held"]
  /\ cutOff' = cutOff \union Forgotten
  /\ Leave
  /\ UNCHANGED <<window, reauth, queued, artifact, disk, removed>>

\* An error that is not a Playwright timeout: no stable detail page, a file too
\* small or no PDF, a broken download.
Raise(d) == Tries(d) /\ ~Collides(d) /\ Fault /\ Abandon(d)

\* The name is refused before anything is tried, in this run and in every later one.
RaiseUnusable(d) ==
  /\ Here("download", d) /\ file[d] = "due" /\ d \in unusable
  /\ Abandon(d) /\ UNCHANGED faults

Downloaded ==
  /\ LoopEnds("download")
  /\ Goto(IF claims = {} THEN "settle" ELSE "archive")
  /\ UNCHANGED <<rows, disk, claims, fresh, found, faults, cutOff, removed>>

-----------------------------------------------------------------------------
(* The finalizer: files of this run only, one by one into the archive.     *)

\* A file in the staging directory that came after the run began, has a planned
\* name, and no namesake in the archive.
Discovered(d) == Name[d] \in fresh /\ staged[Name[d]] # Nothing /\ ~Archived(Name[d])

\* Mutant: the name is compared, not the content.
DuplicateByName(d) == Archived(Name[d])

\* Content the archive has is credited to the file that holds it.
Duplicate(d) == staged[Name[d]] \in Stored

CreditDuplicate(d) ==
  /\ Here("archive", d) /\ Discovered(d) /\ Duplicate(d)
  /\ satisfied' = satisfied \union {d}
  /\ Advance
  /\ UNCHANGED <<rows, disk, claims, fresh, entries, faults, cutOff, removed>>

MoveToArchive(d) ==
  /\ Here("archive", d) /\ Discovered(d) /\ ~Duplicate(d)
  /\ archive' = [archive EXCEPT ![Name[d]] = staged[Name[d]]]
  /\ staged' = [staged EXCEPT ![Name[d]] = Nothing]
  /\ entries' = entries \union {d}
  /\ Advance
  /\ UNCHANGED <<rows, listed, claims, fresh, satisfied, faults, cutOff, removed>>

PassOver(d) ==
  /\ Here("archive", d) /\ ~Discovered(d)
  /\ Advance
  /\ UNCHANGED <<rows, disk, claims, fresh, found, faults, cutOff, removed>>

\* Mutant: the manifest of an earlier run is replaced.
SaveBatchManifestAnew ==
  /\ LoopEnds("archive")
  /\ listed' = {Name[d] : d \in entries}
  /\ Goto("manifest")
  /\ UNCHANGED <<rows, staged, archive, claims, fresh, found, faults, cutOff, removed>>

\* What was moved is added to the manifest of the batch.
SaveBatchManifest ==
  /\ LoopEnds("archive")
  /\ listed' = listed \union {Name[d] : d \in entries}
  /\ Goto("manifest")
  /\ UNCHANGED <<rows, staged, archive, claims, fresh, found, faults, cutOff, removed>>

\* Then the manifest of the run is written, and its counts are reported.
SaveRunManifest ==
  /\ phase = "manifest" /\ Goto("settle")
  /\ UNCHANGED <<rows, disk, claims, fresh, found, faults, cutOff, removed>>

\* The finalizer raises, before, between or after its moves, or at a manifest: the
\* claims fail.
FinalizerRaises ==
  /\ phase \in {"archive", "manifest"} /\ Fault
  /\ file' = [d \in Documents |-> IF d \in claims THEN "waiting" ELSE file[d]]
  /\ reauth' = reauth \ claims
  /\ cutOff' = cutOff \union Forgotten
  /\ Leave
  /\ UNCHANGED <<window, queued, artifact, disk, removed>>

-----------------------------------------------------------------------------
(* The claims are settled by what the finalizer reports.                   *)

Settles(d) == Here("settle", d) /\ d \in claims
Settle(d, state) == Outcome(d, state) /\ claims' = claims \ {d}

\* record_artifact, complete_stage, ensure_stage: three transactions.
RecordArtifact(d) ==
  /\ Settles(d) /\ d \in entries /\ Archived(Name[d]) /\ ~artifact[d]
  /\ artifact' = [artifact EXCEPT ![d] = TRUE]
  /\ UNCHANGED <<window, file, reauth, queued, disk, loop, claims, fresh, found, faults, cutOff, removed>>

CompleteDownload(d) ==
  /\ Settles(d) /\ d \in entries /\ artifact[d]
  /\ Settle(d, "succeeded")
  /\ UNCHANGED <<window, queued, artifact, disk, loop, fresh, found, faults, cutOff, removed>>

\* The extraction of a report that has just been completed is put on record.
Completed(d) == Here("settle", d) /\ d \in entries /\ file[d] = "succeeded"

EnsureExtract(d) ==
  /\ Completed(d)
  /\ queued' = queued \union {d} /\ Advance
  /\ UNCHANGED <<window, file, reauth, artifact, disk, claims, fresh, found, faults, cutOff, removed>>

\* Credited to a file of the same content: no artifact, and nothing to extract.
CompleteCredited(d) ==
  /\ Settles(d) /\ d \notin entries /\ d \in satisfied
  /\ Settle(d, "succeeded") /\ Advance
  /\ UNCHANGED <<window, queued, artifact, disk, fresh, found, faults, cutOff, removed>>

\* The archived file is gone again.
ArtifactMissing(d) ==
  /\ Settles(d) /\ d \in entries /\ ~Archived(Name[d]) /\ ~artifact[d]
  /\ Settle(d, "refused") /\ Advance
  /\ UNCHANGED <<window, queued, artifact, disk, fresh, found, faults, cutOff, removed>>

\* Mutant: the error code is stored as the state.
NotReconciledRaw(d) ==
  /\ Settles(d) /\ d \notin entries /\ d \notin satisfied
  /\ Settle(d, "browser_download_unstable") /\ Advance
  /\ UNCHANGED <<window, queued, artifact, disk, fresh, found, faults, cutOff, removed>>

\* Not in the reconciliation: tried again.
NotReconciled(d) ==
  /\ Settles(d) /\ d \notin entries /\ d \notin satisfied
  /\ Settle(d, "waiting") /\ Advance
  /\ UNCHANGED <<window, queued, artifact, disk, fresh, found, faults, cutOff, removed>>

NotClaimed(d) ==
  /\ Here("settle", d) /\ d \notin claims /\ ~Completed(d) /\ Advance
  /\ UNCHANGED <<rows, disk, claims, fresh, found, faults, cutOff, removed>>

Reconciled ==
  /\ LoopEnds("settle") /\ Goto("close")
  /\ UNCHANGED <<rows, disk, claims, fresh, found, faults, cutOff, removed>>

\* Mutant: a refused candidate is not owed.
DebtsDue == {d \in Documents : file[d] \in {"due", "held", "waiting"}}

Debts == {d \in Documents : file[d] \notin {"none", "succeeded", "protected"}}

Close ==
  /\ phase = "close"
  /\ window' = CASE Debts = {} -> "succeeded"
                 [] Debts \intersect reauth # {} -> "blocked_auth"
                 [] OTHER -> "partial"
  /\ Leave
  /\ UNCHANGED <<file, reauth, queued, artifact, disk, faults, cutOff, removed>>

-----------------------------------------------------------------------------
(* Time, crashes, and a hand in the directories.                             *)

Elapse(d) ==
  /\ file[d] = "waiting" \/ (file[d] = "held" /\ d \notin claims)
  /\ file' = [file EXCEPT ![d] = "due"]
  /\ UNCHANGED <<unusable, window, reauth, queued, artifact, disk, loop, claims, fresh, found, faults, cutOff, removed>>

Crash ==
  /\ phase # "idle" /\ Fault
  /\ cutOff' = cutOff \union Forgotten
  /\ Leave
  /\ UNCHANGED <<rows, disk, removed>>

RemoveArchived(n) ==
  /\ Archived(n) /\ Fault
  /\ archive' = [archive EXCEPT ![n] = Nothing]
  /\ removed' = removed \union {n}
  /\ UNCHANGED <<rows, staged, listed, loop, claims, fresh, found, cutOff>>

ClearStaged(n) ==
  /\ staged[n] # Nothing /\ Fault
  /\ staged' = [staged EXCEPT ![n] = Nothing]
  /\ UNCHANGED <<rows, archive, listed, loop, claims, fresh, found, cutOff, removed>>

RunStep ==
  /\ \/ Scan \/ Downloaded \/ SaveBatchManifest \/ SaveRunManifest \/ Reconciled \/ Close
     \/ \E d \in Documents :
          \/ NotDue(d) \/ Collide(d) \/ Download(d) \/ RaiseUnusable(d)
          \/ CreditDuplicate(d) \/ MoveToArchive(d) \/ PassOver(d)
          \/ RecordArtifact(d) \/ CompleteDownload(d) \/ EnsureExtract(d)
          \/ CompleteCredited(d) \/ ArtifactMissing(d) \/ NotReconciled(d) \/ NotClaimed(d)
  /\ UNCHANGED unusable

Environment ==
  /\ \/ ScanBlocked \/ FinalizerRaises \/ Crash
     \/ \E d \in Documents : Refuse(d) \/ Raise(d) \/ Elapse(d)
     \/ \E n \in Names : RemoveArchived(n) \/ ClearStaged(n)
  /\ UNCHANGED unusable

Next == RunStep \/ Environment

Spec == Init /\ [][Next]_vars

\* Ticks come again and again and time passes; nothing has to go wrong.
FairSpec ==
  /\ Spec /\ WF_vars(RunStep)
  /\ \A d \in Documents : WF_vars(Elapse(d))

-----------------------------------------------------------------------------
\* What is on record as downloaded stands in the archive: an artifact is its
\* own file, with its own bytes and in the manifest; a stage that is done has
\* its bytes there, if only under the name of another document; and a text is
\* to be extracted only of an artifact.
SettledIsArchived == \A d \in Documents : removed = {} =>
  /\ artifact[d] => archive[Name[d]] = Bytes[d] /\ Name[d] \in listed
  /\ file[d] = "succeeded" => Bytes[d] \in Stored
  /\ d \in queued => artifact[d] /\ file[d] = "succeeded"

\* The archive holds no content twice, whatever runs were cut off between a
\* move and its manifest.
ArchivedOnce == \A m, n \in Names : Archived(m) /\ archive[m] = archive[n] => m = n

\* A range that counts as covered has no report that is neither archived,
\* protected, nor the namesake of another one.
CoveredIsArchived == window = "succeeded" /\ removed = {} =>
  \A d \in Documents : Bytes[d] \in Stored \/ file[d] = "protected" \/ Shadowed(d)

Settled(d) == file[d] \in {"succeeded", "protected"} \/ Shadowed(d)

\* A file that no run gets past also keeps those behind it.
Starved(d) == \E u \in unusable : u <= d

\* Every candidate is settled in the end, whatever refusals, daily limits and
\* lost logins delay it, if they end.  Four things undo it: the source answers a
\* scan with an error and its window is not listed any more, an unusable name
\* stands before the candidate or is its own, a run was cut off with a file in
\* its hands, or somebody emptied the archive.
EveryCandidateSettles ==
  \/ <>(window = "blocked" \/ cutOff # {} \/ removed # {})
  \/ \A d \in Documents : Starved(d) \/ <>Settled(d)

\* Also when a run was cut off: a downloaded PDF has a recovery path.  The code does
\* not keep it (AcquisitionCutOff.cfg).
CutOffDownloadsRecover ==
  \/ <>(window = "blocked" \/ removed # {})
  \/ \A d \in Documents : Starved(d) \/ <>Settled(d)
=============================================================================
