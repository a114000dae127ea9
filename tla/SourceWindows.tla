--------------------------- MODULE SourceWindows ----------------------------
(***************************************************************************)
(* Coverage of one source: the scheduler that persists a window for the    *)
(* slots that have come due (scheduler.py), the worker that decides what   *)
(* of a pending window to scan (worker._run_download_window), the download *)
(* run that scans, registers and downloads (download.DownloadPipeline.run) *)
(* and the tables source_windows, schedule_cursors and documents they      *)
(* share (state.py).                                                       *)
(*                                                                         *)
(* A window is a pair of instants.  The checkpoint is not stored: it is    *)
(* the latest end of the windows whose checkpoint_eligible flag is set.    *)
(* The flag is set exactly in the states "succeeded" and "legacy".         *)
(*                                                                         *)
(* What a scan returns is the environment's choice: any of the documents   *)
(* posted in the range (visibility and keywords change between scans).     *)
(* Every write is a transaction of its own; the worker may die between     *)
(* any two.  The runtime lock admits one worker at a time, and the clock   *)
(* is read by the scheduler only, so time is let pass between ticks.       *)
(***************************************************************************)
EXTENDS Integers, FiniteSets

CONSTANTS
  Documents,    \* candidates the source may show
  Posted,       \* instant each was posted
  Slots,        \* configured schedule slots
  Lookback,     \* max_catchup_seconds
  Imported,     \* TRUE: the cutover imported a legacy window
  LastInstant   \* bound on the clock

Instants == 0 .. LastInstant

ASSUME BoundIsInstant  == LastInstant \in Nat /\ LastInstant >= 1
ASSUME PostedAtInstant == Posted \in [Documents -> Instants]
ASSUME SlotsAreInstants == Slots \subseteq Instants
ASSUME LookbackIsSpan  == Lookback \in Nat /\ Imported \in BOOLEAN

Windows == {w \in Instants \X Instants : w[1] <= w[2]}
Start(w) == w[1]
End(w)   == w[2]

NoWindow == <<-1, -1>>
Never    == -1

VARIABLES
  now,      \* the clock
  cursor,   \* schedule_cursors: the last slot enqueued
  status,   \* source_windows: status; "none": no such row
  home,     \* documents: source_window_id
  file,     \* stage_attempts: the DOWNLOAD stage of each document
  code,     \* and its error_code, as far as it is looked at
  covered,  \* unit spans [t, t+1] scanned with all candidates registered
  phase,    \* where the worker is; "idle": none holds the runtime lock
  todo,     \* pending windows of this tick not yet taken
  row,      \* the pending window in hand
  request,  \* the range the download run works on
  plan,     \* candidates of the scan plan not yet registered
  left,     \* candidates not yet attempted
  claims    \* documents whose stage lease the run holds

rows   == <<status, home, file, code>>
worker == <<phase, todo, row, request, plan, left, claims>>
vars   == <<now, cursor, rows, covered, worker>>

Statuses == {"none", "scheduled", "running", "partial", "blocked_auth",
             "blocked", "succeeded", "legacy"}
\* "held": running; "waiting": retry_wait before its time; "due": claimable;
\* "refused": blocked_release; "protected": quarantined with
\* source_content_protected.
Files  == {"none", "due", "held", "waiting", "refused", "protected", "succeeded"}
Codes  == {"need_reauth", "manual_retry", "other"}
Phases == {"idle", "windows", "scan", "register", "download", "settle", "close"}

TypeOK ==
  /\ now \in Instants
  /\ cursor \in Slots \union {Never}
  /\ status \in [Windows -> Statuses]
  /\ home \in [Documents -> Windows \union {NoWindow}]
  /\ file \in [Documents -> Files]
  /\ code \in [Documents -> Codes]
  /\ covered \in SUBSET Instants
  /\ phase \in Phases
  /\ todo \in SUBSET Windows
  /\ row \in Windows \union {NoWindow}
  /\ request \in Windows \union {NoWindow}
  /\ plan \in SUBSET Documents
  /\ left \in SUBSET Documents
  /\ claims \in SUBSET Documents

LegacyWindow == <<0, 1>>

Init ==
  /\ now = 1
  /\ cursor = Never
  /\ status = [w \in Windows |->
                 IF Imported /\ w = LegacyWindow THEN "legacy" ELSE "none"]
  /\ home = [d \in Documents |-> NoWindow]
  /\ file = [d \in Documents |-> "none"]
  /\ code = [d \in Documents |-> "other"]
  /\ covered = IF Imported THEN {0} ELSE {}
  /\ phase = "idle"
  /\ todo = {}
  /\ row = NoWindow
  /\ request = NoWindow
  /\ plan = {}
  /\ left = {}
  /\ claims = {}

-----------------------------------------------------------------------------
(* What the tables say *)

Rows     == {w \in Windows : status[w] # "none"}
Eligible == {w \in Windows : status[w] \in {"succeeded", "legacy"}}

\* latest_source_checkpoint, or Never.
Checkpoint ==
  IF Eligible = {} THEN Never
  ELSE CHOOSE t \in {End(w) : w \in Eligible} : \A w \in Eligible : End(w) <= t

\* The statuses a tick takes up again.
Pending == {w \in Windows :
              status[w] \in {"scheduled", "blocked_auth", "partial", "running"}}

\* list_window_download_debts: a candidate is owed until it is downloaded or
\* known to be protected.
Debts(w) == {d \in Documents : home[d] = w /\ file[d] \notin {"succeeded", "protected"}}

-----------------------------------------------------------------------------
(* The scheduler *)

\* Mutated form: a catch-up starts where the last slot was enqueued.
WindowStartAtCursor(at) ==
  IF cursor # Never THEN cursor
  ELSE IF Checkpoint # Never THEN Checkpoint
  ELSE IF at < Lookback THEN 0 ELSE at - Lookback

\* _window_start: resume at the checkpoint; without one, look back.
WindowStart(at) ==
  IF Checkpoint # Never THEN Checkpoint
  ELSE IF at < Lookback THEN 0 ELSE at - Lookback

DueSlots(at) ==
  LET lower == IF cursor # Never THEN cursor ELSE WindowStart(at)
  IN  {s \in Slots : lower < s /\ s <= at}

\* enqueue_due_windows: one coalesced window for all the due slots, in one
\* transaction with the cursor.  schedule_source_window keeps the status of a
\* row that has been worked on.
EnqueueDueWindows ==
  /\ phase = "idle"
  /\ DueSlots(now) # {}
  /\ LET w == <<WindowStart(now), now>>
     IN  status' = [status EXCEPT ![w] =
           IF @ \in {"succeeded", "partial", "blocked", "running"} THEN @ ELSE "scheduled"]
  /\ cursor' = CHOOSE s \in DueSlots(now) : \A t \in DueSlots(now) : t <= s
  /\ UNCHANGED <<now, home, file, code, covered, worker>>

-----------------------------------------------------------------------------
(* The worker *)

\* Mutated form: the status argument is forgotten.
RegisterPlanned(w, s) == status' = [status EXCEPT ![w] = "planned"]
Register(w, s) == status' = [status EXCEPT ![w] = s]

ListWindows ==
  /\ phase = "idle"
  /\ Pending # {}
  /\ phase' = "windows"
  /\ todo' = Pending
  /\ UNCHANGED <<now, cursor, rows, covered, row, request, plan, left, claims>>

\* ORDER BY window_end_epoch, id.  Of two windows with one end the narrower is
\* the suffix an earlier attempt registered, so it has the larger id.
IsNext(w) ==
  /\ w \in todo
  /\ \A v \in todo : End(w) < End(v) \/ (End(w) = End(v) /\ Start(w) <= Start(v))

\* Mutated form: the debts of a covered window are not looked at.
CoveredByEnd(w) == Checkpoint >= End(w)
Covered(w) == Debts(w) = {} /\ Checkpoint >= End(w)

\* Nothing is owed and the checkpoint has passed: the row is closed unscanned.
SettleCovered(w) ==
  /\ phase = "windows" /\ IsNext(w)
  /\ Covered(w)
  /\ Register(w, "succeeded")
  /\ todo' = todo \ {w}
  /\ UNCHANGED <<now, cursor, home, file, code, covered, phase, row, request, plan, left, claims>>

\* A window that owes nothing is narrowed to what the checkpoint leaves.
TakeWindow(w) ==
  /\ phase = "windows" /\ IsNext(w)
  /\ ~Covered(w)
  /\ todo' = todo \ {w}
  /\ row' = w
  /\ request' = IF Debts(w) = {} /\ Checkpoint > Start(w) THEN <<Checkpoint, End(w)>> ELSE w
  /\ phase' = "scan"
  /\ UNCHANGED <<now, cursor, rows, covered, plan, left, claims>>

\* The tick ends: all taken, the quota or the time used up.
Idle ==
  /\ phase' = "idle"
  /\ todo' = {} /\ plan' = {} /\ left' = {} /\ claims' = {}
  /\ row' = NoWindow /\ request' = NoWindow

EndTick ==
  /\ phase = "windows"
  /\ Idle
  /\ UNCHANGED <<now, cursor, rows, covered>>

\* The next window; after a login failure the other windows of the source are
\* passed over for this tick.
Proceed(needsLogin) ==
  /\ phase' = "windows"
  /\ todo' = IF needsLogin THEN {} ELSE todo
  /\ row' = NoWindow /\ request' = NoWindow
  /\ plan' = {} /\ left' = {} /\ claims' = {}

-----------------------------------------------------------------------------
(* The download run *)

\* No browser session, or an exception on the way: the run records nothing
\* more, its window stays as it is and its claims are left to expire.
RunFails ==
  /\ phase \in {"scan", "register", "download", "settle"}
  /\ \E needsLogin \in BOOLEAN : Proceed(needsLogin)
  /\ UNCHANGED <<now, cursor, rows, covered>>

\* The scanner reports a blocked_reason.
ScanBlocked ==
  /\ phase = "scan"
  /\ \E needsLogin \in BOOLEAN :
       /\ Register(request, IF needsLogin THEN "blocked_auth" ELSE "blocked")
       /\ Proceed(needsLogin)
  /\ UNCHANGED <<now, cursor, home, file, code, covered>>

InRange(d) == Start(request) <= Posted[d] /\ Posted[d] <= End(request)

ScanPlan ==
  /\ phase = "scan"
  /\ \E found \in SUBSET {d \in Documents : InRange(d)} : plan' = found /\ left' = found
  /\ Register(request, "running")
  /\ phase' = "register"
  /\ UNCHANGED <<now, cursor, home, file, code, covered, todo, row, request, claims>>

\* upsert_document moves the document to the window it was seen in.
Upsert(d) == home' = [home EXCEPT ![d] = request]

\* _record_plan_documents, one document: upsert_document, ensure_stage.
RecordDocument(d) ==
  /\ phase = "register" /\ d \in plan
  /\ Upsert(d)
  /\ file' = [file EXCEPT ![d] = IF @ = "none" THEN "due" ELSE @]
  /\ plan' = plan \ {d}
  /\ UNCHANGED <<now, cursor, status, code, covered, phase, todo, row, request, left, claims>>

\* The worker dies between the two.
DieRecording(d) ==
  /\ phase = "register" /\ d \in plan
  /\ Upsert(d)
  /\ Idle
  /\ UNCHANGED <<now, cursor, status, file, code, covered>>

PlanRecorded ==
  /\ phase = "register" /\ plan = {}
  /\ phase' = "download"
  /\ covered' = covered \union (Start(request) .. (End(request) - 1))
  /\ UNCHANGED <<now, cursor, rows, todo, row, request, plan, left, claims>>

\* claim_due_stage and a browser download that is not refused.
DownloadCandidate(d) ==
  /\ phase = "download" /\ d \in left /\ file[d] = "due"
  /\ file' = [file EXCEPT ![d] = "held"]
  /\ claims' = claims \union {d}
  /\ left' = left \ {d}
  /\ UNCHANGED <<now, cursor, status, home, code, covered, phase, todo, row, request, plan>>

\* The claim, and a download the site refuses: protected, a contract failure,
\* transient, the daily limit, or the login.  The last two end the loop.
CandidateBlocked(d) ==
  /\ phase = "download" /\ d \in left /\ file[d] = "due"
  /\ \/ /\ \E f \in {"protected", "refused", "waiting"} : file' = [file EXCEPT ![d] = f]
        /\ code' = [code EXCEPT ![d] = "other"]
        /\ left' = left \ {d}
     \/ /\ file' = [file EXCEPT ![d] = "waiting"]
        /\ \E c \in {"other", "need_reauth"} : code' = [code EXCEPT ![d] = c]
        /\ left' = {}
  /\ UNCHANGED <<now, cursor, status, home, covered, phase, todo, row, request, plan, claims>>

\* Nothing to claim: downloaded before, or not due.  A stage that waits for
\* the login ends the loop.
CandidateNotDue(d) ==
  /\ phase = "download" /\ d \in left /\ file[d] # "due"
  /\ left' = IF code[d] = "need_reauth" /\ file[d] # "succeeded" THEN {} ELSE left \ {d}
  /\ UNCHANGED <<now, cursor, rows, covered, phase, todo, row, request, plan, claims>>

\* The finalizer raises: the claims fail, the window stays running.
FinalizerFails ==
  /\ phase = "download" /\ left = {} /\ claims # {}
  /\ file' = [d \in Documents |-> IF d \in claims THEN "waiting" ELSE file[d]]
  /\ code' = [d \in Documents |-> IF d \in claims THEN "other" ELSE code[d]]
  /\ Proceed(FALSE)
  /\ UNCHANGED <<now, cursor, status, home, covered>>

Finalized ==
  /\ phase = "download" /\ left = {}
  /\ phase' = "settle"
  /\ UNCHANGED <<now, cursor, rows, covered, todo, row, request, plan, left, claims>>

\* Reconciliation with the manifest: archived or satisfied, artifact missing,
\* or not in it.
SettleCandidate(d) ==
  /\ phase = "settle" /\ d \in claims
  /\ \E f \in {"succeeded", "refused", "waiting"} : file' = [file EXCEPT ![d] = f]
  /\ code' = [code EXCEPT ![d] = "other"]
  /\ claims' = claims \ {d}
  /\ UNCHANGED <<now, cursor, status, home, covered, phase, todo, row, request, plan, left>>

\* Everything missing in this run is among the debts of its window.
CloseRequest ==
  /\ phase = "settle" /\ claims = {}
  /\ LET owed == Debts(request)
         needsLogin == \E d \in owed : code[d] = "need_reauth"
     IN  IF owed = {}
         THEN /\ Register(request, "succeeded")
              /\ phase' = "close"
              /\ UNCHANGED <<todo, row, request, plan, left, claims>>
         ELSE /\ Register(request, IF needsLogin THEN "blocked_auth" ELSE "partial")
              /\ Proceed(needsLogin)
  /\ UNCHANGED <<now, cursor, home, file, code, covered>>

\* _run_download_window closes the scheduled row of a suffix that succeeded.
CloseRow ==
  /\ phase = "close"
  /\ Register(row, "succeeded")
  /\ Proceed(FALSE)
  /\ UNCHANGED <<now, cursor, home, file, code, covered>>

-----------------------------------------------------------------------------
(* The environment *)

Crash ==
  /\ phase # "idle"
  /\ Idle
  /\ UNCHANGED <<now, cursor, rows, covered>>

AdvanceClock ==
  /\ phase = "idle" /\ now < LastInstant
  /\ now' = now + 1
  /\ UNCHANGED <<cursor, rows, covered, worker>>

\* A retry time comes, or the lease of a dead worker ends.
Ripen(d) ==
  /\ file[d] \in {"waiting", "held"} /\ d \notin claims
  /\ file' = [file EXCEPT ![d] = "due"]
  /\ UNCHANGED <<now, cursor, status, home, code, covered, worker>>

\* apply_stage_retry_plan: an operator releases a stopped download.
ApplyRetryPlan(d) ==
  /\ file[d] \in {"refused", "protected"}
  /\ file' = [file EXCEPT ![d] = "due"]
  /\ code' = [code EXCEPT ![d] = "manual_retry"]
  /\ UNCHANGED <<now, cursor, status, home, covered, worker>>

Next ==
  \/ EnqueueDueWindows \/ ListWindows \/ EndTick
  \/ \E w \in Windows : SettleCovered(w) \/ TakeWindow(w)
  \/ RunFails \/ ScanBlocked \/ ScanPlan \/ PlanRecorded
  \/ \E d \in Documents :
       \/ RecordDocument(d) \/ DieRecording(d)
       \/ DownloadCandidate(d) \/ CandidateBlocked(d) \/ CandidateNotDue(d)
       \/ SettleCandidate(d) \/ Ripen(d) \/ ApplyRetryPlan(d)
  \/ FinalizerFails \/ Finalized \/ CloseRequest \/ CloseRow
  \/ Crash \/ AdvanceClock

Spec == Init /\ [][Next]_vars

-----------------------------------------------------------------------------
(* Properties *)

\* Whatever the checkpoint claims was really scanned, with every candidate
\* found put on record: from the first window on, no instant before the
\* checkpoint was skipped, by whatever mixture of blocked, interrupted,
\* narrowed and coalesced windows it was reached.
CheckpointIsCoverage ==
  \A t \in Instants :
    (t < Checkpoint /\ \E w \in Rows : Start(w) <= t) => t \in covered

\* A window is closed, scanned or not, only when every candidate registered
\* in it has been downloaded or is known to be protected, but for those an
\* operator has just released for another try.
ClosedWhenSettled ==
  [][\A w \in Windows : w \in Eligible' \ Eligible =>
       \A d \in Debts(w)' : code'[d] = "manual_retry"]_vars

\* A candidate on record is looked for again: once the checkpoint has passed
\* its window no new window will rescan it, so its own must still be pending.
\* (Those an operator released are left out.)  The code does not keep it
\* (SourceOwed.cfg).
OwedIsRevisited ==
  \A w \in Windows :
    (End(w) <= Checkpoint /\ \E d \in Debts(w) : code[d] # "manual_retry")
       => w \in Pending
=============================================================================
