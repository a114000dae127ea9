------------------------ MODULE SourceWindowsProofs -------------------------
(***************************************************************************)
(* Proofs about SourceWindows for any documents, schedule, lookback and    *)
(* clock: what the checkpoint claims was scanned, and a window is closed   *)
(* only when nothing is owed in it.                                        *)
(***************************************************************************)
EXTENDS SourceWindows, WellFoundedInduction, TLAPS

\* The phases of a download run, and those in which its scan is on record.
Working    == {"scan", "register", "download", "settle", "close"}
Registered == {"download", "settle", "close"}

\* Everything before instant t was scanned.
Reached(t) == \A i \in Instants : i < t => i \in covered

(***************************************************************************)
(* The inductive invariant.  A run works on a window, or on the end of it  *)
(* that the checkpoint leaves (RunFits); the candidates it has registered  *)
(* are at home in that range, and a window it does not scan whole owes     *)
(* nothing (DebtsFit).  A window begins where everything before it was     *)
(* scanned, an eligible one ends there as well (WindowsFit), and so does   *)
(* the range of a run once its candidates are on record (RequestFits).     *)
(***************************************************************************)
RunFits == phase \in Working =>
  row \in Windows /\ request \in Windows /\ End(request) = End(row)

DebtsFit ==
  /\ phase \in {"idle", "windows", "scan", "register"} => claims = {}
  /\ phase \in {"download", "settle"} => plan = {}
  /\ phase \in {"register", "download", "settle"} =>
       \A d \in (left \ plan) \union claims : home[d] = request
  /\ phase \in Working /\ row # request => \A d \in Debts(row) : code[d] = "manual_retry"
  /\ phase = "close" => \A d \in Debts(request) : code[d] = "manual_retry"

WindowsFit ==
  /\ \A w \in Rows : Reached(Start(w))
  /\ \A w \in Eligible : Reached(End(w))
  /\ status[LegacyWindow] = "legacy"

RequestFits ==
  /\ todo \subseteq Rows \ {LegacyWindow}
  /\ phase \in Working =>
       /\ row \in Rows /\ LegacyWindow \notin {row, request} /\ Reached(Start(request))
       /\ phase \in Registered => Reached(End(request))

CoverageFits == Imported => WindowsFit /\ RequestFits

IInv == TypeOK /\ RunFits /\ DebtsFit /\ CoverageFits

-----------------------------------------------------------------------------
(* Instants and windows.                                                   *)

\* The clock counts from zero.
LEMMA InstantsAreNat == Instants \subseteq Nat /\ 0 \in Instants /\ 1 \in Instants
BY BoundIsInstant DEF Instants

Less == {p \in Nat \X Nat : p[1] < p[2]}

\* A set of instants that is not empty has a latest one.
LEMMA LatestExists ==
  ASSUME NEW T \in SUBSET Instants, T # {}
  PROVE  \E m \in T : \A t \in T : t <= m
<1> DEFINE Distance == {LastInstant - t : t \in T}
<1>1. \A t \in T : t \in Nat /\ t <= LastInstant /\ LastInstant - t \in Nat
  BY BoundIsInstant DEF Instants
<1>2. Distance \subseteq Nat /\ Distance # {}
  BY <1>1
<1>3. IsWellFoundedOn(Less, Nat)
  BY NatLessThanWellFounded DEF OpToRel, Less
<1>4. PICK x \in Distance : \A y \in Distance : <<y, x>> \notin Less
  <2> HIDE DEF Distance
  <2> QED BY <1>2, <1>3, WFMin
<1>5. \A y \in Distance : ~(y < x)
  BY <1>2, <1>4 DEF Less
<1>6. PICK m \in T : x = LastInstant - m
  BY <1>4
<1>7. ASSUME NEW t \in T PROVE t <= m
  <2>1. ~(LastInstant - t < LastInstant - m)
    BY <1>5, <1>6
  <2> QED BY <1>1, <2>1, BoundIsInstant
<1> QED BY <1>7

\* A window lies between two instants.
LEMMA WindowIs ==
  ASSUME NEW w \in Windows
  PROVE  Start(w) \in Instants /\ End(w) \in Instants /\ Start(w) <= End(w)
BY DEF Windows, Start, End

\* Two instants in order make a window.
LEMMA PairIs ==
  ASSUME NEW a, NEW b
  PROVE  /\ Start(<<a, b>>) = a /\ End(<<a, b>>) = b
         /\ a \in Instants /\ b \in Instants /\ a <= b => <<a, b>> \in Windows
BY DEF Windows, Start, End

\* The window a cutover imports.
LEMMA LegacyIs == LegacyWindow \in Windows /\ Start(LegacyWindow) = 0 /\ End(LegacyWindow) = 1
BY InstantsAreNat, PairIs DEF LegacyWindow

\* The checkpoint is the latest end of the eligible windows, if there are any.
LEMMA CheckpointIs ==
  ASSUME TypeOK
  PROVE  /\ Checkpoint \in Instants \union {Never}
         /\ \A w \in Eligible : End(w) <= Checkpoint
         /\ Checkpoint # Never => \E w \in Eligible : End(w) = Checkpoint
<1>1. CASE Eligible = {}
  BY <1>1 DEF Checkpoint
<1>2. CASE Eligible # {}
  <2> DEFINE T == {End(w) : w \in Eligible}
  <2>1. T \in SUBSET Instants /\ T # {}
    BY <1>2, WindowIs DEF Eligible
  <2>2. \E t \in T : \A w \in Eligible : End(w) <= t
    BY <2>1, LatestExists
  <2>3. Checkpoint = CHOOSE t \in T : \A w \in Eligible : End(w) <= t
    BY <1>2 DEF Checkpoint
  <2>4. Checkpoint \in T /\ \A w \in Eligible : End(w) <= Checkpoint
    BY <2>2, <2>3
  <2> QED BY <2>1, <2>4
<1> QED BY <1>1, <1>2

\* What was scanned stays scanned.
LEMMA ReachedKeeps ==
  ASSUME covered \subseteq covered', NEW t, Reached(t)
  PROVE  Reached(t)'
BY DEF Reached

\* After an import the checkpoint is past the imported window, and everything
\* before it was scanned.
LEMMA CheckpointReached ==
  ASSUME IInv, Imported
  PROVE  Checkpoint \in Instants /\ Checkpoint >= 1 /\ Reached(Checkpoint)
<1>1. WindowsFit /\ TypeOK
  BY DEF IInv, CoverageFits
<1>2. LegacyWindow \in Eligible
  BY <1>1, LegacyIs DEF WindowsFit, Eligible
<1>3. Checkpoint >= 1
  BY <1>1, <1>2, CheckpointIs, LegacyIs
<1>4. Checkpoint # Never
  BY <1>3 DEF Never
<1>5. PICK w \in Eligible : End(w) = Checkpoint
  BY <1>1, <1>4, CheckpointIs
<1>6. Reached(Checkpoint)
  BY <1>1, <1>5 DEF WindowsFit
<1> QED BY <1>1, <1>3, <1>4, <1>6, CheckpointIs

-----------------------------------------------------------------------------
(* Every step keeps the types.                                             *)

\* A run works on no window any more.
LEMMA RestTypes ==
  ASSUME TypeOK, Idle \/ (\E b \in BOOLEAN : Proceed(b))
  PROVE  /\ phase' \in {"idle", "windows"} /\ todo' \in SUBSET Windows /\ claims' = {}
         /\ todo' \subseteq todo
         /\ row' = NoWindow /\ request' = NoWindow /\ plan' = {} /\ left' = {}
BY DEF Idle, Proceed, TypeOK

\* The scheduler and the clock.
LEMMA SchedulerTypes ==
  ASSUME TypeOK, EnqueueDueWindows \/ AdvanceClock
  PROVE  TypeOK'
<1>1. CASE EnqueueDueWindows
  <2>1. DueSlots(now) \subseteq Slots /\ DueSlots(now) \in SUBSET Instants /\ DueSlots(now) # {}
    BY <1>1, SlotsAreInstants DEF EnqueueDueWindows, DueSlots
  <2>2. \E s \in DueSlots(now) : \A t \in DueSlots(now) : t <= s
    BY <2>1, LatestExists
  <2>3. cursor' \in Slots
    BY <1>1, <2>1, <2>2 DEF EnqueueDueWindows
  <2>4. status' \in [Windows -> Statuses]
    BY <1>1 DEF EnqueueDueWindows, TypeOK, Statuses
  <2> QED BY <1>1, <2>3, <2>4 DEF EnqueueDueWindows, TypeOK, worker
<1>2. CASE AdvanceClock
  BY <1>2, BoundIsInstant DEF AdvanceClock, TypeOK, rows, worker, Instants
<1> QED BY <1>1, <1>2

\* The worker between two runs, and a run that ends early.
LEMMA WindowTypes ==
  ASSUME IInv, NEW w \in Windows,
         \/ ListWindows \/ EndTick \/ SettleCovered(w) \/ TakeWindow(w)
         \/ RunFails \/ ScanBlocked \/ CloseRow \/ Crash
  PROVE  TypeOK'
<1>0. TypeOK
  BY DEF IInv
<1>1. CASE ListWindows
  BY <1>0, <1>1 DEF ListWindows, Pending, TypeOK, rows, Phases
<1>2. CASE EndTick \/ RunFails \/ Crash
  <2>1. Idle \/ (\E b \in BOOLEAN : Proceed(b))
    BY <1>2 DEF EndTick, RunFails, Crash
  <2> QED BY <1>0, <1>2, <2>1, RestTypes DEF EndTick, RunFails, Crash, TypeOK, rows, Phases
<1>3. CASE SettleCovered(w)
  BY <1>0, <1>3 DEF SettleCovered, Register, TypeOK, Statuses
<1>4. CASE TakeWindow(w)
  <2>1. CASE Debts(w) = {} /\ Checkpoint > Start(w)
    <3>1. Start(w) \in Instants /\ End(w) \in Instants
      BY WindowIs
    <3>2. Checkpoint \in Instants /\ Checkpoint <= End(w)
      <4>1. Checkpoint \in Instants \union {-1}
        BY <1>0, CheckpointIs DEF Never
      <4>2. Checkpoint > Start(w) /\ ~(Checkpoint >= End(w))
        BY <1>4, <2>1 DEF TakeWindow, Covered
      <4> HIDE DEF Checkpoint
      <4> QED BY <3>1, <4>1, <4>2, BoundIsInstant DEF Instants
    <3>3. request' \in Windows
      BY <1>4, <2>1, <3>1, <3>2, PairIs DEF TakeWindow
    <3> QED BY <1>0, <1>4, <3>3 DEF TakeWindow, TypeOK, rows, Phases
  <2>2. CASE ~(Debts(w) = {} /\ Checkpoint > Start(w))
    BY <1>0, <1>4, <2>2 DEF TakeWindow, TypeOK, rows, Phases
  <2> QED BY <2>1, <2>2
<1>5. CASE ScanBlocked
  <2>1. PICK b \in BOOLEAN : Register(request, IF b THEN "blocked_auth" ELSE "blocked") /\ Proceed(b)
    BY <1>5 DEF ScanBlocked
  <2>2. status' \in [Windows -> Statuses]
    BY <1>0, <2>1 DEF Register, TypeOK, Statuses
  <2> QED BY <1>0, <1>5, <2>1, <2>2, RestTypes DEF ScanBlocked, TypeOK, Phases
<1>6. CASE CloseRow
  <2>1. Register(row, "succeeded") /\ Proceed(FALSE)
    BY <1>6 DEF CloseRow
  <2>2. status' \in [Windows -> Statuses]
    BY <1>0, <2>1 DEF Register, TypeOK, Statuses
  <2> QED BY <1>0, <1>6, <2>1, <2>2, RestTypes DEF CloseRow, TypeOK, Phases
<1> QED BY <1>1, <1>2, <1>3, <1>4, <1>5, <1>6

\* The steps of a run.
LEMMA RunTypes ==
  ASSUME IInv, ScanPlan \/ PlanRecorded \/ FinalizerFails \/ Finalized \/ CloseRequest
  PROVE  TypeOK'
<1>0. TypeOK
  BY DEF IInv
<1>1. CASE ScanPlan
  <2>1. PICK found \in SUBSET {d \in Documents : InRange(d)} : plan' = found /\ left' = found
    BY <1>1 DEF ScanPlan
  <2>2. status' \in [Windows -> Statuses]
    BY <1>0, <1>1 DEF ScanPlan, Register, TypeOK, Statuses
  <2> QED BY <1>0, <1>1, <2>1, <2>2 DEF ScanPlan, TypeOK, Phases
<1>2. CASE PlanRecorded
  <2>1. request \in Windows
    BY <1>2 DEF PlanRecorded, IInv, RunFits, Working
  <2>2. Start(request) .. (End(request) - 1) \subseteq Instants
    BY <2>1, WindowIs, BoundIsInstant DEF Instants
  <2> QED BY <1>0, <1>2, <2>2 DEF PlanRecorded, TypeOK, rows, Phases
<1>3. CASE FinalizerFails
  <2>1. file' \in [Documents -> Files] /\ code' \in [Documents -> Codes]
    BY <1>0, <1>3 DEF FinalizerFails, TypeOK, Files, Codes
  <2>2. \E b \in BOOLEAN : Proceed(b)
    BY <1>3 DEF FinalizerFails
  <2> QED BY <1>0, <1>3, <2>1, <2>2, RestTypes DEF FinalizerFails, TypeOK, Phases
<1>4. CASE Finalized
  BY <1>0, <1>4 DEF Finalized, TypeOK, rows, Phases
<1>5. CASE CloseRequest
  <2>1. status' \in [Windows -> Statuses]
    BY <1>0, <1>5 DEF CloseRequest, Register, TypeOK, Statuses
  <2>2. CASE Debts(request) = {}
    BY <1>0, <1>5, <2>1, <2>2 DEF CloseRequest, TypeOK, Phases
  <2>3. CASE Debts(request) # {}
    <3>1. \E b \in BOOLEAN : Proceed(b)
      BY <1>5, <2>3 DEF CloseRequest
    <3> QED BY <1>0, <1>5, <2>1, <3>1, RestTypes DEF CloseRequest, TypeOK, Phases
  <2> QED BY <2>2, <2>3
<1> QED BY <1>1, <1>2, <1>3, <1>4, <1>5

\* The steps of a run on one document, and what happens to it besides.
LEMMA DocumentTypes ==
  ASSUME TypeOK, NEW d \in Documents,
         \/ RecordDocument(d) \/ DieRecording(d) \/ DownloadCandidate(d) \/ CandidateBlocked(d)
         \/ CandidateNotDue(d) \/ SettleCandidate(d) \/ Ripen(d) \/ ApplyRetryPlan(d)
  PROVE  TypeOK'
<1>1. CASE RecordDocument(d)
  <2>1. home' \in [Documents -> Windows \union {NoWindow}] /\ file' \in [Documents -> Files]
    BY <1>1 DEF RecordDocument, Upsert, TypeOK, Files
  <2> QED BY <1>1, <2>1 DEF RecordDocument, TypeOK
<1>2. CASE DieRecording(d)
  <2>1. home' \in [Documents -> Windows \union {NoWindow}]
    BY <1>2 DEF DieRecording, Upsert, TypeOK
  <2> QED BY <1>2, <2>1, RestTypes DEF DieRecording, TypeOK, Phases
<1>3. CASE DownloadCandidate(d)
  <2>1. file' \in [Documents -> Files]
    BY <1>3 DEF DownloadCandidate, TypeOK, Files
  <2> QED BY <1>3, <2>1 DEF DownloadCandidate, TypeOK
<1>4. CASE CandidateBlocked(d)
  <2>1. file' \in [Documents -> Files] /\ code' \in [Documents -> Codes] /\ left' \in SUBSET Documents
    BY <1>4 DEF CandidateBlocked, TypeOK, Files, Codes
  <2> QED BY <1>4, <2>1 DEF CandidateBlocked, TypeOK
<1>5. CASE CandidateNotDue(d)
  BY <1>5 DEF CandidateNotDue, TypeOK, rows
<1>6. CASE SettleCandidate(d)
  <2>1. file' \in [Documents -> Files] /\ code' \in [Documents -> Codes]
    BY <1>6 DEF SettleCandidate, TypeOK, Files, Codes
  <2> QED BY <1>6, <2>1 DEF SettleCandidate, TypeOK
<1>7. CASE Ripen(d)
  <2>1. file' \in [Documents -> Files]
    BY <1>7 DEF Ripen, TypeOK, Files
  <2> QED BY <1>7, <2>1 DEF Ripen, TypeOK, worker
<1>8. CASE ApplyRetryPlan(d)
  <2>1. file' \in [Documents -> Files] /\ code' \in [Documents -> Codes]
    BY <1>8 DEF ApplyRetryPlan, TypeOK, Files, Codes
  <2> QED BY <1>8, <2>1 DEF ApplyRetryPlan, TypeOK, worker
<1> QED BY <1>1, <1>2, <1>3, <1>4, <1>5, <1>6, <1>7, <1>8

-----------------------------------------------------------------------------
(* Every step keeps what a run knows of its windows and its documents.     *)

\* Outside a run there is nothing to know.
LEMMA AtRest ==
  ASSUME phase' \in {"idle", "windows"}, claims' = {}
  PROVE  RunFits' /\ DebtsFit'
BY DEF RunFits, DebtsFit, Working

\* A document in hand is at home in the range of the run.
LEMMA InHand ==
  ASSUME IInv, phase \in {"download", "settle"}, NEW d \in left \union claims
  PROVE  home[d] = request
BY DEF IInv, DebtsFit

\* Steps that leave the worker where it is.
LEMMA BesidesKeep ==
  ASSUME IInv, UNCHANGED <<home, worker>>,
         \A d \in Documents :
           /\ file'[d] = file[d] \/ file[d] \notin {"succeeded", "protected"} \/ code'[d] = "manual_retry"
           /\ code'[d] = code[d] \/ code'[d] = "manual_retry"
  PROVE  RunFits' /\ DebtsFit'
<1>1. \A w : \A d \in Debts(w)' : d \in Debts(w) \/ code'[d] = "manual_retry"
  BY DEF Debts
<1>2. \A w : (\A d \in Debts(w) : code[d] = "manual_retry")
               => \A d \in Debts(w)' : code'[d] = "manual_retry"
  BY <1>1 DEF Debts
<1> QED BY <1>2 DEF IInv, RunFits, DebtsFit, worker

\* Steps of a run that touch documents of its own range only.
LEMMA OwnDocumentsKeep ==
  ASSUME IInv, phase \in {"register", "download", "settle"},
         phase' \in {"register", "download", "settle"}, UNCHANGED <<row, request>>,
         phase' # "register" => plan' = {},
         phase' = "register" => claims' = {},
         \A d \in (left' \ plan') \union claims' : home'[d] = request,
         \A d \in Documents : \/ home'[d] = request
                              \/ home'[d] = home[d] /\ file'[d] = file[d] /\ code'[d] = code[d]
  PROVE  RunFits' /\ DebtsFit'
<1>1. phase \in Working /\ phase' \in Working /\ phase' # "close"
  BY DEF Working
<1>2. RunFits'
  BY <1>1 DEF IInv, RunFits
<1>3. row # request => \A d \in Debts(row)' : d \in Debts(row) /\ code'[d] = code[d]
  BY DEF Debts
<1> QED BY <1>1, <1>2, <1>3 DEF IInv, DebtsFit

\* Every step keeps RunFits and DebtsFit.
LEMMA RunKeeps ==
  ASSUME IInv, Next
  PROVE  RunFits' /\ DebtsFit'
<1>0. TypeOK /\ RunFits /\ DebtsFit
  BY DEF IInv
<1>1. CASE EnqueueDueWindows \/ AdvanceClock
  BY <1>1, BesidesKeep DEF EnqueueDueWindows, AdvanceClock, rows, worker
<1>2. CASE ListWindows
  BY <1>0, <1>2, AtRest DEF ListWindows, DebtsFit
<1>3. CASE EndTick \/ RunFails \/ ScanBlocked \/ FinalizerFails \/ CloseRow \/ Crash
           \/ (\E d \in Documents : DieRecording(d))
  <2>1. Idle \/ (\E b \in BOOLEAN : Proceed(b))
    BY <1>3 DEF EndTick, RunFails, ScanBlocked, FinalizerFails, CloseRow, Crash, DieRecording
  <2> QED BY <1>0, <2>1, RestTypes, AtRest
<1>4. ASSUME NEW w \in Windows, SettleCovered(w)
      PROVE  RunFits' /\ DebtsFit'
  BY <1>0, <1>4, AtRest DEF SettleCovered, DebtsFit
<1>5. ASSUME NEW w \in Windows, TakeWindow(w)
      PROVE  RunFits' /\ DebtsFit'
  <2>1. /\ phase' = "scan" /\ row' = w /\ claims' = {} /\ UNCHANGED <<home, file, code>>
    BY <1>0, <1>5 DEF TakeWindow, DebtsFit, rows
  <2>2. TypeOK'
    BY <1>5, WindowTypes
  <2>3. request' = w \/ (request' = <<Checkpoint, End(w)>> /\ Debts(w) = {})
    BY <1>5 DEF TakeWindow
  <2>4. request' \in Windows /\ End(request') = End(w)
    <3>1. CASE Debts(w) = {} /\ Checkpoint > Start(w)
      <4>1. Start(w) \in Instants /\ End(w) \in Instants
        BY WindowIs
      <4>2. Checkpoint \in Instants \union {-1} /\ Checkpoint > Start(w) /\ ~(Checkpoint >= End(w))
        BY <1>0, <1>5, <3>1, CheckpointIs DEF Never, TakeWindow, Covered
      <4>3. Checkpoint \in Instants /\ Checkpoint <= End(w)
        <5> HIDE DEF Checkpoint
        <5> QED BY <4>1, <4>2, BoundIsInstant DEF Instants
      <4> QED BY <1>5, <3>1, <4>1, <4>3, PairIs DEF TakeWindow
    <3>2. CASE ~(Debts(w) = {} /\ Checkpoint > Start(w))
      BY <1>5, <3>2 DEF TakeWindow
    <3> QED BY <3>1, <3>2
  <2>5. RunFits'
    BY <2>1, <2>4 DEF RunFits, End
  <2>6. row' # request' => Debts(row)' = {}
    BY <2>1, <2>3 DEF Debts
  <2> QED BY <2>1, <2>5, <2>6 DEF DebtsFit
<1>6. CASE ScanPlan
  <2>1. /\ phase' = "register" /\ left' = plan' /\ claims' = {} /\ phase = "scan"
        /\ UNCHANGED <<row, request, home, file, code>>
    BY <1>0, <1>6 DEF ScanPlan, DebtsFit
  <2> QED BY <1>0, <2>1 DEF RunFits, DebtsFit, Debts, Working
<1>7. CASE PlanRecorded \/ Finalized
  <2>1. plan' = {} /\ phase \in {"register", "download"} /\ phase' \in {"download", "settle"}
    BY <1>0, <1>7 DEF PlanRecorded, Finalized, DebtsFit
  <2>2. UNCHANGED <<row, request, home, file, code, plan, left, claims>>
    BY <1>7 DEF PlanRecorded, Finalized, rows
  <2>3. \A d \in (left' \ plan') \union claims' : home'[d] = request
    BY <1>0, <2>1, <2>2 DEF DebtsFit
  <2> QED BY <2>1, <2>2, <2>3, OwnDocumentsKeep
<1>8. CASE CloseRequest
  <2>1. CASE Debts(request) = {}
    <3>1. /\ phase = "settle" /\ phase' = "close"
          /\ UNCHANGED <<row, request, home, file, code, left, plan, claims>>
      BY <1>8, <2>1 DEF CloseRequest
    <3> QED BY <1>0, <2>1, <3>1 DEF RunFits, DebtsFit, Debts, Working
  <2>2. CASE Debts(request) # {}
    <3>1. \E b \in BOOLEAN : Proceed(b)
      BY <1>8, <2>2 DEF CloseRequest
    <3> QED BY <1>0, <3>1, RestTypes, AtRest
  <2> QED BY <2>1, <2>2
<1>9. ASSUME NEW d \in Documents, RecordDocument(d)
      PROVE  RunFits' /\ DebtsFit'
  <2>1. /\ phase = "register" /\ plan' = plan \ {d} /\ home' = [home EXCEPT ![d] = request]
        /\ UNCHANGED <<phase, row, request, code, left, claims>>
        /\ \A e \in Documents \ {d} : file'[e] = file[e]
    BY <1>0, <1>9 DEF RecordDocument, Upsert, TypeOK
  <2>2. home'[d] = request /\ \A e \in Documents \ {d} : home'[e] = home[e]
    BY <1>0, <2>1 DEF TypeOK
  <2>3. \A e \in (left' \ plan') \union claims' : home'[e] = request
    BY <1>0, <2>1, <2>2 DEF DebtsFit, TypeOK
  <2>4. claims' = {}
    BY <1>0, <2>1 DEF DebtsFit
  <2> QED BY <2>1, <2>2, <2>3, <2>4, OwnDocumentsKeep
<1>10. ASSUME NEW d \in Documents,
              DownloadCandidate(d) \/ CandidateBlocked(d) \/ CandidateNotDue(d) \/ SettleCandidate(d)
       PROVE  RunFits' /\ DebtsFit'
  <2>1. /\ phase \in {"download", "settle"} /\ UNCHANGED <<phase, plan, row, request, home>>
        /\ d \in left \union claims
        /\ left' \subseteq left /\ claims' \subseteq left \union claims
        /\ \A e \in Documents \ {d} : file'[e] = file[e] /\ code'[e] = code[e]
    BY <1>0, <1>10 DEF DownloadCandidate, CandidateBlocked, CandidateNotDue, SettleCandidate,
                       TypeOK, rows
  <2>2. plan' = {} /\ \A e \in left \union claims : home[e] = request
    BY <1>0, <2>1, InHand DEF DebtsFit
  <2> QED BY <2>1, <2>2, OwnDocumentsKeep
<1>11. ASSUME NEW d \in Documents, Ripen(d) \/ ApplyRetryPlan(d)
       PROVE  RunFits' /\ DebtsFit'
  <2>1. UNCHANGED <<home, worker>>
    BY <1>11 DEF Ripen, ApplyRetryPlan
  <2>2. \A e \in Documents :
           /\ file'[e] = file[e] \/ file[e] \notin {"succeeded", "protected"} \/ code'[e] = "manual_retry"
           /\ code'[e] = code[e] \/ code'[e] = "manual_retry"
    BY <1>0, <1>11 DEF Ripen, ApplyRetryPlan, TypeOK
  <2> QED BY <2>1, <2>2, BesidesKeep
<1> QED BY <1>1, <1>2, <1>3, <1>4, <1>5, <1>6, <1>7, <1>8, <1>9, <1>10, <1>11 DEF Next

-----------------------------------------------------------------------------
(* Every step keeps what is known of the coverage.                         *)

\* A row may be written where everything before its range was scanned, and made
\* eligible where its range was scanned as well.
LEMMA WriteKeeps ==
  ASSUME TypeOK, WindowsFit, covered \subseteq covered', NEW w \in Windows, NEW s \in Statuses,
         status' = [status EXCEPT ![w] = s], w # LegacyWindow, s # "none", Reached(Start(w)),
         s \in {"succeeded", "legacy"} => Reached(End(w))
  PROVE  WindowsFit' /\ Rows \subseteq Rows' /\ w \in Rows'
<1>1. \A v \in Windows : status'[v] = IF v = w THEN s ELSE status[v]
  BY DEF TypeOK
<1>2. \A v \in Rows' : v \in Rows \/ v = w
  BY <1>1 DEF Rows
<1>3. \A v \in Eligible' : v \in Eligible \/ (v = w /\ s \in {"succeeded", "legacy"})
  BY <1>1 DEF Eligible
<1>4. \A v \in Rows' : Reached(Start(v))'
  BY <1>2, ReachedKeeps DEF WindowsFit, Start
<1>5. \A v \in Eligible' : Reached(End(v))'
  BY <1>3, ReachedKeeps DEF WindowsFit, End
<1>6. status'[LegacyWindow] = "legacy"
  BY <1>1, LegacyIs DEF WindowsFit
<1>7. Rows \subseteq Rows' /\ w \in Rows'
  BY <1>1 DEF Rows
<1> QED BY <1>4, <1>5, <1>6, <1>7 DEF WindowsFit

\* No row is written, but more may be scanned.
LEMMA NoWriteKeeps ==
  ASSUME WindowsFit, covered \subseteq covered', UNCHANGED status
  PROVE  WindowsFit' /\ Rows' = Rows
<1>1. Rows' = Rows /\ Eligible' = Eligible
  BY DEF Rows, Eligible
<1>2. \A w \in Rows : Reached(Start(w))'
  BY ReachedKeeps DEF WindowsFit
<1>3. \A w \in Eligible : Reached(End(w))'
  BY ReachedKeeps DEF WindowsFit
<1> QED BY <1>1, <1>2, <1>3 DEF WindowsFit

\* A run that goes on keeps its range, one that ends needs none.
LEMMA RangeKeeps ==
  ASSUME RequestFits, covered \subseteq covered', Rows \subseteq Rows', todo' \subseteq todo,
         \/ phase' \in {"idle", "windows"}
         \/ /\ UNCHANGED <<row, request>> /\ phase \in Working
            /\ phase' \in Registered => phase \in Registered \/ Reached(End(request))'
  PROVE  RequestFits'
<1>1. todo' \subseteq Rows' \ {LegacyWindow}
  BY DEF RequestFits
<1>2. CASE phase' \in {"idle", "windows"}
  BY <1>1, <1>2 DEF RequestFits, Working
<1>3. CASE /\ UNCHANGED <<row, request>> /\ phase \in Working
           /\ phase' \in Registered => phase \in Registered \/ Reached(End(request))'
  <2>1. row \in Rows' /\ LegacyWindow \notin {row, request} /\ Reached(Start(request))'
    BY <1>3, ReachedKeeps DEF RequestFits
  <2>2. phase' \in Registered => Reached(End(request))'
    BY <1>3, ReachedKeeps DEF RequestFits
  <2>3. Start(request') = Start(request) /\ End(request') = End(request)
    BY <1>3
  <2> QED BY <1>1, <1>3, <2>1, <2>2, <2>3 DEF RequestFits, Reached
<1> QED BY <1>2, <1>3

\* The scheduler's window begins at the checkpoint.
LEMMA EnqueueKeeps ==
  ASSUME IInv, Imported, EnqueueDueWindows
  PROVE  WindowsFit' /\ RequestFits'
<1>0. TypeOK /\ WindowsFit /\ RequestFits
  BY DEF IInv, CoverageFits
<1> DEFINE w == <<Checkpoint, now>>
<1>1. Checkpoint \in Instants /\ Checkpoint >= 1 /\ Reached(Checkpoint) /\ Checkpoint # Never
  BY CheckpointReached DEF Never
<1>2. WindowStart(now) = Checkpoint
  BY <1>1 DEF WindowStart
<1>3. Start(w) = Checkpoint /\ w # LegacyWindow
  <2> HIDE DEF Checkpoint
  <2> QED BY <1>1 DEF Start, LegacyWindow
<1>4. /\ status' = [status EXCEPT ![w] =
           IF status[w] \in {"succeeded", "partial", "blocked", "running"} THEN status[w] ELSE "scheduled"]
      /\ UNCHANGED <<covered, phase, todo, row, request>>
  BY <1>2 DEF EnqueueDueWindows, worker
<1>5. WindowsFit' /\ Rows \subseteq Rows'
  <2>1. CASE w \notin Windows
    <3>1. status' = status
      BY <1>0, <1>4, <2>1 DEF TypeOK
    <3> QED BY <1>0, <1>4, <3>1, NoWriteKeeps
  <2>2. CASE w \in Windows /\ status[w] \in {"succeeded", "partial", "blocked", "running"}
    <3>1. status' = status
      BY <1>0, <1>4, <2>2 DEF TypeOK
    <3> QED BY <1>0, <1>4, <3>1, NoWriteKeeps
  <2>3. CASE w \in Windows /\ status[w] \notin {"succeeded", "partial", "blocked", "running"}
    <3>1. status' = [status EXCEPT ![w] = "scheduled"]
      BY <1>4, <2>3
    <3>2. Reached(Start(w))
      BY <1>1, <1>3
    <3> HIDE DEF w
    <3> QED BY <1>0, <1>3, <1>4, <2>3, <3>1, <3>2, WriteKeeps DEF Statuses
  <2> QED BY <2>1, <2>2, <2>3
<1>6. RequestFits'
  BY <1>0, <1>4, <1>5 DEF RequestFits, Reached
<1> QED BY <1>5, <1>6

\* The worker's steps between two runs.
LEMMA WindowsKeep ==
  ASSUME IInv, Imported, NEW w \in Windows, ListWindows \/ SettleCovered(w) \/ TakeWindow(w)
  PROVE  WindowsFit' /\ RequestFits'
<1>0. TypeOK /\ WindowsFit /\ RequestFits
  BY DEF IInv, CoverageFits
<1>1. CASE ListWindows
  <2>1. Pending \subseteq Rows \ {LegacyWindow}
    BY <1>0 DEF Pending, Rows, WindowsFit
  <2>2. UNCHANGED <<status, covered>> /\ todo' = Pending /\ phase' = "windows"
    BY <1>1 DEF ListWindows, rows
  <2>3. WindowsFit' /\ Rows' = Rows
    BY <1>0, <2>2, NoWriteKeeps
  <2> QED BY <2>1, <2>2, <2>3 DEF RequestFits, Working
<1>2. CASE SettleCovered(w)
  <2>1. /\ status' = [status EXCEPT ![w] = "succeeded"] /\ w \in todo /\ todo' = todo \ {w}
        /\ Checkpoint >= End(w) /\ UNCHANGED covered /\ phase' = "windows"
    BY <1>2 DEF SettleCovered, Register, IsNext, Covered
  <2>2. w \in Rows /\ w # LegacyWindow
    BY <1>0, <2>1 DEF RequestFits
  <2>3. Reached(End(w))
    <3>1. Reached(Checkpoint) /\ Checkpoint \in Instants /\ End(w) \in Instants
      BY CheckpointReached, WindowIs
    <3> HIDE DEF Checkpoint
    <3> QED BY <2>1, <3>1, BoundIsInstant DEF Reached, Instants
  <2>4. WindowsFit' /\ Rows \subseteq Rows'
    BY <1>0, <2>1, <2>2, <2>3, WriteKeeps DEF WindowsFit, Statuses
  <2> QED BY <1>0, <2>1, <2>4, RangeKeeps
<1>3. CASE TakeWindow(w)
  <2>1. /\ w \in todo /\ todo' = todo \ {w} /\ row' = w /\ phase' = "scan"
        /\ UNCHANGED <<status, covered>>
    BY <1>3 DEF TakeWindow, IsNext, rows
  <2>2. WindowsFit' /\ Rows' = Rows
    BY <1>0, <2>1, NoWriteKeeps
  <2>3. w \in Rows /\ w # LegacyWindow /\ Reached(Start(w))
    BY <1>0, <2>1 DEF RequestFits, WindowsFit
  <2>4. /\ request' = w \/ request' = <<Checkpoint, End(w)>>
        /\ Checkpoint >= 1 /\ Reached(Checkpoint) /\ Checkpoint \in Instants
    BY <1>3, CheckpointReached DEF TakeWindow
  <2>5. request' # LegacyWindow /\ Reached(Start(request'))
    <3> HIDE DEF Checkpoint
    <3> QED BY <2>3, <2>4, PairIs DEF LegacyWindow, Start
  <2>6. Reached(Start(request))'
    BY <2>1, <2>5 DEF Reached, Start
  <2> QED BY <1>0, <2>1, <2>2, <2>3, <2>5, <2>6 DEF RequestFits, Working, Registered
<1> QED BY <1>1, <1>2, <1>3

\* A run writes the rows of its own range, as covered once it was scanned.
LEMMA RangeRowsKeep ==
  ASSUME IInv, Imported, ScanBlocked \/ ScanPlan \/ PlanRecorded \/ CloseRequest \/ CloseRow
  PROVE  WindowsFit' /\ RequestFits'
<1>0. TypeOK /\ WindowsFit /\ RequestFits
  BY DEF IInv, CoverageFits
<1>1. phase \in Working
  BY DEF ScanBlocked, ScanPlan, PlanRecorded, CloseRequest, CloseRow, Working
<1>2. /\ row \in Windows /\ request \in Windows /\ End(request) = End(row)
      /\ LegacyWindow \notin {row, request} /\ Reached(Start(request)) /\ Reached(Start(row))
  BY <1>0, <1>1 DEF IInv, RunFits, RequestFits, WindowsFit
<1>3. CASE ScanBlocked
  <2>1. PICK b \in BOOLEAN : Register(request, IF b THEN "blocked_auth" ELSE "blocked") /\ Proceed(b)
    BY <1>3 DEF ScanBlocked
  <2>2. PICK s \in {"blocked_auth", "blocked"} : status' = [status EXCEPT ![request] = s]
    BY <2>1 DEF Register
  <2>3. UNCHANGED covered
    BY <1>3 DEF ScanBlocked
  <2>4. WindowsFit' /\ Rows \subseteq Rows'
    BY <1>0, <1>2, <2>2, <2>3, WriteKeeps DEF Statuses
  <2> QED BY <1>0, <2>1, <2>3, <2>4, RestTypes, RangeKeeps
<1>4. CASE ScanPlan
  <2>1. /\ status' = [status EXCEPT ![request] = "running"] /\ phase' = "register"
        /\ UNCHANGED <<covered, todo, row, request>>
    BY <1>4 DEF ScanPlan, Register
  <2>2. WindowsFit' /\ Rows \subseteq Rows'
    BY <1>0, <1>2, <2>1, WriteKeeps DEF Statuses
  <2> QED BY <1>0, <1>1, <2>1, <2>2, RangeKeeps DEF Registered
<1>5. CASE PlanRecorded
  <2>1. /\ covered' = covered \union (Start(request) .. (End(request) - 1)) /\ phase' = "download"
        /\ UNCHANGED <<status, todo, row, request>>
    BY <1>5 DEF PlanRecorded, rows
  <2>2. WindowsFit' /\ Rows' = Rows
    BY <1>0, <2>1, NoWriteKeeps
  <2>3. Reached(End(request))'
    <3>1. Start(request) \in Instants /\ End(request) \in Instants
      BY <1>2, WindowIs
    <3>2. \A i \in Instants : i < End(request) => i \in covered'
      BY <1>2, <2>1, <3>1, BoundIsInstant DEF Reached, Instants
    <3>3. End(request') = End(request)
      BY <2>1
    <3> QED BY <3>2, <3>3 DEF Reached
  <2> QED BY <1>0, <1>1, <2>1, <2>2, <2>3, RangeKeeps
<1>6. CASE CloseRequest
  <2>1. Reached(End(request)) /\ phase = "settle" /\ UNCHANGED covered
    BY <1>0, <1>1, <1>6 DEF RequestFits, CloseRequest, Registered
  <2>2. CASE Debts(request) = {}
    <3>1. /\ status' = [status EXCEPT ![request] = "succeeded"] /\ phase' = "close"
          /\ UNCHANGED <<todo, row, request>>
      BY <1>6, <2>2 DEF CloseRequest, Register
    <3>2. WindowsFit' /\ Rows \subseteq Rows'
      BY <1>0, <1>2, <2>1, <3>1, WriteKeeps DEF Statuses
    <3> QED BY <1>0, <1>1, <2>1, <3>1, <3>2, RangeKeeps DEF Registered
  <2>3. CASE Debts(request) # {}
    <3>1. PICK b \in BOOLEAN : Register(request, IF b THEN "blocked_auth" ELSE "partial") /\ Proceed(b)
      BY <1>6, <2>3 DEF CloseRequest
    <3>2. PICK s \in {"blocked_auth", "partial"} : status' = [status EXCEPT ![request] = s]
      BY <3>1 DEF Register
    <3>3. WindowsFit' /\ Rows \subseteq Rows'
      BY <1>0, <1>2, <2>1, <3>2, WriteKeeps DEF Statuses
    <3> QED BY <1>0, <2>1, <3>1, <3>3, RestTypes, RangeKeeps
  <2> QED BY <2>2, <2>3
<1>7. CASE CloseRow
  <2>1. status' = [status EXCEPT ![row] = "succeeded"] /\ Proceed(FALSE) /\ UNCHANGED covered
    BY <1>7 DEF CloseRow, Register
  <2>2. Reached(End(row))
    BY <1>0, <1>1, <1>2, <1>7 DEF RequestFits, CloseRow, Registered
  <2>3. WindowsFit' /\ Rows \subseteq Rows'
    BY <1>0, <1>2, <2>1, <2>2, WriteKeeps DEF Statuses
  <2>4. \E b \in BOOLEAN : Proceed(b)
    BY <2>1
  <2> QED BY <1>0, <2>1, <2>3, <2>4, RestTypes, RangeKeeps
<1> QED BY <1>3, <1>4, <1>5, <1>6, <1>7

\* Every step keeps CoverageFits.
LEMMA CoverageKeeps ==
  ASSUME IInv, Next
  PROVE  CoverageFits'
<1> SUFFICES ASSUME Imported PROVE WindowsFit' /\ RequestFits'
  BY DEF CoverageFits
<1>0. TypeOK /\ WindowsFit /\ RequestFits
  BY DEF IInv, CoverageFits
<1>1. CASE EnqueueDueWindows
  BY <1>1, EnqueueKeeps
<1>2. CASE ListWindows \/ \E w \in Windows : SettleCovered(w) \/ TakeWindow(w)
  BY <1>2, WindowsKeep, LegacyIs
<1>3. CASE ScanBlocked \/ ScanPlan \/ PlanRecorded \/ CloseRequest \/ CloseRow
  BY <1>3, RangeRowsKeep
<1>4. CASE EndTick \/ RunFails \/ FinalizerFails \/ Crash \/ (\E d \in Documents : DieRecording(d))
  <2>1. UNCHANGED <<status, covered>>
    BY <1>4 DEF EndTick, RunFails, FinalizerFails, Crash, DieRecording, rows
  <2>2. Idle \/ (\E b \in BOOLEAN : Proceed(b))
    BY <1>4 DEF EndTick, RunFails, FinalizerFails, Crash, DieRecording
  <2>3. todo' \subseteq todo /\ phase' \in {"idle", "windows"}
    BY <1>0, <2>2, RestTypes
  <2> QED BY <1>0, <2>1, <2>3, NoWriteKeeps, RangeKeeps
<1>5. CASE \/ Finalized \/ AdvanceClock
           \/ \E d \in Documents :
                \/ RecordDocument(d) \/ DownloadCandidate(d) \/ CandidateBlocked(d)
                \/ CandidateNotDue(d) \/ SettleCandidate(d) \/ Ripen(d) \/ ApplyRetryPlan(d)
  <2>1. /\ UNCHANGED <<status, covered, todo, row, request>>
        /\ phase' = phase \/ (phase = "download" /\ phase' = "settle")
    BY <1>5 DEF Finalized, AdvanceClock, RecordDocument, DownloadCandidate, CandidateBlocked,
                CandidateNotDue, SettleCandidate, Ripen, ApplyRetryPlan, rows, worker
  <2>2. WindowsFit' /\ Rows' = Rows
    BY <1>0, <2>1, NoWriteKeeps
  <2> QED BY <1>0, <2>1, <2>2 DEF RequestFits, Reached, Working, Registered
<1> QED BY <1>1, <1>2, <1>3, <1>4, <1>5 DEF Next

-----------------------------------------------------------------------------
\* Nothing is scanned yet but what was imported.
THEOREM Initial == Init => IInv
<1> SUFFICES ASSUME Init PROVE IInv
  OBVIOUS
<1>1. TypeOK
  <2>1. now \in Instants /\ covered \subseteq Instants
    BY InstantsAreNat DEF Init
  <2>2. status \in [Windows -> Statuses]
    BY DEF Init, Statuses
  <2> QED BY <2>1, <2>2 DEF Init, TypeOK, Files, Codes, Phases
<1>2. RunFits /\ DebtsFit
  BY DEF Init, RunFits, DebtsFit, Working
<1>3. ASSUME Imported PROVE WindowsFit /\ RequestFits
  <2>1. /\ covered = {0} /\ todo = {} /\ phase = "idle"
        /\ \A w \in Windows : status[w] = IF w = LegacyWindow THEN "legacy" ELSE "none"
    BY <1>3 DEF Init
  <2>2. \A w \in Rows \union Eligible : w = LegacyWindow
    BY <2>1 DEF Rows, Eligible
  <2>3. Reached(0) /\ Reached(1)
    BY <2>1, InstantsAreNat DEF Reached
  <2> QED BY <2>1, <2>2, <2>3, LegacyIs DEF WindowsFit, RequestFits, Working
<1> QED BY <1>1, <1>2, <1>3 DEF IInv, CoverageFits

\* Every step keeps the invariant.
THEOREM Inductive == IInv /\ [Next]_vars => IInv'
<1> SUFFICES ASSUME IInv, [Next]_vars PROVE IInv'
  OBVIOUS
<1>1. CASE Next
  <2>1. TypeOK'
    BY <1>1, SchedulerTypes, WindowTypes, RunTypes, DocumentTypes, LegacyIs DEF Next, IInv
  <2> QED BY <1>1, <2>1, RunKeeps, CoverageKeeps DEF IInv
<1>2. CASE UNCHANGED vars
  BY <1>2 DEF IInv, TypeOK, RunFits, DebtsFit, CoverageFits, WindowsFit, RequestFits, Reached,
              Rows, Eligible, Debts, vars, rows, worker
<1> QED BY <1>1, <1>2

\* The inductive invariant holds in every state of the source.
THEOREM InvariantHolds == Spec => []IInv
BY Initial, Inductive, PTL DEF Spec

-----------------------------------------------------------------------------
\* The tables of a source keep their types, and a window ends no earlier than it
\* begins, for any schedule.
THEOREM TypeCorrect == Spec => []TypeOK
<1>1. IInv => TypeOK
  BY DEF IInv
<1> QED BY <1>1, InvariantHolds, PTL

\* After an import latest_source_checkpoint never claims an instant that was not
\* scanned with its candidates put on record, whatever mixture of blocked,
\* interrupted, narrowed and coalesced windows it was reached by.
THEOREM CheckpointIsHonest ==
  ASSUME Imported
  PROVE  Spec => []CheckpointIsCoverage
<1>1. IInv => CheckpointIsCoverage
  <2> SUFFICES ASSUME IInv PROVE CheckpointIsCoverage
    OBVIOUS
  <2>1. Reached(Checkpoint)
    BY CheckpointReached
  <2> QED BY <2>1 DEF CheckpointIsCoverage, Reached
<1> QED BY <1>1, InvariantHolds, PTL

\* What a window owes when it becomes eligible.
LEMMA EligibleOwesNothing ==
  ASSUME IInv, [Next]_vars, NEW w \in Windows, w \in Eligible' \ Eligible,
         NEW d \in Debts(w)'
  PROVE  code'[d] = "manual_retry"
<1>0. TypeOK /\ RunFits /\ DebtsFit
  BY DEF IInv
<1>1. status'[w] \in {"succeeded", "legacy"} /\ status[w] \notin {"succeeded", "legacy"}
  BY DEF Eligible
<1>2. \/ \E v \in Windows : SettleCovered(v)
      \/ CloseRequest \/ CloseRow
  <2>1. status' # status
    BY <1>1
  <2>2. ~EnqueueDueWindows /\ ~ScanBlocked /\ ~ScanPlan
    BY <1>0, <1>1 DEF EnqueueDueWindows, ScanBlocked, ScanPlan, Register, TypeOK
  <2> QED BY <2>1, <2>2 DEF Next, vars, rows, ListWindows, EndTick, TakeWindow, RunFails,
             PlanRecorded, RecordDocument, DieRecording, DownloadCandidate, CandidateBlocked,
             CandidateNotDue, SettleCandidate, Ripen, ApplyRetryPlan, FinalizerFails, Finalized,
             Crash, AdvanceClock
<1>3. CASE \E v \in Windows : SettleCovered(v)
  <2>1. PICK v \in Windows : SettleCovered(v)
    BY <1>3
  <2>2. v = w
    BY <1>0, <1>1, <2>1 DEF SettleCovered, Register, TypeOK
  <2>3. Debts(w)' = {}
    BY <2>1, <2>2 DEF SettleCovered, Covered, Debts
  <2> QED BY <2>3
<1>4. CASE CloseRequest
  <2>1. w = request /\ Debts(request) = {}
    BY <1>0, <1>1, <1>4 DEF CloseRequest, Register, TypeOK
  <2>2. Debts(w)' = {}
    BY <1>4, <2>1 DEF CloseRequest, Debts
  <2> QED BY <2>2
<1>5. CASE CloseRow
  <2>1. w = row /\ phase = "close" /\ UNCHANGED <<home, file, code>>
    BY <1>0, <1>1, <1>5 DEF CloseRow, Register, TypeOK
  <2>2. d \in Debts(row)
    BY <2>1 DEF Debts
  <2>3. row # request => code[d] = "manual_retry"
    BY <1>0, <2>1, <2>2 DEF DebtsFit, Working
  <2>4. row = request => code[d] = "manual_retry"
    BY <1>0, <2>1, <2>2 DEF DebtsFit
  <2> QED BY <2>1, <2>3, <2>4
<1> QED BY <1>2, <1>3, <1>4, <1>5

\* DownloadPipeline.run and _run_download_window close a window, scanned or not,
\* only when no candidate of it is owed, but for those an operator has just
\* released: also the window of which only the end was scanned.
THEOREM ClosingIsSettled == Spec => ClosedWhenSettled
<1>1. IInv /\ [Next]_vars =>
        [\A w \in Windows : w \in Eligible' \ Eligible =>
           \A d \in Debts(w)' : code'[d] = "manual_retry"]_vars
  BY EligibleOwesNothing
<1> QED BY <1>1, InvariantHolds, PTL DEF Spec, ClosedWhenSettled
=============================================================================
