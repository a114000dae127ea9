--------------------------- MODULE StageAttempts ----------------------------
(***************************************************************************)
(* The stage_attempts and leases tables of pipeline.sqlite3 and the        *)
(* operations of PipelineState on them (state.py), used by any number of   *)
(* worker processes and by the retry and import commands.                  *)
(*                                                                         *)
(* Every operation is one BEGIN IMMEDIATE transaction, hence one action.   *)
(* A row is one stage identity (document, stage, workflow version); the    *)
(* table is kept by columns.  Points in time are kept as the time left     *)
(* until them: available[a] for available_at, the component left of a      *)
(* lease for its expiry; 0 means "reached", which is also how the code     *)
(* treats NULL.  Tick lets one unit pass for all of them.                  *)
(* The uuid4 lease token is a serial number that was never used before; 0  *)
(* stands for NULL.  The retry fingerprint leaves out updated_at_epoch, so *)
(* the model accepts every retry plan the code accepts, and more.          *)
(***************************************************************************)
EXTENDS Naturals, FiniteSets

CONSTANTS
  Attempts,      \* ids of stage_attempts rows
  Workers,       \* processes that call claim_due_stage
  Lanes,         \* pairs (stage, workflow version)
  LaneOf,        \* the lane of every row
  Relisted,      \* the lanes whose due rows every tick lists anew
  Codes,         \* error codes that failures carry
  LeaseTime,     \* lease_seconds
  MaxDelay,      \* the longest retry delay
  MaxAttempts    \* bound: no row is claimed more often than this

ASSUME LaneAssumption  == LaneOf \in [Attempts -> Lanes] /\ Relisted \subseteq Lanes
ASSUME BoundAssumption == /\ LeaseTime \in Nat \ {0}
                          /\ MaxDelay \in Nat
                          /\ MaxAttempts \in Nat

VARIABLES
  activated,     \* the cutover (import into a new database) is over
  state,         \* column state; "absent": no such row
  failure,       \* columns error_category and error_code
  attempt_count, \* column attempt_count
  available,     \* column available_at
  lease,         \* columns lease_token and lease_expires_at
  leases,        \* table leases: owner_token and expires_at
  issued,        \* the last lease token handed out
  held,          \* held[w][a]: the StageClaim of worker w on row a
  plan,          \* the candidates of the operator's saved retry plan
  latest         \* history: the last token with which each row was claimed

columns == <<state, failure, attempt_count, available, lease>>
vars == <<activated, columns, leases, issued, held, plan, latest>>

-----------------------------------------------------------------------------
Terminal   == {"blocked_auth", "blocked_release", "quarantined"}
StageState == {"absent", "queued", "running", "succeeded", "retry_wait"} \union Terminal
Categories == {"transient", "auth", "release_contract", "content", "invariant"}
Failure    == (Categories \union {""}) \X (Codes \union {"", "manual_retry", "artifact_recovery"})
NoFailure  == <<"", "">>

Lease   == [token: Nat, left: Nat]
NoLease == [token |-> 0, left |-> 0]

\* What _stage_retry_fingerprint hashes; the lane and the document are
\* functions of the row id.
RowPrint     == StageState \X Failure \X Nat
Candidate == [attempt: Attempts, fingerprint: RowPrint, seen: Nat]

TypeOK ==
  /\ activated \in BOOLEAN
  /\ state \in [Attempts -> StageState]
  /\ failure \in [Attempts -> Failure]
  /\ attempt_count \in [Attempts -> Nat]
  /\ available \in [Attempts -> Nat]
  /\ lease \in [Attempts -> Lease]
  /\ leases \in [Attempts -> Lease]
  /\ issued \in Nat
  /\ held \in [Workers -> [Attempts -> Lease]]
  /\ plan \in SUBSET Candidate
  /\ latest \in [Attempts -> Nat]

Init ==
  /\ activated = FALSE
  /\ state = [a \in Attempts |-> "absent"]
  /\ failure = [a \in Attempts |-> NoFailure]
  /\ attempt_count = [a \in Attempts |-> 0]
  /\ available = [a \in Attempts |-> 0]
  /\ lease = [a \in Attempts |-> NoLease]
  /\ leases = [a \in Attempts |-> NoLease]
  /\ issued = 0
  /\ held = [w \in Workers |-> [a \in Attempts |-> NoLease]]
  /\ plan = {}
  /\ latest = [a \in Attempts |-> 0]

-----------------------------------------------------------------------------
\* Mutated form: forgets that an instant already reached stays reached.
LessUnchecked(n) == n - 1
Less(n) == IF n = 0 THEN 0 ELSE n - 1
Elapsed(l) == [token |-> l.token, left |-> Less(l.left)]

\* Time passes for every stored instant.
Tick ==
  /\ available' = [a \in Attempts |-> Less(available[a])]
  /\ lease' = [a \in Attempts |-> Elapsed(lease[a])]
  /\ leases' = [a \in Attempts |-> Elapsed(leases[a])]
  /\ held' = [w \in Workers |-> [a \in Attempts |-> Elapsed(held[w][a])]]
  /\ UNCHANGED <<activated, state, failure, attempt_count, issued, plan, latest>>

\* The cutover is complete: schedulers are enabled.
Activate ==
  /\ ~activated
  /\ activated' = TRUE
  /\ UNCHANGED <<columns, leases, issued, held, plan, latest>>

\* INSERT ... ON CONFLICT DO NOTHING.
EnsureStage(a) ==
  /\ state[a] = "absent"
  /\ state' = [state EXCEPT ![a] = "queued"]
  /\ UNCHANGED <<activated, failure, attempt_count, available, lease, leases,
                 issued, held, plan, latest>>

-----------------------------------------------------------------------------
\* Mutated forms: a running row is stolen while its lease runs; a running row
\* is never taken up again.
RunnableWhileLeased(a) ==
  \/ state[a] \in {"queued", "retry_wait"} /\ available[a] = 0
  \/ state[a] = "running"
RunnableUnlessRunning(a) ==
  state[a] \in {"queued", "retry_wait"} /\ available[a] = 0

Runnable(a) ==
  \/ state[a] \in {"queued", "retry_wait"} /\ available[a] = 0
  \/ state[a] = "running" /\ lease[a].left = 0

\* ORDER BY queued, retry_wait, running.
Rank(a) == CASE state[a] = "queued" -> 0
             [] state[a] = "retry_wait" -> 1
             [] OTHER -> 2

\* The row claim_due_stage selects among the rows of a lane in its scope
\* (rows of equal rank are not told apart by age).
Due(a, lane, scope) ==
  LET due == {b \in scope : LaneOf[b] = lane /\ Runnable(b)}
  IN  a \in due /\ \A b \in due : Rank(a) <= Rank(b)

ClaimDueStage(w, a, lane, scope) ==
  /\ activated
  /\ Due(a, lane, scope)
  /\ attempt_count[a] < MaxAttempts
  /\ LET claim == [token |-> issued + 1, left |-> LeaseTime]
     IN  /\ issued' = issued + 1
         /\ state' = [state EXCEPT ![a] = "running"]
         /\ attempt_count' = [attempt_count EXCEPT ![a] = @ + 1]
         /\ lease' = [lease EXCEPT ![a] = claim]
         /\ leases' = [b \in Attempts |->
                         IF b = a THEN claim
                         ELSE IF leases[b].left = 0 THEN NoLease ELSE leases[b]]
         /\ held' = [held EXCEPT ![w][a] = claim]
         /\ latest' = [latest EXCEPT ![a] = issued + 1]
  /\ UNCHANGED <<activated, failure, available, plan>>

\* Mutated form: any claim on a running row is good enough.
HoldsByState(w, a) == held[w][a].token # 0 /\ state[a] = "running"

\* _assert_claim: the expiry is not looked at, only state and token.
Holds(w, a) ==
  /\ held[w][a].token # 0
  /\ state[a] = "running"
  /\ lease[a].token = held[w][a].token

\* Mutated form: the lease row is left behind.
ReleaseLeavingLease(w, a, s, f, delay) ==
  /\ Holds(w, a)
  /\ state' = [state EXCEPT ![a] = s]
  /\ failure' = [failure EXCEPT ![a] = f]
  /\ available' = [available EXCEPT ![a] = delay]
  /\ lease' = [lease EXCEPT ![a] = NoLease]
  /\ held' = [held EXCEPT ![w][a] = NoLease]
  /\ UNCHANGED <<activated, attempt_count, leases, issued, plan, latest>>

\* The transaction of complete_stage and fail_stage: the row moves, and the
\* lease, the lease row and the worker's claim are gone.
Release(w, a, s, f, delay) ==
  /\ Holds(w, a)
  /\ state' = [state EXCEPT ![a] = s]
  /\ failure' = [failure EXCEPT ![a] = f]
  /\ available' = [available EXCEPT ![a] = delay]
  /\ lease' = [lease EXCEPT ![a] = NoLease]
  /\ leases' = [leases EXCEPT ![a] = NoLease]
  /\ held' = [held EXCEPT ![w][a] = NoLease]
  /\ UNCHANGED <<activated, attempt_count, issued, plan, latest>>

CompleteStage(w, a) == Release(w, a, "succeeded", NoFailure, 0)

\* Transient failures, and auth failures with a retry time, wait; the others
\* stop until an operator reviews them.
FailRetryable(w, a, category, code, delay) ==
  /\ category \in {"transient", "auth"}
  /\ Release(w, a, "retry_wait", <<category, code>>, delay)

FailTerminal(w, a, category, code) ==
  /\ category # "transient"
  /\ Release(w, a, CASE category = "auth" -> "blocked_auth"
                     [] category = "content" -> "quarantined"
                     [] OTHER -> "blocked_release",
             <<category, code>>, 0)

\* A worker that no longer owns the row gets LeaseLostError; nothing is written.
LeaseLost(w, a) ==
  /\ held[w][a].token # 0
  /\ ~Holds(w, a)
  /\ held' = [held EXCEPT ![w][a] = NoLease]
  /\ UNCHANGED <<activated, columns, leases, issued, plan, latest>>

\* A process dies, or abandons its claims after an exception: only its memory
\* is lost.
Crash(w) ==
  /\ held' = [held EXCEPT ![w] = [a \in Attempts |-> NoLease]]
  /\ UNCHANGED <<activated, columns, leases, issued, plan, latest>>

-----------------------------------------------------------------------------
\* Mutated form: two failures of one row look alike.
FingerprintWithoutCount(a) == <<state[a], failure[a], 0>>

Fingerprint(a) == <<state[a], failure[a], attempt_count[a]>>

\* Read-only: the operator saves the terminal rows of one lane and code.
PlanStageRetry(lane, code) ==
  /\ plan' = {[attempt |-> a, fingerprint |-> Fingerprint(a), seen |-> latest[a]] :
                a \in {b \in Attempts : /\ LaneOf[b] = lane
                                        /\ state[b] \in Terminal
                                        /\ failure[b][2] = code}}
  /\ UNCHANGED <<activated, columns, leases, issued, held, latest>>

Unchanged(c) ==
  /\ state[c.attempt] \in Terminal
  /\ Fingerprint(c.attempt) = c.fingerprint

Planned == {c.attempt : c \in plan}

\* Rows in S go back to the queue for the reason given as error code.
Requeue(S, reason) ==
  /\ state' = [a \in Attempts |-> IF a \in S THEN "queued" ELSE state[a]]
  /\ failure' = [a \in Attempts |-> IF a \in S THEN <<"", reason>> ELSE failure[a]]
  /\ available' = [a \in Attempts |-> IF a \in S THEN 0 ELSE available[a]]
  /\ lease' = [a \in Attempts |-> IF a \in S THEN NoLease ELSE lease[a]]
  /\ UNCHANGED <<activated, attempt_count, leases, issued, held, plan, latest>>

\* All candidates are requeued, or InvariantViolation and none is.  The saved
\* plan file stays and may be applied again.
ApplyStageRetryPlan ==
  /\ plan # {}
  /\ \A c \in plan : Unchanged(c)
  /\ Requeue(Planned, "manual_retry")

\* process._extract found a succeeded stage whose text artifact is gone.
RequeueSucceededStage(a) ==
  /\ state[a] = "succeeded"
  /\ Requeue({a}, "artifact_recovery")

\* The outcomes _legacy_stage_outcome produces, and their categories.
Imported == {"succeeded", "queued", "retry_wait"} \union Terminal
ImportedCategory(s, code) == CASE s = "retry_wait" -> "transient"
                         [] s = "blocked_release" ->
                               IF code = "release_contract_mismatch"
                               THEN "release_contract" ELSE "invariant"
                         [] s = "blocked_auth" -> "auth"
                         [] s = "quarantined" -> "content"
                         [] OTHER -> ""

\* Mutated form: an older legacy outcome replaces a success.
ImportOverSuccess(a, s, code, count, delay) ==
  /\ ~activated
  /\ attempt_count' = [attempt_count EXCEPT ![a] = IF @ < count THEN count ELSE @]
  /\ state' = [state EXCEPT ![a] = s]
  /\ failure' = [failure EXCEPT ![a] = <<ImportedCategory(s, code), code>>]
  /\ available' = [available EXCEPT ![a] = IF s = "retry_wait" THEN delay ELSE 0]
  /\ UNCHANGED <<activated, lease, leases, issued, held, plan, latest>>

\* Upsert of a legacy outcome: the count never decreases, a succeeded row keeps
\* everything else, lease columns are not touched.
ImportStageAttempt(a, s, code, count, delay) ==
  /\ ~activated
  /\ attempt_count' = [attempt_count EXCEPT ![a] = IF @ < count THEN count ELSE @]
  /\ IF state[a] = "succeeded"
     THEN UNCHANGED <<state, failure, available>>
     ELSE /\ state' = [state EXCEPT ![a] = s]
          /\ failure' = [failure EXCEPT ![a] = <<ImportedCategory(s, code), code>>]
          /\ available' = [available EXCEPT ![a] = IF s = "retry_wait" THEN delay ELSE 0]
  /\ UNCHANGED <<activated, lease, leases, issued, held, plan, latest>>

-----------------------------------------------------------------------------
WorkerStep(w) ==
  \/ \E lane \in Lanes, scope \in SUBSET Attempts, a \in Attempts :
        ClaimDueStage(w, a, lane, scope)
  \/ \E a \in Attempts : CompleteStage(w, a) \/ LeaseLost(w, a)
  \/ \E a \in Attempts, category \in Categories, code \in Codes :
        \/ FailTerminal(w, a, category, code)
        \/ \E delay \in 0 .. MaxDelay : FailRetryable(w, a, category, code, delay)
  \/ Crash(w)

Operator ==
  \/ \E lane \in Lanes, code \in Codes : PlanStageRetry(lane, code)
  \/ ApplyStageRetryPlan
  \/ \E a \in Attempts, s \in Imported, code \in Codes,
        count \in 0 .. MaxAttempts, delay \in 0 .. MaxDelay :
        ImportStageAttempt(a, s, code, count, delay)
  \/ Activate

Next ==
  \/ Tick
  \/ \E a \in Attempts : EnsureStage(a) \/ RequeueSucceededStage(a)
  \/ \E w \in Workers : WorkerStep(w)
  \/ Operator

Spec == Init /\ [][Next]_vars

\* launchd starts a tick every five minutes, so time passes.  A tick lists the due
\* rows of TEXT_EXTRACT, SUMMARY and PUBLISH by their state alone
\* (list_documents_for_processing), and claims what it has listed.  A DOWNLOAD row is
\* asked for only while its window is listed and a scan shows its candidate: of
\* those lanes nothing is said here.
ClaimAny(a) ==
  \E w \in Workers : ClaimDueStage(w, a, LaneOf[a], {a})

FairSpec ==
  /\ Spec
  /\ WF_vars(Tick)
  /\ WF_vars(Activate)
  /\ \A a \in Attempts : LaneOf[a] \in Relisted => WF_vars(ClaimAny(a))

-----------------------------------------------------------------------------
Live(w, a) == held[w][a].left > 0

\* While a worker's own copy of its lease has not run out, no other worker has
\* a running lease on the same row, whatever crashed, failed, was requeued or
\* retried in between (claim_due_stage against every other writer).
LiveClaimsExclusive ==
  \A a \in Attempts, v, w \in Workers : Live(v, a) /\ Live(w, a) => v = w

\* The leases table is the running rows seen from the other side: a lease row
\* repeats the current lease of a running row, and a row whose lease still
\* runs has its lease row (the purge in claim_due_stage takes no live one).
LeaseTableMirrors ==
  \A a \in Attempts :
    /\ leases[a].token # 0 => state[a] = "running" /\ leases[a] = lease[a]
    /\ lease[a].left > 0 => leases[a].token = lease[a].token

ByLatestClaimant ==
  \A a \in Attempts :
    activated /\ state[a] = "running" /\ state'[a] # "running" =>
      \E w \in Workers : held[w][a].token = latest[a] /\ held'[w][a] = NoLease

\* A row leaves "running" only through the worker that claimed it last: a
\* worker that was overtaken after its lease expired cannot record an outcome.
OutcomeByLatestClaimant == [][ByLatestClaimant]_vars

ByReviewedPlan ==
  \A a \in Attempts :
    activated /\ state[a] \in Terminal /\ state'[a] \notin Terminal =>
      /\ \E c \in plan : c.attempt = a /\ c.seen = latest[a]
      /\ \A c \in plan : state'[c.attempt] = "queued"

\* In the running system a blocked or quarantined row is opened only together
\* with every other row of the operator's plan, and only if no worker has
\* claimed it since the plan was reviewed.
RetryIsReviewed == [][ByReviewedPlan]_vars

Phase(s) == CASE s \in {"queued", "retry_wait"} -> "open"
              [] s = "running" -> "owned"
              [] s = "succeeded" -> "done"
              [] s \in Terminal -> "stopped"
              [] OTHER -> "absent"

Lifecycle == INSTANCE StageLifecycle
               WITH phase <- [a \in Attempts |-> Phase(state[a])], turn <- latest

\* The tables and their operations implement the abstract stage ledger.
ImplementsLifecycle == Lifecycle!Spec

\* Extraction, summary and publication work that a crashed process left running, or
\* that waits for its retry time, is taken up again (as long as the attempt bound is
\* not reached).  Not promised of downloads: SourceOwed.cfg and AcquisitionCutOff.cfg
\* show rows of theirs that stay for ever.
AbandonedWorkIsReclaimed ==
  \A a \in {b \in Attempts : LaneOf[b] \in Relisted}, n \in 0 .. MaxAttempts - 1 :
    (state[a] \in {"running", "retry_wait"} /\ attempt_count[a] = n)
      ~> (state[a] \notin {"running", "retry_wait"} \/ attempt_count[a] # n)
=============================================================================
