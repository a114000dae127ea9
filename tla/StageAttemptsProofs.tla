------------------------ MODULE StageAttemptsProofs -------------------------
(***************************************************************************)
(* Proofs about StageAttempts for any number of rows, workers and lanes    *)
(* and any lease time: type correctness, exclusive live claims, the lease  *)
(* table, outcomes only from the latest claimant, reviewed retries, and    *)
(* the implementation of StageLifecycle.                                   *)
(***************************************************************************)
EXTENDS StageAttempts, TLAPS

(***************************************************************************)
(* The inductive invariant.  Tokens are never reissued and no two workers  *)
(* remember the same one; a running row carries the token of its last      *)
(* claim; a claim whose own lease still runs is the lease of its row; the  *)
(* leases table agrees with the rows; and a row claimed after a plan was   *)
(* saved has outgrown the attempt count the plan recorded.                 *)
(***************************************************************************)
TokensFresh ==
  \A a \in Attempts :
    /\ latest[a] <= issued
    /\ \A v, w \in Workers :
         held[v][a].token # 0 /\ held[v][a].token = held[w][a].token => v = w
    /\ \A w \in Workers : /\ held[w][a].token <= latest[a]
                          /\ held[w][a].token = 0 => held[w][a].left = 0

RowsOwned ==
  \A a \in Attempts :
    /\ state[a] = "running" => activated /\ lease[a].token = latest[a] /\ latest[a] # 0
    /\ state[a] # "running" => lease[a] = NoLease

LiveClaimsCurrent ==
  \A a \in Attempts, w \in Workers :
    held[w][a].left > 0 => state[a] = "running" /\ lease[a] = held[w][a]

LeaseTableAgrees ==
  \A a \in Attempts :
    \/ leases[a] = NoLease /\ lease[a].left = 0
    \/ leases[a] = lease[a] /\ state[a] = "running"

PlanCounts ==
  \A c \in plan :
    /\ c.fingerprint[3] <= attempt_count[c.attempt]
    /\ c.seen # latest[c.attempt] => c.fingerprint[3] < attempt_count[c.attempt]

IInv == TypeOK /\ TokensFresh /\ RowsOwned /\ LiveClaimsCurrent
               /\ LeaseTableAgrees /\ PlanCounts

-----------------------------------------------------------------------------
\* Time left never goes below zero and never grows when time passes.
LEMMA LessType == \A n \in Nat : Less(n) \in Nat /\ Less(n) <= n
BY DEF Less

\* What a row becomes is a legal row.
LEMMA OutcomeTypes ==
  /\ NoLease \in Lease
  /\ NoFailure \in Failure
  /\ \A category \in Categories, code \in Codes : <<category, code>> \in Failure
  /\ \A reason \in {"manual_retry", "artifact_recovery"} : <<"", reason>> \in Failure
  /\ \A s \in Imported, code \in Codes :
        s \in StageState /\ <<ImportedCategory(s, code), code>> \in Failure
<1>1. NoLease \in Lease
  BY DEF NoLease, Lease
<1>2. NoFailure \in Failure
  BY DEF NoFailure, Failure
<1>3. ASSUME NEW category \in Categories, NEW code \in Codes
      PROVE <<category, code>> \in Failure
  BY DEF Failure
<1>4. ASSUME NEW reason \in {"manual_retry", "artifact_recovery"}
      PROVE <<"", reason>> \in Failure
  BY DEF Failure
<1>5. ASSUME NEW s \in Imported, NEW code \in Codes
      PROVE s \in StageState /\ <<ImportedCategory(s, code), code>> \in Failure
  <2>1. ImportedCategory(s, code) \in Categories \union {""}
    BY DEF ImportedCategory, Categories
  <2> QED BY <2>1 DEF Imported, StageState, Failure
<1> QED BY <1>1, <1>2, <1>3, <1>4, <1>5

\* The empty database is well typed.
LEMMA InitTypeOK == Init => TypeOK
<1> SUFFICES ASSUME Init PROVE TypeOK
  OBVIOUS
<1>1. state \in [Attempts -> StageState] /\ activated \in BOOLEAN
  BY DEF Init, StageState
<1>2. /\ failure \in [Attempts -> Failure]
      /\ lease \in [Attempts -> Lease]
      /\ leases \in [Attempts -> Lease]
      /\ held \in [Workers -> [Attempts -> Lease]]
  BY OutcomeTypes DEF Init
<1>3. /\ attempt_count \in [Attempts -> Nat]
      /\ available \in [Attempts -> Nat]
      /\ latest \in [Attempts -> Nat]
      /\ issued \in Nat
      /\ plan \in SUBSET Candidate
  BY DEF Init
<1> QED BY <1>1, <1>2, <1>3 DEF TypeOK

\* Every stored value keeps its type: no instant runs below zero, every row
\* stays a row of the schema, every candidate of a retry plan names a row.
THEOREM TypeCorrect == Spec => []TypeOK
<1>1. Init => TypeOK
  BY InitTypeOK
<1>2. TypeOK /\ [Next]_vars => TypeOK'
  <2> SUFFICES ASSUME TypeOK, [Next]_vars PROVE TypeOK'
    OBVIOUS
  <2> USE DEF TypeOK
  <2>1. CASE Tick
    <3>1. \A l \in Lease : Elapsed(l) \in Lease
      BY LessType DEF Elapsed, Lease
    <3> QED BY <2>1, <3>1, LessType DEF Tick
  <2>2. CASE Activate
    BY <2>2 DEF Activate, columns
  <2>3. ASSUME NEW a \in Attempts, EnsureStage(a) PROVE TypeOK'
    BY <2>3 DEF EnsureStage, StageState
  <2>4. ASSUME NEW w \in Workers, NEW a \in Attempts, NEW lane, NEW scope,
               ClaimDueStage(w, a, lane, scope)
        PROVE TypeOK'
    <3>1. [token |-> issued + 1, left |-> LeaseTime] \in Lease
      BY BoundAssumption DEF Lease
    <3>2. /\ state' \in [Attempts -> StageState]
          /\ attempt_count' \in [Attempts -> Nat]
          /\ latest' \in [Attempts -> Nat]
          /\ issued' \in Nat
          /\ UNCHANGED <<activated, failure, available, plan>>
      BY <2>4 DEF ClaimDueStage, StageState
    <3>3. lease' \in [Attempts -> Lease] /\ held' \in [Workers -> [Attempts -> Lease]]
      BY <2>4, <3>1 DEF ClaimDueStage
    <3>4. leases' \in [Attempts -> Lease]
      BY <2>4, <3>1, OutcomeTypes DEF ClaimDueStage
    <3> QED BY <3>2, <3>3, <3>4
  <2>5. ASSUME NEW w \in Workers, NEW a \in Attempts, NEW s \in StageState,
               NEW f \in Failure, NEW delay \in Nat, Release(w, a, s, f, delay)
        PROVE TypeOK'
    BY <2>5, OutcomeTypes DEF Release
  <2>6. ASSUME NEW w \in Workers, NEW a \in Attempts, CompleteStage(w, a) PROVE TypeOK'
    BY <2>5, <2>6, OutcomeTypes DEF CompleteStage, StageState
  <2>7. ASSUME NEW w \in Workers, NEW a \in Attempts, NEW category \in Categories,
               NEW code \in Codes, NEW delay \in 0 .. MaxDelay,
               FailRetryable(w, a, category, code, delay)
        PROVE TypeOK'
    <3>1. delay \in Nat
      BY BoundAssumption
    <3>2. <<category, code>> \in Failure /\ "retry_wait" \in StageState
      BY OutcomeTypes DEF StageState
    <3> QED BY <2>5, <2>7, <3>1, <3>2 DEF FailRetryable
  <2>8. ASSUME NEW w \in Workers, NEW a \in Attempts, NEW category \in Categories,
               NEW code \in Codes, FailTerminal(w, a, category, code)
        PROVE TypeOK'
    <3>1. <<category, code>> \in Failure /\ Terminal \subseteq StageState
      BY OutcomeTypes DEF StageState
    <3>2. PICK s \in Terminal : Release(w, a, s, <<category, code>>, 0)
      BY <2>8 DEF FailTerminal, Terminal
    <3> QED BY <2>5, <3>1, <3>2
  <2>9. ASSUME NEW w \in Workers, NEW a \in Attempts, LeaseLost(w, a) PROVE TypeOK'
    BY <2>9, OutcomeTypes DEF LeaseLost, columns
  <2>10. ASSUME NEW w \in Workers, Crash(w) PROVE TypeOK'
    BY <2>10, OutcomeTypes DEF Crash, columns
  <2>11. ASSUME NEW lane \in Lanes, NEW code \in Codes, PlanStageRetry(lane, code)
         PROVE TypeOK'
    BY <2>11 DEF PlanStageRetry, columns, Candidate, RowPrint, Fingerprint
  <2>12. ASSUME NEW S, NEW reason \in {"manual_retry", "artifact_recovery"},
                Requeue(S, reason)
         PROVE TypeOK'
    BY <2>12, OutcomeTypes DEF Requeue, StageState
  <2>13. ASSUME NEW a \in Attempts, NEW s \in Imported, NEW code \in Codes,
                NEW count \in 0 .. MaxAttempts, NEW delay \in 0 .. MaxDelay,
                ImportStageAttempt(a, s, code, count, delay)
         PROVE TypeOK'
    <3>1. count \in Nat /\ delay \in Nat
      BY BoundAssumption
    <3>2. attempt_count' \in [Attempts -> Nat]
      BY <2>13, <3>1 DEF ImportStageAttempt
    <3>3. s \in StageState /\ <<ImportedCategory(s, code), code>> \in Failure
      BY OutcomeTypes
    <3>4. /\ state' \in [Attempts -> StageState]
          /\ failure' \in [Attempts -> Failure]
          /\ available' \in [Attempts -> Nat]
      BY <2>13, <3>1, <3>3 DEF ImportStageAttempt
    <3> QED BY <2>13, <3>2, <3>4 DEF ImportStageAttempt
  <2>14. CASE UNCHANGED vars
    BY <2>14 DEF vars, columns
  <2> QED
    BY <2>1, <2>2, <2>3, <2>4, <2>6, <2>7, <2>8, <2>9, <2>10, <2>11, <2>12, <2>13, <2>14
    DEF Next, WorkerStep, Operator, ApplyStageRetryPlan, RequeueSucceededStage
<1> QED BY <1>1, <1>2, PTL DEF Spec

-----------------------------------------------------------------------------
(***************************************************************************)
(* Preservation of the invariant, one lemma per way a row can change.      *)
(***************************************************************************)
USE DEF TypeOK

Agreement == TokensFresh /\ RowsOwned /\ LiveClaimsCurrent /\ LeaseTableAgrees

\* Passing time keeps rows, lease table and claims in agreement: all three
\* copies of an expiry run down together.
LEMMA TickAgreement ==
  ASSUME TypeOK, Agreement, Tick PROVE Agreement'
<1> USE DEF Agreement
<1>1. \A l \in Lease : /\ Elapsed(l).token = l.token
                       /\ Elapsed(l).left \in Nat
                       /\ Elapsed(l).left <= l.left
                       /\ l.left = 0 => Elapsed(l) = l
  <2> SUFFICES ASSUME NEW l \in Lease
               PROVE  /\ Elapsed(l).token = l.token
                      /\ Elapsed(l).left \in Nat
                      /\ Elapsed(l).left <= l.left
                      /\ l.left = 0 => Elapsed(l) = l
    OBVIOUS
  <2>1. l = [token |-> l.token, left |-> l.left] /\ l.left \in Nat
    BY DEF Lease
  <2>2. l.left = 0 => Elapsed(l) = l
    BY <2>1 DEF Elapsed, Less
  <2> QED BY <2>1, <2>2, LessType DEF Elapsed
<1>2. Elapsed(NoLease) = NoLease /\ NoLease.left = 0
  BY DEF Elapsed, Less, NoLease
<1>3. TokensFresh'
  BY <1>1 DEF Tick, TokensFresh, Lease
<1>4. RowsOwned'
  BY <1>1, <1>2 DEF Tick, RowsOwned, Lease
<1>5. LiveClaimsCurrent'
  BY <1>1 DEF Tick, LiveClaimsCurrent, Lease
<1>6. LeaseTableAgrees'
  BY <1>1, <1>2 DEF Tick, LeaseTableAgrees, Lease
<1> QED BY <1>3, <1>4, <1>5, <1>6

\* claim_due_stage keeps them in agreement: the token is new, so no older claim
\* and no other lease row can be confused with it.
LEMMA ClaimAgreement ==
  ASSUME TypeOK, Agreement, NEW w \in Workers, NEW a \in Attempts, NEW lane, NEW scope,
         ClaimDueStage(w, a, lane, scope)
  PROVE  Agreement'
<1> USE DEF Agreement
<1> DEFINE claim == [token |-> issued + 1, left |-> LeaseTime]
<1>1. /\ activated /\ activated' = activated
      /\ issued' = issued + 1
      /\ state' = [state EXCEPT ![a] = "running"]
      /\ lease' = [lease EXCEPT ![a] = claim]
      /\ leases' = [b \in Attempts |-> IF b = a THEN claim
                                      ELSE IF leases[b].left = 0 THEN NoLease ELSE leases[b]]
      /\ held' = [held EXCEPT ![w][a] = claim]
      /\ latest' = [latest EXCEPT ![a] = issued + 1]
  BY DEF ClaimDueStage
<1>2. claim \in Lease /\ claim.token = issued + 1 /\ claim.left = LeaseTime /\ LeaseTime # 0
  BY BoundAssumption DEF Lease
<1>3. state[a] = "running" => lease[a].left = 0
  BY DEF ClaimDueStage, Due, Runnable
<1>4. NoLease = [token |-> 0, left |-> 0] /\ NoLease.left = 0 /\ NoLease.token = 0
  BY DEF NoLease
<1> HIDE DEF claim
<1>5. TokensFresh'
  BY <1>1, <1>2 DEF TokensFresh, Lease
<1>6. RowsOwned'
  BY <1>1, <1>2 DEF RowsOwned
<1>7. LiveClaimsCurrent'
  BY <1>1, <1>2, <1>3, <1>4 DEF LiveClaimsCurrent, RowsOwned, Lease
<1>8. LeaseTableAgrees'
  BY <1>1, <1>2, <1>4 DEF LeaseTableAgrees, RowsOwned, Lease
<1> QED BY <1>5, <1>6, <1>7, <1>8

\* Completing or failing a stage keeps them in agreement: the row, its lease row
\* and the claim let go of the token together.
LEMMA ReleaseAgreement ==
  ASSUME TypeOK, Agreement, NEW w \in Workers, NEW a \in Attempts, NEW s \in StageState,
         s # "running", NEW f, NEW delay, Release(w, a, s, f, delay)
  PROVE  Agreement'
<1> USE DEF Agreement
<1>1. NoLease = [token |-> 0, left |-> 0] /\ NoLease.left = 0 /\ NoLease.token = 0
  BY DEF NoLease
<1>2. \A v \in Workers : held[v][a].left > 0 => v = w
  BY DEF Release, Holds, TokensFresh, LiveClaimsCurrent, Lease
<1>3. TokensFresh'
  BY <1>1 DEF Release, TokensFresh, Lease
<1>4. RowsOwned'
  BY <1>1 DEF Release, RowsOwned
<1>5. LiveClaimsCurrent'
  BY <1>1, <1>2 DEF Release, LiveClaimsCurrent, Lease
<1>6. LeaseTableAgrees'
  BY <1>1 DEF Release, LeaseTableAgrees
<1> QED BY <1>3, <1>4, <1>5, <1>6

\* A worker forgets some claims and nothing else changes.
LEMMA ForgetAgreement ==
  ASSUME TypeOK, Agreement, NEW w \in Workers, NEW h \in [Attempts -> Lease],
         \A a \in Attempts : h[a] = held[w][a] \/ h[a] = NoLease,
         held' = [held EXCEPT ![w] = h],
         UNCHANGED <<activated, state, lease, leases, issued, latest>>
  PROVE  Agreement'
<1> USE DEF Agreement
<1>1. NoLease = [token |-> 0, left |-> 0] /\ NoLease.left = 0 /\ NoLease.token = 0
  BY DEF NoLease
<1>2. TokensFresh'
  BY <1>1 DEF TokensFresh, Lease
<1>3. RowsOwned' /\ LeaseTableAgrees'
  BY DEF RowsOwned, LeaseTableAgrees
<1>4. \A v \in Workers, a \in Attempts : held'[v][a] \in {held[v][a], NoLease}
  OBVIOUS
<1>5. LiveClaimsCurrent'
  BY <1>1, <1>4 DEF LiveClaimsCurrent
<1> QED BY <1>2, <1>3, <1>5

\* Rows that are not running go to other states that are not running.
LEMMA RestAgreement ==
  ASSUME TypeOK, Agreement,
         \A a \in Attempts : \/ state'[a] = state[a] /\ lease'[a] = lease[a]
                             \/ /\ state[a] # "running" /\ state'[a] # "running"
                                /\ lease'[a] \in {lease[a], NoLease},
         activated' \in BOOLEAN, activated => activated',
         UNCHANGED <<leases, issued, held, latest>>
  PROVE  Agreement'
<1> USE DEF Agreement
<1>1. NoLease = [token |-> 0, left |-> 0] /\ NoLease.left = 0 /\ NoLease.token = 0
  BY DEF NoLease
<1>2. TokensFresh'
  BY DEF TokensFresh
<1>3. \A a \in Attempts : lease'[a] = lease[a]
  BY DEF RowsOwned
<1>4. RowsOwned'
  BY <1>3 DEF RowsOwned
<1>5. LiveClaimsCurrent' /\ LeaseTableAgrees'
  BY <1>1, <1>3 DEF LiveClaimsCurrent, LeaseTableAgrees
<1> QED BY <1>2, <1>4, <1>5

-----------------------------------------------------------------------------
\* A saved retry plan stays truthful while counts and turns only grow together.
LEMMA PlanPreserved ==
  ASSUME TypeOK, PlanCounts, UNCHANGED plan,
         \A a \in Attempts : /\ attempt_count'[a] \in Nat
                             /\ attempt_count'[a] >= attempt_count[a]
                             /\ latest'[a] # latest[a] => attempt_count'[a] > attempt_count[a]
  PROVE  PlanCounts'
<1> SUFFICES ASSUME NEW c \in plan
             PROVE  /\ c.fingerprint[3] <= attempt_count'[c.attempt]
                    /\ c.seen # latest'[c.attempt] => c.fingerprint[3] < attempt_count'[c.attempt]
  BY DEF PlanCounts
<1>1. c.attempt \in Attempts /\ c.fingerprint[3] \in Nat
  BY DEF Candidate, RowPrint
<1>2. attempt_count[c.attempt] \in Nat
  BY <1>1
<1> QED BY <1>1, <1>2 DEF PlanCounts

\* Every step of every operation preserves the inductive invariant.
LEMMA Inductive == IInv /\ [Next]_vars /\ TypeOK' => IInv'
<1> SUFFICES ASSUME IInv, [Next]_vars, TypeOK' PROVE IInv'
  OBVIOUS
<1> USE DEF IInv
<1> Agreement
  BY DEF Agreement
<1>0. SUFFICES Agreement' /\ PlanCounts'
  BY DEF Agreement
<1>1. CASE Tick
  <2>1. Agreement'
    BY <1>1, TickAgreement
  <2>2. PlanCounts'
    BY <1>1, PlanPreserved DEF Tick
  <2> QED BY <2>1, <2>2
<1>2. CASE Activate
  <2>1. Agreement'
    BY <1>2, RestAgreement DEF Activate, columns
  <2>2. PlanCounts'
    BY <1>2, PlanPreserved DEF Activate, columns
  <2> QED BY <2>1, <2>2
<1>3. ASSUME NEW a \in Attempts, EnsureStage(a) PROVE Agreement' /\ PlanCounts'
  <2>1. Agreement'
    BY <1>3, RestAgreement DEF EnsureStage
  <2>2. PlanCounts'
    BY <1>3, PlanPreserved DEF EnsureStage
  <2> QED BY <2>1, <2>2
<1>4. ASSUME NEW w \in Workers, NEW a \in Attempts, NEW lane, NEW scope,
             ClaimDueStage(w, a, lane, scope)
      PROVE Agreement' /\ PlanCounts'
  <2>1. Agreement'
    BY <1>4, ClaimAgreement
  <2>2. /\ attempt_count' = [attempt_count EXCEPT ![a] = @ + 1]
        /\ latest' = [latest EXCEPT ![a] = issued + 1]
        /\ UNCHANGED plan
    BY <1>4 DEF ClaimDueStage
  <2>3. PlanCounts'
    BY <2>2, PlanPreserved
  <2> QED BY <2>1, <2>3
<1>5. ASSUME NEW w \in Workers, NEW a \in Attempts, NEW s \in StageState, s # "running",
             NEW f, NEW delay, Release(w, a, s, f, delay)
      PROVE Agreement' /\ PlanCounts'
  <2>1. Agreement'
    BY <1>5, ReleaseAgreement
  <2>2. PlanCounts'
    BY <1>5, PlanPreserved DEF Release
  <2> QED BY <2>1, <2>2
<1>6. ASSUME NEW w \in Workers, NEW a \in Attempts, CompleteStage(w, a)
      PROVE Agreement' /\ PlanCounts'
  BY <1>5, <1>6 DEF CompleteStage, StageState
<1>7. ASSUME NEW w \in Workers, NEW a \in Attempts, NEW category, NEW code, NEW delay,
             FailRetryable(w, a, category, code, delay)
      PROVE Agreement' /\ PlanCounts'
  BY <1>5, <1>7 DEF FailRetryable, StageState
<1>8. ASSUME NEW w \in Workers, NEW a \in Attempts, NEW category, NEW code,
             FailTerminal(w, a, category, code)
      PROVE Agreement' /\ PlanCounts'
  <2>1. PICK s \in Terminal : Release(w, a, s, <<category, code>>, 0)
    BY <1>8 DEF FailTerminal, Terminal
  <2>2. s \in StageState /\ s # "running"
    BY DEF StageState, Terminal
  <2> QED BY <1>5, <2>1, <2>2
<1>9. ASSUME NEW w \in Workers, NEW a \in Attempts, LeaseLost(w, a)
      PROVE Agreement' /\ PlanCounts'
  <2> DEFINE h == [held[w] EXCEPT ![a] = NoLease]
  <2>1. /\ h \in [Attempts -> Lease]
        /\ \A b \in Attempts : h[b] = held[w][b] \/ h[b] = NoLease
        /\ held' = [held EXCEPT ![w] = h]
    BY <1>9, OutcomeTypes DEF LeaseLost
  <2> HIDE DEF h
  <2>2. Agreement'
    BY <1>9, <2>1, ForgetAgreement DEF LeaseLost, columns
  <2>3. PlanCounts'
    BY <1>9, PlanPreserved DEF LeaseLost, columns
  <2> QED BY <2>2, <2>3
<1>10. ASSUME NEW w \in Workers, Crash(w) PROVE Agreement' /\ PlanCounts'
  <2> DEFINE h == [a \in Attempts |-> NoLease]
  <2>1. /\ h \in [Attempts -> Lease]
        /\ \A b \in Attempts : h[b] = held[w][b] \/ h[b] = NoLease
        /\ held' = [held EXCEPT ![w] = h]
    BY <1>10, OutcomeTypes DEF Crash
  <2> HIDE DEF h
  <2>2. Agreement'
    BY <1>10, <2>1, ForgetAgreement DEF Crash, columns
  <2>3. PlanCounts'
    BY <1>10, PlanPreserved DEF Crash, columns
  <2> QED BY <2>2, <2>3
<1>11. ASSUME NEW lane \in Lanes, NEW code \in Codes, PlanStageRetry(lane, code)
       PROVE Agreement' /\ PlanCounts'
  <2>1. Agreement'
    BY <1>11, RestAgreement DEF PlanStageRetry, columns
  <2>2. \A c \in plan' : c.fingerprint[3] = attempt_count[c.attempt] /\ c.seen = latest[c.attempt]
    BY <1>11 DEF PlanStageRetry, Fingerprint
  <2>3. \A c \in plan' : attempt_count[c.attempt] \in Nat
    BY DEF Candidate
  <2>4. PlanCounts'
    BY <1>11, <2>2, <2>3 DEF PlanStageRetry, PlanCounts, columns
  <2> QED BY <2>1, <2>4
<1>12. ASSUME NEW S, NEW reason, \A a \in S \cap Attempts : state[a] # "running",
              Requeue(S, reason)
       PROVE Agreement' /\ PlanCounts'
  <2>1. \A a \in Attempts : \/ state'[a] = state[a] /\ lease'[a] = lease[a]
                            \/ /\ state[a] # "running" /\ state'[a] # "running"
                               /\ lease'[a] \in {lease[a], NoLease}
    BY <1>12 DEF Requeue
  <2>2. Agreement'
    BY <1>12, <2>1, RestAgreement DEF Requeue
  <2>3. UNCHANGED <<attempt_count, latest, plan>>
    BY <1>12 DEF Requeue
  <2>4. PlanCounts'
    BY <2>3, PlanPreserved
  <2> QED BY <2>2, <2>4
<1>13. CASE ApplyStageRetryPlan
  <2>1. \A a \in Planned : state[a] # "running"
    BY <1>13 DEF ApplyStageRetryPlan, Planned, Unchanged, Terminal
  <2> QED BY <1>12, <1>13, <2>1 DEF ApplyStageRetryPlan
<1>14. ASSUME NEW a \in Attempts, RequeueSucceededStage(a) PROVE Agreement' /\ PlanCounts'
  BY <1>12, <1>14 DEF RequeueSucceededStage
<1>15. ASSUME NEW a \in Attempts, NEW s \in Imported, NEW code \in Codes,
              NEW count \in 0 .. MaxAttempts, NEW delay \in 0 .. MaxDelay,
              ImportStageAttempt(a, s, code, count, delay)
       PROVE Agreement' /\ PlanCounts'
  <2>1. \A b \in Attempts : state[b] # "running"
    BY <1>15 DEF ImportStageAttempt, RowsOwned
  <2>2. s # "running"
    BY DEF Imported, Terminal
  <2>3. Agreement'
    BY <1>15, <2>1, <2>2, RestAgreement DEF ImportStageAttempt
  <2>4. count \in Nat
    BY BoundAssumption
  <2>5. PlanCounts'
    BY <1>15, <2>4, PlanPreserved DEF ImportStageAttempt
  <2> QED BY <2>3, <2>5
<1>16. CASE UNCHANGED vars
  <2>1. Agreement'
    BY <1>16, RestAgreement DEF vars, columns
  <2>2. PlanCounts'
    BY <1>16, PlanPreserved DEF vars, columns
  <2> QED BY <2>1, <2>2
<1> QED
  BY <1>1, <1>2, <1>3, <1>4, <1>6, <1>7, <1>8, <1>9, <1>10, <1>11, <1>13, <1>14, <1>15, <1>16
  DEF Next, WorkerStep, Operator

\* The inductive invariant holds in every reachable state.
THEOREM InvariantHolds == Spec => []IInv
<1>1. Init => IInv
  <2> SUFFICES ASSUME Init, TypeOK PROVE IInv
    BY InitTypeOK
  <2> QED BY DEF Init, IInv, TokensFresh, RowsOwned, LiveClaimsCurrent,
                 LeaseTableAgrees, PlanCounts, NoLease
<1>2. IInv /\ [Next]_vars /\ TypeOK' => IInv'
  BY Inductive
<1> QED BY <1>1, <1>2, TypeCorrect, PTL DEF Spec

-----------------------------------------------------------------------------
\* At any time at most one worker holds a lease that has not run out on a row.
THEOREM ExclusiveClaims == Spec => []LiveClaimsExclusive
<1>1. IInv => LiveClaimsExclusive
  BY DEF IInv, LiveClaimsExclusive, Live, TokensFresh, LiveClaimsCurrent, Lease
<1> QED BY <1>1, InvariantHolds, PTL

\* The leases table and the lease columns of the rows never disagree.
THEOREM LeaseTable == Spec => []LeaseTableMirrors
<1>1. IInv => LeaseTableMirrors
  BY DEF IInv, LeaseTableMirrors, LeaseTableAgrees, NoLease
<1> QED BY <1>1, InvariantHolds, PTL

\* Only the latest claimant of a row can record its outcome.
THEOREM OutcomesOwned == Spec => OutcomeByLatestClaimant
<1>1. IInv /\ [Next]_vars => [ByLatestClaimant]_vars
  <2> SUFFICES ASSUME IInv, Next, NEW a \in Attempts,
                      activated, state[a] = "running", state'[a] # "running"
               PROVE  \E w \in Workers : held[w][a].token = latest[a] /\ held'[w][a] = NoLease
    BY DEF ByLatestClaimant
  <2> USE DEF IInv
  <2>1. ASSUME NEW w \in Workers, NEW b \in Attempts, NEW s, NEW f, NEW delay,
               Release(w, b, s, f, delay)
        PROVE held[w][a].token = latest[a] /\ held'[w][a] = NoLease
    <3>1. a = b
      BY <2>1 DEF Release
    <3> QED BY <2>1, <3>1 DEF Release, Holds, RowsOwned
  <2>2. ASSUME NEW S, NEW reason, Requeue(S, reason), a \in S => state[a] # "running"
        PROVE FALSE
    BY <2>2 DEF Requeue
  <2>3. ~ApplyStageRetryPlan
    BY <2>2 DEF ApplyStageRetryPlan, Planned, Unchanged, Terminal
  <2>4. \A b \in Attempts : ~RequeueSucceededStage(b)
    BY <2>2 DEF RequeueSucceededStage
  <2>5. ~Tick /\ ~Activate /\ \A b \in Attempts : ~EnsureStage(b)
    BY DEF Tick, Activate, EnsureStage, columns
  <2>6. \A w \in Workers, b \in Attempts : \A lane, scope : ~ClaimDueStage(w, b, lane, scope)
    BY DEF ClaimDueStage
  <2>7. \A w \in Workers, b \in Attempts : ~LeaseLost(w, b) /\ ~Crash(w)
    BY DEF LeaseLost, Crash, columns
  <2>8. \A lane, code : ~PlanStageRetry(lane, code)
    BY DEF PlanStageRetry, columns
  <2>9. \A b, s, code, count, delay : ~ImportStageAttempt(b, s, code, count, delay)
    BY DEF ImportStageAttempt
  <2> QED
    BY <2>1, <2>3, <2>4, <2>5, <2>6, <2>7, <2>8, <2>9
    DEF Next, WorkerStep, Operator, CompleteStage, FailRetryable, FailTerminal
<1>2. QED BY <1>1, InvariantHolds, PTL DEF Spec, OutcomeByLatestClaimant

\* A blocked or quarantined row is opened only by a plan that saw its latest
\* failure, and then together with all the rows of that plan.
THEOREM RetriesReviewed == Spec => RetryIsReviewed
<1>1. IInv /\ [Next]_vars => [ByReviewedPlan]_vars
  <2> SUFFICES ASSUME IInv, Next, NEW a \in Attempts,
                      activated, state[a] \in Terminal, state'[a] \notin Terminal
               PROVE  /\ \E c \in plan : c.attempt = a /\ c.seen = latest[a]
                      /\ \A c \in plan : state'[c.attempt] = "queued"
    BY DEF ByReviewedPlan
  <2> USE DEF IInv
  <2>0. state[a] \notin {"absent", "queued", "running", "succeeded", "retry_wait"}
    BY DEF Terminal
  <2>1. ASSUME ApplyStageRetryPlan
        PROVE  /\ \E c \in plan : c.attempt = a /\ c.seen = latest[a]
               /\ \A c \in plan : state'[c.attempt] = "queued"
    <3>1. a \in Planned
      BY <2>1 DEF ApplyStageRetryPlan, Requeue
    <3>2. PICK c \in plan : c.attempt = a
      BY <3>1 DEF Planned
    <3>3. Fingerprint(a) = c.fingerprint
      BY <2>1, <3>2 DEF ApplyStageRetryPlan, Unchanged
    <3>4. c.fingerprint[3] = attempt_count[a]
      BY <3>3 DEF Fingerprint
    <3>5. c.seen = latest[a]
      BY <3>2, <3>4 DEF PlanCounts
    <3>6. \A d \in plan : d.attempt \in Planned /\ d.attempt \in Attempts
      BY DEF Planned, Candidate
    <3>7. \A b \in Planned \cap Attempts : state'[b] = "queued"
      BY <2>1 DEF ApplyStageRetryPlan, Requeue
    <3> QED BY <3>2, <3>5, <3>6, <3>7
  <2>2. \A w \in Workers, b \in Attempts : \A s, f, delay : ~Release(w, b, s, f, delay)
    BY <2>0 DEF Release, Holds
  <2>3. \A b \in Attempts : ~RequeueSucceededStage(b)
    BY <2>0 DEF RequeueSucceededStage, Requeue
  <2>4. ~Tick /\ ~Activate /\ \A b \in Attempts : ~EnsureStage(b)
    BY <2>0 DEF Tick, Activate, EnsureStage, columns
  <2>5. \A w \in Workers, b \in Attempts : \A lane, scope : ~ClaimDueStage(w, b, lane, scope)
    BY <2>0 DEF ClaimDueStage, Due, Runnable
  <2>6. \A w \in Workers, b \in Attempts : ~LeaseLost(w, b) /\ ~Crash(w)
    BY DEF LeaseLost, Crash, columns
  <2>7. \A lane, code : ~PlanStageRetry(lane, code)
    BY DEF PlanStageRetry, columns
  <2>8. \A b, s, code, count, delay : ~ImportStageAttempt(b, s, code, count, delay)
    BY DEF ImportStageAttempt
  <2> QED
    BY <2>1, <2>2, <2>3, <2>4, <2>5, <2>6, <2>7, <2>8
    DEF Next, WorkerStep, Operator, CompleteStage, FailRetryable, FailTerminal
<1> QED BY <1>1, InvariantHolds, PTL DEF Spec, RetryIsReviewed

-----------------------------------------------------------------------------
(***************************************************************************)
(* The refinement.                                                         *)
(***************************************************************************)
\* Where each row state stands in the abstract ledger.
LEMMA PhaseValues ==
  /\ Phase("absent") = "absent" /\ Phase("queued") = "open"
  /\ Phase("retry_wait") = "open" /\ Phase("running") = "owned"
  /\ Phase("succeeded") = "done"
  /\ \A s \in Terminal : Phase(s) = "stopped"
BY DEF Phase, Terminal

\* Every step of the tables is a step of the abstract stage ledger, or does not
\* show there.
THEOREM RefinesLifecycle == Spec => ImplementsLifecycle
<1>1. Init => Lifecycle!Init
  BY PhaseValues DEF Init, Lifecycle!Init
<1>2. IInv /\ [Next]_vars => [Lifecycle!Next]_(Lifecycle!vars)
  <2> SUFFICES ASSUME IInv, [Next]_vars PROVE [Lifecycle!Next]_(Lifecycle!vars)
    OBVIOUS
  <2> USE DEF IInv
  <2> DEFINE ph == [a \in Attempts |-> Phase(state[a])]
  <2>0. ASSUME UNCHANGED <<state, latest, activated>>
        PROVE  UNCHANGED Lifecycle!vars
    BY <2>0 DEF Lifecycle!vars
  <2>1. CASE Tick
    BY <2>0, <2>1 DEF Tick
  <2>2. CASE Activate
    <3>1. Lifecycle!Activate
      BY <2>2 DEF Activate, columns, Lifecycle!Activate
    <3> QED BY <3>1 DEF Lifecycle!Next
  <2>3. ASSUME NEW a \in Attempts, EnsureStage(a) PROVE Lifecycle!Next
    <3>1. ph[a] = "absent" /\ ph' = [ph EXCEPT ![a] = "open"]
      BY <2>3, PhaseValues DEF EnsureStage
    <3>2. Lifecycle!Open(a)
      BY <2>3, <3>1 DEF EnsureStage, Lifecycle!Open
    <3> QED BY <3>2 DEF Lifecycle!Next
  <2>4. ASSUME NEW w \in Workers, NEW a \in Attempts, NEW lane, NEW scope,
               ClaimDueStage(w, a, lane, scope)
        PROVE Lifecycle!Next
    <3>1. state[a] \in {"queued", "retry_wait", "running"}
      BY <2>4 DEF ClaimDueStage, Due, Runnable
    <3>2. ph[a] \in {"open", "owned"}
      BY <3>1, PhaseValues
    <3>3. ph' = [ph EXCEPT ![a] = "owned"]
      BY <2>4, PhaseValues DEF ClaimDueStage
    <3>4. /\ latest' = [latest EXCEPT ![a] = issued + 1]
          /\ activated /\ activated' = activated
      BY <2>4 DEF ClaimDueStage
    <3>5. latest'[a] > latest[a] /\ latest' = [latest EXCEPT ![a] = latest'[a]]
      BY <3>4 DEF TokensFresh
    <3>6. Lifecycle!TakeOver(a)
      BY <3>2, <3>3, <3>4, <3>5 DEF Lifecycle!TakeOver
    <3> QED BY <3>6 DEF Lifecycle!Next
  <2>5. ASSUME NEW w \in Workers, NEW a \in Attempts,
               NEW s \in {"succeeded", "retry_wait"} \union Terminal, NEW f, NEW delay,
               Release(w, a, s, f, delay)
        PROVE Lifecycle!Next
    <3>1. Phase(s) \in Lifecycle!Outcomes
      BY PhaseValues DEF Lifecycle!Outcomes
    <3>2. ph[a] = "owned"
      BY <2>5, PhaseValues DEF Release, Holds
    <3>3. ph' = [ph EXCEPT ![a] = Phase(s)]
      BY <2>5 DEF Release
    <3>4. Lifecycle!Settle(a, Phase(s))
      BY <2>5, <3>2, <3>3 DEF Release, Lifecycle!Settle
    <3> QED BY <3>1, <3>4 DEF Lifecycle!Next
  <2>6. ASSUME NEW w \in Workers, NEW a \in Attempts, NEW category, NEW code,
               FailTerminal(w, a, category, code)
        PROVE Lifecycle!Next
    <3>1. PICK s \in Terminal : Release(w, a, s, <<category, code>>, 0)
      BY <2>6 DEF FailTerminal, Terminal
    <3> QED BY <2>5, <3>1
  <2>7. ASSUME NEW w \in Workers, NEW a \in Attempts, NEW category, NEW code, NEW delay,
               CompleteStage(w, a) \/ FailRetryable(w, a, category, code, delay)
        PROVE Lifecycle!Next
    BY <2>5, <2>7 DEF CompleteStage, FailRetryable
  <2>8. ASSUME NEW w \in Workers, NEW a \in Attempts, LeaseLost(w, a)
        PROVE UNCHANGED Lifecycle!vars
    BY <2>0, <2>8 DEF LeaseLost, columns
  <2>9. ASSUME NEW w \in Workers, Crash(w)
        PROVE UNCHANGED Lifecycle!vars
    BY <2>0, <2>9 DEF Crash, columns
  <2>10. ASSUME NEW lane, NEW code, PlanStageRetry(lane, code)
         PROVE UNCHANGED Lifecycle!vars
    BY <2>0, <2>10 DEF PlanStageRetry, columns
  <2>11. ASSUME NEW S \in SUBSET Attempts, NEW reason, Requeue(S, reason)
         PROVE  /\ ph' = [a \in Attempts |-> IF a \in S THEN "open" ELSE ph[a]]
                /\ UNCHANGED <<latest, activated>>
    BY <2>11, PhaseValues DEF Requeue
  <2>12. CASE ApplyStageRetryPlan
    <3>1. Planned \in SUBSET Attempts
      BY DEF Planned, Candidate
    <3>2. \A a \in Planned : state[a] \in Terminal
      BY <2>12 DEF ApplyStageRetryPlan, Planned, Unchanged
    <3>3. \A a \in Planned : ph[a] = "stopped"
      BY <3>1, <3>2, PhaseValues
    <3>4. Lifecycle!Reopen(Planned)
      BY <2>11, <2>12, <3>1, <3>3 DEF ApplyStageRetryPlan, Lifecycle!Reopen
    <3> QED BY <3>1, <3>4 DEF Lifecycle!Next
  <2>13. ASSUME NEW a \in Attempts, RequeueSucceededStage(a) PROVE Lifecycle!Next
    <3>1. ph[a] = "done"
      BY <2>13, PhaseValues DEF RequeueSucceededStage
    <3>2. /\ ph' = [b \in Attempts |-> IF b \in {a} THEN "open" ELSE ph[b]]
          /\ UNCHANGED <<latest, activated>>
      BY <2>11, <2>13 DEF RequeueSucceededStage
    <3>3. ph' = [ph EXCEPT ![a] = "open"]
      BY <3>2
    <3>4. Lifecycle!Redo(a)
      BY <3>1, <3>2, <3>3 DEF Lifecycle!Redo
    <3> QED BY <3>4 DEF Lifecycle!Next
  <2>14. ASSUME NEW a \in Attempts, NEW s \in Imported, NEW code, NEW count, NEW delay,
                ImportStageAttempt(a, s, code, count, delay)
         PROVE [Lifecycle!Next]_(Lifecycle!vars)
    <3>1. CASE state[a] = "succeeded"
      BY <2>0, <2>14, <3>1 DEF ImportStageAttempt
    <3>2. CASE state[a] # "succeeded"
      <4>1. ph[a] # "done"
        BY <3>2 DEF Phase, StageState, Terminal
      <4>2. ph' = [ph EXCEPT ![a] = Phase(s)] /\ UNCHANGED <<latest, activated>> /\ ~activated
        BY <2>14, <3>2 DEF ImportStageAttempt
      <4>3. Phase(s) \in Lifecycle!Outcomes
        BY PhaseValues DEF Imported, Lifecycle!Outcomes
      <4>4. Lifecycle!Import(a, Phase(s))
        BY <4>1, <4>2 DEF Lifecycle!Import
      <4> QED BY <4>3, <4>4 DEF Lifecycle!Next
    <3> QED BY <3>1, <3>2
  <2>15. CASE UNCHANGED vars
    BY <2>0, <2>15 DEF vars, columns
  <2> HIDE DEF ph
  <2> QED
    BY <2>1, <2>2, <2>3, <2>4, <2>6, <2>7, <2>8, <2>9, <2>10, <2>12, <2>13, <2>14, <2>15
    DEF Next, WorkerStep, Operator
<1> QED BY <1>1, <1>2, InvariantHolds, PTL DEF Spec, ImplementsLifecycle, Lifecycle!Spec
=============================================================================
