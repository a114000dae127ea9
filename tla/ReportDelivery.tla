--------------------------- MODULE ReportDelivery ---------------------------
(***************************************************************************)
(* What publication promises about every report, whatever batches, groups, *)
(* documents, crashes and retries it goes through: its body is sent only   *)
(* while nothing is known to have been sent, an attempt whose outcome is   *)
(* not known is never repeated by the program, and a receipt is final.     *)
(***************************************************************************)
EXTENDS Naturals

CONSTANTS Reports

VARIABLES
  knowledge,  \* what the durable records say of a report's body
  copies      \* how many times the body was written to Lark

vars == <<knowledge, copies>>

Init ==
  /\ knowledge = [r \in Reports |-> "unsent"]
  /\ copies = [r \in Reports |-> 0]

Becomes(S, from, to) ==
  /\ \A r \in S : knowledge[r] = from
  /\ knowledge' = [r \in Reports |-> IF r \in S THEN to ELSE knowledge[r]]

\* An attempt is announced before it is made.
Announce(S) == Becomes(S, "unsent", "uncertain") /\ UNCHANGED copies

\* Lark writes the body, once per announced attempt.
Write(S) ==
  /\ \A r \in S : knowledge[r] = "uncertain" /\ copies[r] = 0
  /\ copies' = [r \in Reports |-> IF r \in S THEN 1 ELSE copies[r]]
  /\ UNCHANGED knowledge

\* Lark refused the attempt: nothing was written.
Withdraw(S) ==
  /\ \A r \in S : copies[r] = 0
  /\ Becomes(S, "uncertain", "unsent")
  /\ UNCHANGED copies

\* The receipt is stored.
Acknowledge(S) ==
  /\ \A r \in S : copies[r] = 1
  /\ Becomes(S, "uncertain", "written")
  /\ UNCHANGED copies

\* The written body was verified and its readers were admitted.
Publish(S) == Becomes(S, "written", "published") /\ UNCHANGED copies

Next ==
  \E S \in SUBSET Reports :
     Announce(S) \/ Write(S) \/ Withdraw(S) \/ Acknowledge(S) \/ Publish(S)

Spec == Init /\ [][Next]_vars
=============================================================================
