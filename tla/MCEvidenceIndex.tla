-------------------------- MODULE MCEvidenceIndex ---------------------------
(* An instance of EvidenceIndex for TLC: a report that is new to the index *)
(* and one from before it.                                                 *)
EXTENDS EvidenceIndex

TwoLabels == [t \in {"a", "b", "secret"} |-> IF t = "a" THEN "A" ELSE "B"]
=============================================================================
