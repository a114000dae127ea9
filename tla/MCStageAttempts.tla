-------------------------- MODULE MCStageAttempts ---------------------------
(***************************************************************************)
(* Instances of StageAttempts for TLC: two rows of one lane, so that a     *)
(* retry plan has two candidates and a claim has a choice.                 *)
(***************************************************************************)
EXTENDS StageAttempts, TLC

Symmetry == Permutations(Attempts) \union Permutations(Workers)

OneLane == [a \in Attempts |-> CHOOSE l \in Lanes : TRUE]
=============================================================================
