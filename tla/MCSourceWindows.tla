-------------------------- MODULE MCSourceWindows ---------------------------
(* Small instances of SourceWindows. *)
EXTENDS SourceWindows, TLC

CONSTANT d1

OneDocument == {d1}
PostedEarly == d1 :> 2
ThreeSlots == {2, 3, 4}
=============================================================================
