--------------------------- MODULE MCAcquisition ----------------------------
(* Instances of Acquisition for TLC: the third file has the content of the *)
(* first, the fourth its name; the names of the second and the third may   *)
(* be no PDF's.                                                            *)
EXTENDS Acquisition

FourFiles == 1 .. 4
FourNames == <<"n1", "n2", "n3", "n1">>
FourContents == <<"b1", "b2", "b1", "b3">>

Middle == {2, 3}

TwoFiles == {1, 2}
=============================================================================
