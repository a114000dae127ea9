---------------------------- MODULE MCProcessing ----------------------------
(* Instances of Processing for TLC.                                        *)
EXTENDS Processing

TwoReports == {1, 2}
ThreeReports == {1, 2, 3}
Own == <<"p1", "p2", "p3">>
Twin == <<"p1", "p2", "p1">>
Lengths == [p1 |-> 1, p2 |-> 2, p3 |-> 3]
OwnName == <<"n1", "n2", "n3">>
OneName == <<"n1", "n1", "n1">>
=============================================================================
