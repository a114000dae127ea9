--------------------------- MODULE MCDailyDigest ----------------------------
(* Small instances of DailyDigest. *)
EXTENDS DailyDigest, TLC

CONSTANTS r1, r2

TwoReports == {r1, r2}
OwnPdf     == [r \in TwoReports |-> r]
NoSeed     == {}
=============================================================================
