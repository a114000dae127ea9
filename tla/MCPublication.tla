--------------------------- MODULE MCPublication ----------------------------
(* Small instances of Publication. *)
EXTENDS Publication

TwoReports == {1, 2}
ThreeReports == {1, 2, 3}

\* The dates of the reports.
TwoDates    == <<1, 2>>
TwoOfADay   == <<1, 1>>
ThreeOfADay == <<1, 1, 1>>

ThreeDocuments == {1, 2, 3}
FourDocuments == {1, 2, 3, 4}

\* For the search of a long undisturbed behaviour: no step fails, no process
\* dies, and no report is visited again.
Undisturbed ==
  /\ target = NoDocument
  /\ \A r \in Reports : stage[r] \notin {"queued", "retry_wait", "blocked"}
  /\ phase = "idle" => \A r \in Reports : stage[r] # "running"
=============================================================================
