------------------------ MODULE MCNotificationOutbox ------------------------
(* Small instances of NotificationOutbox. *)
EXTENDS NotificationOutbox

CONSTANTS d1, c1, c2, s1

\* Two run conclusions, and the completion of a source window.
TwoRuns ==
  [n \in {d1, c1, c2, s1} |-> CASE n = d1 -> "document" [] n = s1 -> "batch" [] OTHER -> "run"]

\* A document and the completions of two source windows.
TwoBatches == [n \in {d1, c1, c2} |-> IF n = d1 THEN "document" ELSE "batch"]
=============================================================================
