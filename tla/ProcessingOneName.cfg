SPECIFICATION Spec
CONSTANTS
  Documents <- TwoReports
  Pdf <- Own
  Named <- OneName
  Chars <- Lengths
  Unreadable = {}
  Quota = 1
  Workers = 2
  Library = TRUE
  Vault = TRUE
  MaxFaults = 1
INVARIANTS SummaryIsOfItsReport
CHECK_DEADLOCK FALSE
