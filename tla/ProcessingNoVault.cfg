SPECIFICATION FairSpec
CONSTANTS
  Documents <- TwoReports
  Pdf <- Own
  Named <- OwnName
  Chars <- Lengths
  Unreadable = {}
  Quota = 2
  Workers = 2
  Library = TRUE
  Vault = FALSE
  MaxFaults = 0
PROPERTIES EveryReportIsFinished
CHECK_DEADLOCK FALSE
