SPECIFICATION FairSpec
CONSTANTS
  Documents <- ThreeReports
  Pdf <- Twin
  Named <- OwnName
  Chars <- Lengths
  Unreadable = {2}
  Quota = 2
  Workers = 2
  Library = TRUE
  Vault = TRUE
  MaxFaults = 2
INVARIANTS TypeOK PaidOnce SuccessIsComplete
PROPERTIES EveryReportIsFinished
CHECK_DEADLOCK FALSE
