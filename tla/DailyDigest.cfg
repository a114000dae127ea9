SPECIFICATION Spec
CONSTANTS
  r1 = r1
  r2 = r2
  Reports <- TwoReports
  Pdf <- OwnPdf
  Seeded <- NoSeed
  SeedDay = 0
  LastDay = 2
  MaxItems = 2
  MaxDrafts = 2
  MaxFaults = 1
INVARIANTS TypeOK SeenIsAccounted NoReportTwice AppliedOnce ShownIsVerified
PROPERTIES CompleteIsShown
CHECK_DEADLOCK FALSE
