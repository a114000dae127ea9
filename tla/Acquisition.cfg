SPECIFICATION FairSpec
CONSTANTS
  Documents <- FourFiles
  Name <- FourNames
  Bytes <- FourContents
  Doubtful <- Middle
  MaxFaults = 2
INVARIANTS TypeOK SettledIsArchived ArchivedOnce CoveredIsArchived
PROPERTIES EveryCandidateSettles
CHECK_DEADLOCK FALSE
