SPECIFICATION FairSpec
CONSTANTS
  Documents <- TwoFiles
  Name <- FourNames
  Bytes <- FourContents
  Doubtful = {}
  MaxFaults = 1
PROPERTIES CutOffDownloadsRecover
CHECK_DEADLOCK FALSE
