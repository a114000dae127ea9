SPECIFICATION Spec
CONSTANTS
  Reports <- ThreeReports
  Documents <- FourDocuments
  UserDocument = 1
  GroupSize = 2
  GroupThreshold = 2
  MaxFiles = 2
  DateOf <- ThreeOfADay
INVARIANTS CapacityIsKept
CONSTRAINT Undisturbed
