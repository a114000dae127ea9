SPECIFICATION Spec
CONSTANTS
  Reports <- TwoReports
  Documents <- ThreeDocuments
  UserDocument = 1
  GroupSize = 2
  GroupThreshold = 2
  MaxFiles = 2
  DateOf <- TwoOfADay
INVARIANTS TypeOK SettledIsDelivered
PROPERTIES ImplementsDelivery
