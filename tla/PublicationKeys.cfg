SPECIFICATION Spec
CONSTANTS
  Reports <- TwoReports
  Documents <- ThreeDocuments
  UserDocument = 1
  GroupSize = 1
  GroupThreshold = 1
  MaxFiles = 2
  DateOf <- TwoDates
PROPERTIES ImplementsDelivery
