SPECIFICATION Spec
CONSTANTS
  d1 = d1
  Documents <- OneDocument
  Posted <- PostedEarly
  Slots <- ThreeSlots
  Lookback = 2
  Imported = TRUE
  LastInstant = 4
INVARIANTS TypeOK CheckpointIsCoverage
PROPERTIES ClosedWhenSettled
CHECK_DEADLOCK FALSE
