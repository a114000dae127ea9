SPECIFICATION Spec
CONSTANTS
  d1 = d1
  Documents <- OneDocument
  Posted <- PostedEarly
  Slots <- ThreeSlots
  Lookback = 2
  Imported = FALSE
  LastInstant = 4
INVARIANTS CheckpointIsCoverage
CHECK_DEADLOCK FALSE
