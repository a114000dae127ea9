SPECIFICATION FairIndexSpec
CONSTANTS
  Reports = {1, 2}
  Texts = {"a", "b"}
  Unsafe = {"secret"}
  LabelOf <- TwoLabels
  Legacy = {2}
  LegacyText = "a"
  Nothing = Nothing
  MaxEvents = 3
INVARIANTS IndexTypeOK SearchShowsTheAccepted
PROPERTIES AcceptedIsKept EverySourceIsFound
CHECK_DEADLOCK FALSE
