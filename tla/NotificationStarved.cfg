SPECIFICATION FairSpec
CONSTANTS
  d1 = d1
  c1 = c1
  c2 = c2
  s1 = s1
  None = None
  Notices = {d1, c1, c2}
  Event <- TwoBatches
PROPERTIES DeadSendersAreReclaimed
