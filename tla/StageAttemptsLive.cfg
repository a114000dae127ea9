CONSTANTS
  Attempts = {a1}
  Workers = {w1, w2}
  Lanes = {extract}
  LaneOf <- OneLane
  Relisted = {extract}
  Codes = {"failed"}
  LeaseTime = 2
  MaxDelay = 2
  MaxAttempts = 3
SPECIFICATION FairSpec
PROPERTIES AbandonedWorkIsReclaimed
