CONSTANTS
  Attempts = {a1, a2}
  Workers = {w1, w2}
  Lanes = {extract}
  LaneOf <- OneLane
  Relisted = {extract}
  Codes = {"failed"}
  LeaseTime = 1
  MaxDelay = 1
  MaxAttempts = 2
SPECIFICATION Spec
INVARIANTS TypeOK LiveClaimsExclusive LeaseTableMirrors
PROPERTIES OutcomeByLatestClaimant RetryIsReviewed ImplementsLifecycle
SYMMETRY Symmetry
