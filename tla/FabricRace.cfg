SPECIFICATION MCSpec
CONSTANTS
  None = None
  Unknown = Unknown
  EmptyId = 0
  Observed <- MCObserved
  OtherIntents <- MCOtherIntents
  MaxSkew <- MCMaxSkew
  Epochs = {0, 1, 2}
  Assignments = {a, b}
  N = 2
  Plans <- MCPlans
  Medium <- MCMedium
  Frames = {2}
  Anchor <- MCAnchor
  Rate = 2
  Second = 3
  MaxEpoch = 3
  MaxTime = 5
  MaxLate = 1
  Preempt = TRUE
INVARIANT OpenOnlyCommitted
CHECK_DEADLOCK FALSE
