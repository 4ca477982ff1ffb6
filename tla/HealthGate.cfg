SPECIFICATION Spec
CONSTANTS
  Buckets = 4
  Percentile = 60
  MaxDuration = 5
  MaxCallbacks = 3
  Limits = {4}
  LatencyLimits = {3}
  Latency = 2
INVARIANT AcceptedKeptBudget
CHECK_DEADLOCK FALSE
