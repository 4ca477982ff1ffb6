SPECIFICATION MCSpec
CONSTANTS
  BlockSize = 2
  Speakers = {"l", "r"}
  Distances <- MCDistances
  DynamicCapacity = 3
  Processors = {2, 4}
  MaxFrames = 3
  MaxCallbacks = 3
  Buckets = 2
  Percentile = 50
INVARIANTS SamplesInPlace AcceptedKeptBudget DspOnItsRole SimulationSound
PROPERTY AnswerIsFinal
CHECK_DEADLOCK FALSE
