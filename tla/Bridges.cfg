SPECIFICATION MCSpec
CONSTANTS
  Sample = {0, 1}
  Silence = 0
  Cap = 3
  Modulus = 6
  MaxBlock = 2
  Absent = Absent
  Frames = 3
  FillTarget = 1
  FillExcursion = 3
  Underflows = 1
  Overflows = 0
  Block = 2
  Needs = {1, 2}
  Observations = 1
  TrustedWindows = 2
  Pushes = {2}
  Reads = {1, 3}
  LastFrame = 6
  LastRead = 4
  LastMark = 1
  SlipFrames = 6
  SlipTarget = 2
  Threshold = 0
  Transition = "Crossfade"
  SlipWindow = 3
  SlipUnderflows = 1
  SlipOverflows = 1
  SlipExcursion = 2
  WarningInterval = 6
  DegradedInterval = 4
  SlipPushes = {1, 3}
  SlipReads = {2, 3, 4}
  LastSlipFrame = 8
INVARIANTS RingSafe AdaptiveSound SlipsAccounted
PROPERTIES ImplementsFifo LatchIsFinal
