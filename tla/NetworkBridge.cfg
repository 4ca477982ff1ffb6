SPECIFICATION FairSpec
CONSTANTS
  Capacity = 2
  SeqModulus = 3
  LastTime = 5
  MaxResets = 2
  Absent = Absent
INVARIANTS BridgeSafe
PROPERTIES GapsVisible Drains
