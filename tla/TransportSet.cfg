SPECIFICATION MCSpec
CONSTANTS
  N = 4
  Kind <- MCKind
  QueueCap = 2
  LastTime = 6
  Absent = Absent
  Streams = 2
  Indexes = {0, 1, 2}
  Params <- MCParams
  Zero = Zero
  Plans <- MCPlans
  Tables <- MCTables
  LastBlock = 1
  Transmitters = {s, r}
  Ctl = Ctl
  Clocks = {c, d}
  Latencies = {1, 2}
  Offset = 1
  LastFrame = 1
  LastNow = 1
  MaxInits = 2
  Threads = {t, u}
  EventCapacity = 3
  EspLast = 3
INVARIANTS SetSafe AvbSound LinksSound
PROPERTIES NoGapHeard
