SPECIFICATION FairSpec
CONSTANTS
  Capabilities <- MCCapabilities
  Assignments <- MCAssignments
  SyncReports <- MCSyncReports
  PowerReports <- MCPowerReports
  Absent = Absent
  MaxSkew = 1
  MinBattery = 1
  Docks = {"dockA"}
  MaxEpoch = 2
  MaxFrame = 3
INVARIANTS EndpointSafe
PROPERTIES StepsSafe CommittedResolves
