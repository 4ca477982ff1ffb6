SPECIFICATION MCSpec
CONSTANTS
  StreamFaults = {"deviceLost", "formatChanged", "callback"}
  MaxRecoveryAttempts = 5
  InitialBackoff = 1
  MaxBackoff = 8
  RestartAttempts = 1
  Duration = 2
INVARIANTS LiveSound RecoverySound
PROPERTIES FaultStopsBoth LiveEnds Reconnects
