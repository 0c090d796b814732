CONSTANTS
  Policies = {"Always", "EverySec", "No"}
  ChannelCap = 3
  BatchMax = 2
  BufLen = 8
  CommandSize = 2
  MaxSent = 3
  MaxCrashes = 1
  MaxRestarts = 2
SPECIFICATION Spec
INVARIANTS
  RecoversPrefix
  DurableSurvives
  ShutdownLosesNothing
  RecoveredFileIsClean
  
PROPERTY EventuallySynced
CHECK_DEADLOCK FALSE
