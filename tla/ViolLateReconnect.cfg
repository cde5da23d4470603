SPECIFICATION Spec
CONSTANTS
  RebuildDelay = 4
  ReconnectInterval = 5
  RecoveryTimeout = 8
  MaxFrames = 1
INVARIANTS DeadIsRetried
CHECK_DEADLOCK FALSE
