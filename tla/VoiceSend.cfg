SPECIFICATION FairSpec
CONSTANTS
  RebuildDelay = 4
  ReconnectInterval = 5
  RecoveryTimeout = 8
  MaxFrames = 2
INVARIANTS TypeOK NeverDuringRebuild
PROPERTIES LeadIsBuffered GivesUpLate NoGap LostIsRetried
CHECK_DEADLOCK FALSE
