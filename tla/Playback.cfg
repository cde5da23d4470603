SPECIFICATION FairSpec
CONSTANTS
  Commands = {"play", "first", "skip", "repeat", "random", "remove", "delete", "leave", "join"}
  MaxSongs = 2
  MaxBatch = 2
  MaxFrames = 1
  MaxRequests = 1
INVARIANTS TypeOK Conservation QueueOrder
PROPERTIES Implements AgainOnlyAfterEnd SkipEnds Served
CHECK_DEADLOCK FALSE
