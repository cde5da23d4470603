SPECIFICATION ClientFairSpec
CONSTANTS
  r1 = r1
  r2 = r2
  v1 = v1
  v2 = v2
  f1 = f1
  f2 = f2
  Requests = {r1, r2}
  Videos = {v1, v2}
  Paths = {f1, f2}
  PathOf <- OwnFile
  Playlists <- ShortList
  Counts = {1}
  CountCap = 2
  Nobody = Nobody
  MaxCrashes = 1
  Finds <- TwoTexts
  Unreserved = {"a"}
  MaxCalls = 2
INVARIANTS ClientTypeOK PromisedIsWhole RightSong
PROPERTIES CalledBack
CHECK_DEADLOCK FALSE
