SPECIFICATION Spec
CONSTANTS
  r1 = r1
  r2 = r2
  v1 = v1
  v2 = v2
  f1 = f1
  f2 = f2
  Requests = {r1, r2}
  Videos = {v1, v2}
  Paths = {f1, f2}
  PathOf <- OwnFile
  Playlists <- OneList
  Counts = {2}
  CountCap = 1
  Nobody = Nobody
  MaxCrashes = 1
SYMMETRY Symmetry
INVARIANTS TypeOK OneDownload SuccessIsWhole RecommendedIsPlayable
PROPERTIES ImplementsLibrary
CHECK_DEADLOCK FALSE
