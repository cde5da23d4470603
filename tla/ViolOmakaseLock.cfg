SPECIFICATION Spec
CONSTANTS
  h1 = h1
  h2 = h2
  l1 = l1
  a1 = a1
  a2 = a2
  a3 = a3
  i1 = i1
  i2 = i2
  i3 = i3
  i4 = i4
  Handlers = {h1}
  Leavers = {l1}
  AudioThreads = {a1, a2}
  Infos = {i1, i2, i3, i4}
  Commands = {"join", "leave", "play", "omakase", "remove"}
  Nobody = Nobody
  MaxReplies = 1
SYMMETRY Symmetry
INVARIANTS CallbackNeverBlocks
CHECK_DEADLOCK FALSE
