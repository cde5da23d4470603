SPECIFICATION FairSpec
CONSTANTS
  p1 = p1
  b1 = b1
  c1 = c1
  c2 = c2
  Humans = {p1}
  Bots = {b1}
  Me = Me
  Uncached = {}
  Channels = {c1, c2}
  Away = Away
  Access <- OneForBots
  Grace = 2
  MaxEvents = 1
  MaxLeavers = 1
INVARIANTS TypeOK NobodyMissed
PROPERTIES NeverLeavesCompany LeavesWhenAlone
CHECK_DEADLOCK FALSE
