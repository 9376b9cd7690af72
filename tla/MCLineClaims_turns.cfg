\* Three agents on one line, one of a higher rank, one under two ids, under fair timers: claiming, waiting, renewing, editing, letting go, resting.
SPECIFICATION FairSpec
CONSTANTS
  None = None
  pat = pat
  x = x
  y = y
  ip = ip
  ix = ix
  iy = iy
  jp = jp
  jx = jx
  People = {}
  Agents = {pat, x, y}
  Ids = {ip, ix, iy}
  IdsOf <- SharedIds
  RankOf <- Ranked
  InitLines = 1
  MaxLine = 1
  GrantMs = 1
  PollMs = 1
  KeepMs = 2
  LeaseMs = 2
  RestMs = 2
  CapMs = 3
  SlackMs = 1
  Ttls = {}
  Softs = {FALSE}
  Happens = {"edit"}
INVARIANTS
  TypeOK
  LineInOrder
  RankOrder
  LeaseWithinCap
PROPERTIES
  NoBarging
  PlacesKept
  FreshOutOfRest
  EventuallyServed
