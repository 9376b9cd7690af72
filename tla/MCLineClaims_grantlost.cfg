\* A grant that others wait behind, claimed again by id.
SPECIFICATION Spec
CONSTANTS
  None = None
  pat = pat
  x = x
  y = y
  ip = ip
  ix = ix
  iy = iy
  jp = jp
  jx = jx
  People = {}
  Agents = {pat, x, y}
  Ids = {ip, ix, iy}
  IdsOf <- OwnIds
  RankOf <- Unranked
  InitLines = 1
  MaxLine = 1
  GrantMs = 1
  PollMs = 1
  KeepMs = 2
  LeaseMs = 2
  RestMs = 2
  CapMs = 3
  SlackMs = 1
  Ttls = {}
  Softs = {FALSE}
  Happens = {}
INVARIANTS
  GrantCanBeTaken
