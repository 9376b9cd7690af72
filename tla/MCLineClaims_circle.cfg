\* Two people, each under two ids at most: what one claims, or is granted, while it is in line under the other.
SPECIFICATION Spec
CONSTANTS
  None = None
  pat = pat
  x = x
  y = y
  ip = ip
  ix = ix
  iy = iy
  jp = jp
  jx = jx
  People = {pat, x}
  Agents = {}
  Ids = {ip, jp, ix, jx}
  IdsOf <- FreshIds
  RankOf <- Unranked
  InitLines = 2
  MaxLine = 2
  GrantMs = 1
  PollMs = 1
  KeepMs = 2
  LeaseMs = 2
  RestMs = 2
  CapMs = 3
  SlackMs = 1
  Ttls = {}
  Softs = {FALSE}
  Happens = {}
INVARIANTS
  NoCircle
