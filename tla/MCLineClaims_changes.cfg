\* A person and an agent claim, edit and merge, and lines come and go, while deploys drain and restart the object and its repo is evicted.
SPECIFICATION Spec
CONSTANTS
  None = None
  pat = pat
  x = x
  y = y
  ip = ip
  ix = ix
  iy = iy
  jp = jp
  jx = jx
  People = {pat}
  Agents = {x}
  Ids = {ip, ix}
  IdsOf <- OwnIds
  RankOf <- Unranked
  InitLines = 1
  MaxLine = 2
  GrantMs = 1
  PollMs = 1
  KeepMs = 2
  LeaseMs = 1
  RestMs = 1
  CapMs = 2
  SlackMs = 1
  Ttls = {}
  Softs = {FALSE, TRUE}
  Happens = {"edit", "merge", "drain", "restart", "wipe"}
INVARIANTS
  IndexAgrees
  ClaimsOnLines
  AlarmCovers
PROPERTIES
  NoBarging
  FreedGoesOn
  FreshOutOfRest
  PlacesKept
  DrainTakesNoneNew
