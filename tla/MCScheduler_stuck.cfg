\* Three normal jobs that may be paused, measured and done: no timeouts, no releases.
SPECIFICATION Spec
CONSTANTS
  None = None
  n = n
  l = l
  m = m
  Normals = {n, l, m}
  Lows = {}
  Tracked = {n, l, m}
  Pauses = {n, l, m}
  Releases = {}
  Slots = 3
  BudgetMb = 3
  Says = 1
  MaxMb = 2
  Requeues = 1
  Window = 1
  Happens = {}
INVARIANTS
  TurnAlone
