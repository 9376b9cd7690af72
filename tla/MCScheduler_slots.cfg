\* A normal job and two low ones on two slots, measured up to the whole budget and past it.
SPECIFICATION Spec
CONSTANTS
  None = None
  n = n
  l = l
  m = m
  Normals = {n}
  Lows = {l, m}
  Tracked = {n, m}
  Pauses = {m}
  Releases = {l, m}
  Slots = 2
  BudgetMb = 2
  Says = 1
  MaxMb = 2
  Requeues = 2
  Window = 2
  Happens = {"timeout", "interrupt"}
INVARIANTS
  TypeOK
  BooksAgree
  NoIdleRoom
PROPERTIES
  RoomForAll
