\* Two commands at the lock in any order and at once, killed or stopped by a second Ctrl-C at any moment.
SPECIFICATION FairSpec
CONSTANTS
  None = None
  p1 = p1
  p2 = p2
  Procs = {p1, p2}
  Happens = {"kill", "quit"}
INVARIANTS
  TypeOK
  KeptApart
PROPERTIES
  StaleGivesWay
CHECK_DEADLOCK FALSE
