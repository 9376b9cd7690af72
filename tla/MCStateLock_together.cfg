\* Two commands at the lock at once: one finds the file the other has made and not yet written.
SPECIFICATION Spec
CONSTANTS
  None = None
  p1 = p1
  p2 = p2
  Procs = {p1, p2}
  Happens = {}
INVARIANTS
  OneAlchemy
CHECK_DEADLOCK FALSE
