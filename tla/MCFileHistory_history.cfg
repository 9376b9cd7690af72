\* A snapshot every two ops, two kept, batches of one op or five; two commits, forks, evictions and restarts at any moment.
SPECIFICATION FairSpec
CONSTANTS
  None = None
  a = a
  b = b
  Writers = {a}
  MaxRev = 6
  MaxLines = 1
  SnapEvery = 2
  KeepSnaps = 2
  OpPage = 2
  ListLimit = 100
  Batches = {1, 5}
  MaxCommits = 2
  MaxSweeps = 1
  Happens = {"fork", "wipe", "restart", "slowsha"}
INVARIANTS
  TypeOK
  EndsWithNow
  Credited
PROPERTIES
  KeepsThePast
  Swept
