\* A step, a sleep and a wait for an event, two events, crashes, two restarts, and controls at any moment.
SPECIFICATION FairSpec
CONSTANTS
  None = None
  d = d
  z = z
  w = w
  Dos = {d}
  Sleeps = {z}
  Waits = {w}
  Limit = 1
  MaxEvents = 2
  MaxRuns = 3
  MaxRestarts = 2
  Happens = {"race", "crash"}
INVARIANTS
  TypeOK
  OneRun
  EventsKept
PROPERTIES
  StepsOnce
  DeadlinesKept
  QuietWhenStopped
  RunsEnd
CHECK_DEADLOCK FALSE
