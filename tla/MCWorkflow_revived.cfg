\* A function that ends while a sleep it raced goes on, and a process that stops after that.
SPECIFICATION FairSpec
CONSTANTS
  None = None
  d = d
  z = z
  w = w
  Dos = {d}
  Sleeps = {z}
  Waits = {}
  Limit = 0
  MaxEvents = 0
  MaxRuns = 2
  MaxRestarts = 0
  Happens = {"abandon"}
PROPERTIES
  EndedStays
CHECK_DEADLOCK FALSE
