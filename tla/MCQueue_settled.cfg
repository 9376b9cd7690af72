\* Two messages, one retry, a batch of two at most, a delivery of each cut off once; stops and crashes at any moment.
SPECIFICATION FairSpec
CONSTANTS
  None = None
  m1 = m1
  m2 = m2
  m3 = m3
  Msgs = {m1, m2}
  BatchSize = 2
  MaxRetries = 1
  LeaseMs = 2
  TimeoutMs = 2
  Delays = {0, 1}
  DeadLetters = TRUE
  MaxCuts = 1
INVARIANTS
  TypeOK
  CountedDeliveries
PROPERTIES
  LeavesFromFlight
  EventuallySettled
  IsMailbox
