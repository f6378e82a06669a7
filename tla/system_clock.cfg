SPECIFICATION FairSpec
CONSTANTS
  s1 = s1
  a1 = a1
  p1 = p1
  c1 = c1
  c2 = c2
  None = None
  Sync <- OneSync
  Async <- TwoAsync
  Periodic <- OnePeriodic
  Clients <- TwoClients
  Starts <- SomeStarts
  Interval = 3
  MinWait = 1
  Short = 2
  MaxNow = 2
CHECK_DEADLOCK FALSE
INVARIANTS
  SleepIsJustified
PROPERTIES
  UnscheduledIsFinal
  NeverEarly
  DueFires
  WaitEnds
  CallsReturn
