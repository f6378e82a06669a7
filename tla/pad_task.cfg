SPECIFICATION PadFairSpec
CONSTANTS
  t1 = t1
  t2 = t2
  w1 = w1
  w2 = w2
  c1 = c1
  c2 = c2
  l1 = l1
  None = None
  StreamLock = l1
  Tasks <- TwoTasks
  Workers <- TwoWorkers
  Controllers <- TwoControllers
  Locks <- OneLock
  PushMayFail = FALSE
  FuncStates = {"PAUSED"}
INVARIANTS
  NoStrayThread
  PadStartNotLost
PROPERTIES
  UsesTask
  StopReturns
  KeepsContract
