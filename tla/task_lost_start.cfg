SPECIFICATION Spec
CONSTANTS
  t1 = t1
  w1 = w1
  w2 = w2
  c1 = c1
  c2 = c2
  l1 = l1
  l2 = l2
  None = None
  Tasks <- OneTask
  Workers <- TwoWorkers
  Controllers <- TwoControllers
  Locks <- OneLock
  PushMayFail = FALSE
  FuncStates = {}
INVARIANTS
  StartedHasThread
