SPECIFICATION Spec
CONSTANTS
  w1 = w1
  w2 = w2
  r1 = r1
  r2 = r2
  None = None
  Writers <- OneWriter
  Readers <- OneReader
  InitSlots = 2
  Pushes = 3
INVARIANTS
  NothingLost
