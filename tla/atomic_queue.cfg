SPECIFICATION Spec
CONSTANTS
  w1 = w1
  w2 = w2
  r1 = r1
  r2 = r2
  None = None
  Writers <- TwoWriters
  Readers <- TwoReaders
  InitSlots = 1
  Pushes = 2
SYMMETRY Symmetry
INVARIANTS
  NoDuplicates
  WriterOrder
  BusyWaitEnds
