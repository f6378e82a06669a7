SPECIFICATION FairSpec
CONSTANTS
  s1 = s1
  s2 = s2
  d1 = d1
  g1 = g1
  None = None
  Setters <- TwoSetters
  Streamers <- OneStreamer
  Getters <- OneGetter
  Spurious = TRUE
INVARIANTS
  Contiguous
  RestsWhereClassIs
PROPERTIES
  GetStateReturns
