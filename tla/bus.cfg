SPECIFICATION FairSpec
CONSTANTS
  p1 = p1
  p2 = p2
  c1 = c1
  f1 = f1
  m1 = m1
  m2 = m2
  None = None
  Flusher = f1
  Posters <- TwoPosters
  Consumers <- OneConsumer
  Messages <- TwoMessages
  Wanted <- OneWanted
INVARIANTS
  TokenBalance
  OneOwner
  FlushLeavesOnlyLate
PROPERTIES
  PostReturns
