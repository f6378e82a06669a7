SPECIFICATION FairSpec
CONSTANTS
  a1 = a1
  a2 = a2
  r1 = r1
  c1 = c1
  None = None
  Acquirers <- TwoAcquirers
  Releasers <- OneReleaser
  Controllers <- OneController
  Configs <- OneConfig
  AllocMayFail = TRUE
  MayDontWait = TRUE
  MaxDiscards = 1
INVARIANTS
  TokenBalance
  CurBuffersExact
  MaxBuffersRespected
PROPERTIES
  FlushUnblocks
  ControlReturns
