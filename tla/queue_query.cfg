SPECIFICATION FairSpec
CONSTANTS
  Configs <- PlainConfig
  MaxSizes <- OneMax
  MinSizes <- NoMin
  Kinds <- DataAndQuery
  Results = {"OK", "EOS"}
  Hindrances <- EosMeetsQuery
  EarlyStart = FALSE
  Shrinks = FALSE
  Overlaps = FALSE
  Room = 2
  Word = 8
PROPERTIES
  UpstreamReturns
