SPECIFICATION FairSpec
CONSTANTS
  Configs <- SomeConfigs
  MaxSizes <- SomeMax
  MinSizes <- SomeMin
  Kinds <- SomeKinds
  Results = {"OK", "EOS", "NOT_LINKED", "ERROR"}
  Hindrances <- NoHindrances
  EarlyStart = FALSE
  Shrinks = FALSE
  Overlaps = FALSE
  Room = 2
  Word = 8
INVARIANTS
  LevelExact
  QueryHasSender
  FlushStopIsQuiet
  LoopRunsWhileOK
  NoLostWakeup
PROPERTIES
  UsesPadTask
  UpstreamReturns
  FlushAndStopReturn
