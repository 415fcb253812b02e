SPECIFICATION FairSpec
CONSTANTS
  Total = 4
  Garbage = Garbage
INVARIANTS
  NoStageRace
  OneRequestInFlight
  CopiedMeansWritten
  ReplyCarriesNextBlock
  WorkerEndsBeforeFree
PROPERTIES
  NeverRewritten
  StreamCloses
CHECK_DEADLOCK FALSE
