CONSTANTS
  NT = 3
  NThreads = 2
  BUSY = 100
SPECIFICATION FairSpec
INVARIANTS
  NoTileRace
  Factored
  FirstFailure
PROPERTIES
  ObservesDependences
  Returns
