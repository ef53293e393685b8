CONSTANTS
  A = A
  B = B
  C = C
  D = D
  Block <- MCBlock
  MaxTasks = 4
  NThreads = 2
  Execution <- MCExecution
SPECIFICATION FairSpec
INVARIANTS
  ReadyInOnePlace
  NoUseAfterFree
  NothingLeft
  HighestFirst
PROPERTIES
  ObservesDependences
  RegionEnds
  WaitQueueLocked
