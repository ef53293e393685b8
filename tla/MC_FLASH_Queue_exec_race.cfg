CONSTANTS
  A = A
  B = B
  C = C
  D = D
  Block <- MCBlock
  MaxTasks = 4
  NThreads = 2
  Execution <- StolenDiamond
SPECIFICATION Spec
PROPERTY WaitQueueLocked
