CONSTANTS
  A = A
  B = B
  C = C
  NULL = NULL
  Block <- MCBlock
  NThreads = 2
  NBlocks = 2
  Program <- MCProgram
SPECIFICATION GpuFairSpec
INVARIANTS
  OperandsCurrent
  TransfersApart
  ResultsInMain
PROPERTY RegionEnds
