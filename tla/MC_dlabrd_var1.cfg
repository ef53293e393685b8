CONSTANTS
  NThreads = 4
  MaxRounds = 20
  ElemSize = 64
  PerGroup = 2
  Few = 1
  Problem <- Matrices
SPECIFICATION LabrdFairSpec
INVARIANTS
  NoDataRace
  SerialResult
  BufferCurrent
  NoneLeavesEarly
PROPERTIES
  NoArrivalLost
  Returns
