CONSTANTS
  Thread = {t1, t2}
  NoThread = none
  EnvValue <- MCEnvValue
  OmpMax = {2, 3}
  Request = {4}
  MaxThreads = 4
  MaxRange = 18
  ElemSize = {0, 8, 16, 100}
SPECIFICATION MCFairSpec
INVARIANTS
  Partition
  Balanced
  LinesApart
  SettledBeforeUse
  CountJustified
PROPERTY CallsReturn
