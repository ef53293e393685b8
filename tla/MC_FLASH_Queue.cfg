CONSTANTS
  A = A
  B = B
  Block <- MCBlock
  Op <- MCOp
  MaxTasks = 3
  MaxStack = 2
SPECIFICATION Spec
INVARIANTS
  ConflictsOrdered
  NReadyIsInDegree
  NoStaleTasks
  BlockIdsDense
  QueuedOnlyIfEnabled
