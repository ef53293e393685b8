CONSTANT Problem <- MCProblem
SPECIFICATION Spec
INVARIANTS
  ConflictsInOrder
  ReflectorsCurrent
  Tridiagonal
