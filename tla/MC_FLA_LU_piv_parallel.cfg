CONSTANT Problem <- MCProblem
SPECIFICATION FairSpec
INVARIANTS
  NoDataRace
  PanelReady
  Factored
PROPERTY Completes
