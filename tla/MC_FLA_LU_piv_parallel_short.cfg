CONSTANT Problem <- ShortTeam
SPECIFICATION Spec
INVARIANT Factored
