SPECIFICATION FairSpec
CONSTANTS
  Plan = {p1}
  Call = {c1, c2, c3}
  None = None
CHECK_DEADLOCK FALSE
INVARIANTS
  OneThreadPerPlan
  UseMatchesRun
  RestIsSaved
PROPERTIES
  StartSettles
  TurnEndSettlesUse
  PlanIsOneUse
