SPECIFICATION Spec
CONSTANTS
  Plan = {p1, p2}
  Call = {c1, c2}
  None = None
CHECK_DEADLOCK FALSE
INVARIANT EndedRunIsClosed
