SPECIFICATION Spec
CONSTANTS
  Permit = {p1, p2}
  Window = {w1, w2}
  Claim = {c1}
  Binding = {b1, b2}
  None = None
  PermitTTL = 1
  WindowTTL = 1
  MaxTime = 2
SYMMETRY Symmetry
INVARIANT ObservedSupervisorIsCounted
