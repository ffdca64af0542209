SPECIFICATION FairSpec
CONSTANTS
  Permit = {p1, p2}
  Window = {w1, w2}
  Claim = {c1, c2}
  Binding = {b1}
  None = None
  PermitTTL = 1
  WindowTTL = 1
  MaxTime = 1
PROPERTIES
  PermitIsOneUse
  WindowIsOneUse
  HandoffSettles
