SPECIFICATION FairSpec
CONSTANTS
  Window = {w1, w2}
  Request = {r1, r2}
  Identity = {b1, b2}
  None = None
  TTL = 1
  MaxTime = 2
INVARIANTS
  ProcessIsAuthorised
  PassedIsProven
PROPERTIES
  WindowIsOneUse
  RunSettles
