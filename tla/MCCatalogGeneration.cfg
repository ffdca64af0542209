SPECIFICATION Spec
CONSTANTS
  File = {"f", "h"}
  SubDir = {"sub"}
  Root = "root"
  In <- MCIn
  Key = {"f", "h", "sub"}
  Norm <- MCNorm
  First <- MCFirst
  Sig = {"s1"}
  Request = {r1, r2}
  MaxScan = 3
  MaxChange = 0
  MaxCursor = 2
  BatchSize = 1
  None = None
SYMMETRY Symmetry
CHECK_DEADLOCK FALSE
PROPERTY MissingHasVanished
