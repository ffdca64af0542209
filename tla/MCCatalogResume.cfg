SPECIFICATION Spec
CONSTANTS
  File = {"f", "g", "h"}
  SubDir = {"sub"}
  Root = "root"
  In <- MCIn
  Key = {"f", "h", "sub"}
  Norm <- MCNorm
  First <- MCFirst
  Sig = {"s1", "s2"}
  Request = {r1, r2}
  MaxScan = 2
  MaxChange = 1
  MaxCursor = 2
  BatchSize = 2
  None = None
SYMMETRY Symmetry
CHECK_DEADLOCK FALSE

PROPERTY RejectedIsReal
