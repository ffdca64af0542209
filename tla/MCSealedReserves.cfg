SPECIFICATION SealedSpec
CONSTANTS
  Call = {c1, c2}
  Distro = {d1, d2}
  Tool = {t1, t2}
  Inspection = {i1}
  Binary = {b1}
  None = None
  Runs = 2
  TTL = 2
  PreflightTTL = 1
  MinLeft = 2
  Reserve = 1
  MaxTime = 2
  MaxEdit = 1
SYMMETRY Symmetry
INVARIANTS
  RowsInOrder
  ExecutableIsProven
PROPERTY FreshIsCurrent
