SPECIFICATION SealedSpec
CONSTANTS
  Call = {c1, c2}
  Distro = {d1, d2}
  Tool = {t1, t2}
  Inspection = {i1}
  Binary = {b1}
  None = None
  Runs = 2
  TTL = 1
  PreflightTTL = 1
  MinLeft = 1
  Reserve = 1
  MaxTime = 1
  MaxEdit = 1
SYMMETRY Symmetry
INVARIANT ReproIsOfItsDistro
