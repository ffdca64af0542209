SPECIFICATION ProbeSpec
CONSTANTS
  Entry = {"a"}
  Call = {c1, c2}
  Batch <- MCBatch
  Content <- MCContent
  MaxVersion = 3
  MaxProbe = 3
  MaxEvent = 2
SYMMETRY Symmetry
CHECK_DEADLOCK FALSE
INVARIANTS
  ProbesInOrder
  CompletedIsCatalogued
  ActiveIsServed
