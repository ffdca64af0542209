SPECIFICATION Spec
CONSTANTS
  Index = {1, 2}
  Ask = {a, b}
  Optional = {b}
  Source = {s1}
  None = None
  MaxNonce = 3
  MaxCrash = 1
CHECK_DEADLOCK FALSE
INVARIANTS
  TaskInOrder
  PendingIsOpen
  EvidenceIsStored
PROPERTY ResponseSettles
