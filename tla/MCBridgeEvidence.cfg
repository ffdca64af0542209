SPECIFICATION Spec
CONSTANTS
  Index = {1, 2}
  Ask = {a, b}
  Optional = {b}
  Source = {s1}
  None = None
  MaxNonce = 3
  MaxCrash = 1
INVARIANT EvidenceIsAsAsked
CHECK_DEADLOCK FALSE
