CONSTANTS
  Catalogs <- Catalogs3
  Answer <- Answers
  Update <- Updates
  Choosable = {"LIMITED", "DISABLED"}
  Thresholds <- Thresholds1
  Sealable <- Plans
  Request <- Asks
SPECIFICATION Spec
INVARIANT UltraIsAudited
