SPECIFICATION FairSpec
CONSTANTS
  Client = {k1, k2}
  MaxConn = 2
  MaxJob = 2
  MaxRetry = 1
  Overloadable = {"thread/start"}
INVARIANTS
  WaitsInOrder
  AnswerIsOwn
  ExecutedOnce
PROPERTIES
  JobSettles
CHECK_DEADLOCK FALSE
