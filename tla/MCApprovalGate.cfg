SPECIFICATION ApprovalFairSpec
CONSTANTS
  Request = {q1, q2}
  Click = {k1, k2}
  Permission = {q1}
  Uncancellable = {q2}
CHECK_DEADLOCK FALSE
INVARIANTS
  ShownAnsweredOnce
  ResolvedWasAnswered
PROPERTY PendingSettles
