SPECIFICATION FairSpec
CONSTANTS
  None = None
  Tab = {1,2}
  User = {u, v}
  Request = {"r1","r2"}
  Budget = 4
  LongBudget = 3
INVARIANTS TypeOK ReuseHasACause AppliedAtMostOnce UserOwnsToken
PROPERTIES CallsSettle LeavesChecking
CHECK_DEADLOCK FALSE
