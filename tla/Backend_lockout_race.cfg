\* Two logins with a wrong password cross each other.
SPECIFICATION Spec
CONSTANTS
  None = None
  boss = boss
  User = {alice}
  Token = {p1}
  Request = {r1, r2}
  TeamCall = {}
  Offered = {"login"}
  RoutedLogout = TRUE
  InitialRole <- MCInitialRole
  MaxTime = 2
  AccessTTL = 2
  RefreshTTL = 2
  MaxFailedAttempts = 2
  LockoutDuration = 1
  FailureBound = 3
INVARIANT LockedAtThreshold
SYMMETRY Symmetry
CHECK_DEADLOCK FALSE
