\* A refresh under way crosses the revocation of its session.
SPECIFICATION Spec
CONSTANTS
  None = None
  boss = boss
  User = {alice}
  Token = {p1, p2, p3}
  Request = {r1, r2}
  TeamCall = {}
  Offered = {"login", "refresh", "logout"}
  RoutedLogout = TRUE
  InitialRole <- MCInitialRole
  MaxTime = 2
  AccessTTL = 2
  RefreshTTL = 2
  MaxFailedAttempts = 1
  LockoutDuration = 1
  FailureBound = 0
INVARIANT ClosedSessionsStayClosed
SYMMETRY Symmetry
CHECK_DEADLOCK FALSE
