\* One request at a time, the way every test of auth_test.go runs them.
SPECIFICATION Spec
CONSTANTS
  None = None
  boss = boss
  User = {alice}
  Token = {p1, p2, p3}
  Request = {r1}
  TeamCall = {}
  Offered = {"login", "refresh", "logout", "logout_all"}
  RoutedLogout = FALSE
  InitialRole <- MCInitialRole
  MaxTime = 3
  AccessTTL = 2
  RefreshTTL = 3
  MaxFailedAttempts = 2
  LockoutDuration = 1
  FailureBound = 2
INVARIANTS
  OneExchangePerToken
  ClosedSessionsStayClosed
  LogoutKillsAccess
SYMMETRY Symmetry
CHECK_DEADLOCK FALSE
