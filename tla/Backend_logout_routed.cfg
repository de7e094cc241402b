\* A single client logs in and out again, over the routes of router.go.
SPECIFICATION Spec
CONSTANTS
  None = None
  boss = boss
  User = {alice}
  Token = {p1, p2}
  Request = {r1}
  TeamCall = {}
  Offered = {"login", "logout"}
  RoutedLogout = TRUE
  InitialRole <- MCInitialRole
  MaxTime = 2
  AccessTTL = 2
  RefreshTTL = 2
  MaxFailedAttempts = 1
  LockoutDuration = 1
  FailureBound = 0
INVARIANT LogoutKillsAccess
SYMMETRY Symmetry
CHECK_DEADLOCK FALSE
