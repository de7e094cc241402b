\* Two refreshes of one token cross each other.
SPECIFICATION Spec
CONSTANTS
  None = None
  boss = boss
  User = {alice}
  Token = {p1, p2, p3}
  Request = {r1, r2}
  TeamCall = {}
  Offered = {"login", "refresh"}
  RoutedLogout = TRUE
  InitialRole <- MCInitialRole
  MaxTime = 2
  AccessTTL = 2
  RefreshTTL = 2
  MaxFailedAttempts = 1
  LockoutDuration = 1
  FailureBound = 0
INVARIANT OneExchangePerToken
SYMMETRY Symmetry
CHECK_DEADLOCK FALSE
