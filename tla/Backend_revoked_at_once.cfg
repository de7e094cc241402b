\* An owner removes a member who is signed in.
SPECIFICATION Spec
CONSTANTS
  None = None
  boss = boss
  User = {boss, alice}
  Token = {p1, p2}
  Request = {r1}
  TeamCall = {c1}
  Offered = {"login", "revoke"}
  RoutedLogout = TRUE
  InitialRole <- MCInitialRole
  MaxTime = 1
  AccessTTL = 1
  RefreshTTL = 2
  MaxFailedAttempts = 1
  LockoutDuration = 1
  FailureBound = 0
INVARIANT RevokedLosesAccessAtOnce
SYMMETRY Symmetry
CHECK_DEADLOCK FALSE
