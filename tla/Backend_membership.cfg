\* An owner removes members and changes roles, statement by statement, while
\* a request of anybody logs in or refreshes.
SPECIFICATION Spec
CONSTANTS
  None = None
  boss = boss
  User = {boss, alice}
  Token = {p1, p2, p3}
  Request = {r1}
  TeamCall = {c1}
  Offered = {"login", "refresh", "revoke", "role"}
  RoutedLogout = TRUE
  InitialRole <- MCInitialRole
  MaxTime = 1
  AccessTTL = 1
  RefreshTTL = 2
  MaxFailedAttempts = 1
  LockoutDuration = 1
  FailureBound = 0
INVARIANTS
  TypeOK
  SuspensionBoundsAccess
  RoleChangeBoundsAccess
  OnlyOwnersAdminister
SYMMETRY Symmetry
CHECK_DEADLOCK FALSE
