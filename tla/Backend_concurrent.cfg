\* Up to three logins of one account at once, every password right or wrong, and
\* two requests of one member, interleaved statement by statement.
SPECIFICATION Spec
CONSTANTS
  None = None
  boss = boss
  User = {alice}
  Token = {p1, p2, p3}
  Request = {r1, r2, r3}
  TeamCall = {}
  Offered = {"login", "refresh", "logout_all"}
  RoutedLogout = TRUE
  InitialRole <- MCInitialRole
  MaxTime = 2
  AccessTTL = 1
  RefreshTTL = 2
  MaxFailedAttempts = 3
  LockoutDuration = 1
  FailureBound = 5
INVARIANT GuessesBeforeLock
PROPERTY ChainsHold
CONSTRAINT GuessingOrRotating
SYMMETRY Symmetry
CHECK_DEADLOCK FALSE
