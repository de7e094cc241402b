SPECIFICATION FairSpec
CONSTANTS
  None = None
  c1 = c1
  c2 = c2
  t1 = t1
  m1 = m1
  m2 = m2
  e1 = e1
  e2 = e2
  Client = {c1, c2, c3, c4}
  Ticket = {t1}
  Member = {m1, m2}
  Email = {e1, e2}
  Text = {"default", "ours"}
  Priority = {"normal", "high"}
  PageSize = {1, 2}
  Days = {0, 14}
  Slot = {1, 2}
  PerDay = 2
  Moment <- MCMoment
  Scene <- MCScene
  FirstDb <- MCFirstDb
INVARIANTS TypeOK OlderOnlyIfOvertaken ConflictExplained TypedTextSurvives RangeIsHonest PeriodKeepsWholeDays
PROPERTIES NothingAskedOfTheDeleted ComesToRest
CHECK_DEADLOCK FALSE
