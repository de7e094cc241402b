\* Any three calls of the panel, two at a time, interleaved statement by
\* statement.
SPECIFICATION Spec
CONSTANTS
  None = None
  boss = boss
  helper = helper
  t1 = t1
  k1 = k1
  User = {boss, helper, looker}
  Tenant = {t1, t2, t3}
  Email = {e1, e2}
  Invitee = {guest}
  Message = {m1, m2}
  Job = {j1, j2}
  ClaimedRole <- MCClaimedRole
  TicketOf <- MCTicketOf
  TrialDays <- MCTrialDays
  SetTo = {"closed", "high", "admin", "owner"}
  JobBound = 3
  CodeTTL = 1
  InvitationTTL = 1
  MaxTime = 1
INVARIANTS
  TypeOK
  NoOrphans
  EmailsStayUnique
  JournalClaimsWhatHappened
  DeletionClaimedByOverlap
  RolesKeepToTheirDuties
  StampLagsOnlyUnderOverlap
SYMMETRY Symmetry
CHECK_DEADLOCK FALSE
