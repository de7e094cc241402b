\* Two replies to one ticket cross each other.
SPECIFICATION Spec
CONSTANTS
  None = None
  boss = boss
  helper = helper
  t1 = t1
  k1 = k1
  User = {helper}
  Tenant = {t1}
  Email = {e1}
  Invitee = {}
  Message = {m1, m2}
  Job = {j1, j2}
  ClaimedRole <- MCClaimedRole
  TicketOf <- MCTicketOf
  TrialDays <- MCTrialDays
  SetTo = {}
  JobBound = 2
  CodeTTL = 1
  InvitationTTL = 1
  MaxTime = 2
INVARIANT StampIsNewest
SYMMETRY Symmetry
CHECK_DEADLOCK FALSE
