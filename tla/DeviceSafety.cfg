SPECIFICATION Spec
CONSTANTS
  k1 = k1
  k2 = k2
  l1 = l1
  Telecallers = {t1}
  Calls = {k1, k2}
  Leads = {l1}
  Stranger = other
  Number <- MCNumber
  FollowUps = {f1, f2}
  Dues = {d1, d2}
  Slots = {s1, s2}
  None = None
  Gone = Gone
  Window = 1
  Horizon = 2
  MaxRequests = 4
INVARIANTS
  TypeOK
  SentOnce
  FeedTellsState
SYMMETRY Alike
CHECK_DEADLOCK FALSE
