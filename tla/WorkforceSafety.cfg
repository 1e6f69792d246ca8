SPECIFICATION Spec
CONSTANTS
  Users = {f, a, b}
  Emails = {e1, e2}
  Orgs = {o1, o2}
  Devices = {d1}
  Slots = {s1, s2}
  None = None
  Boss = f
  MaxRequests = 4
  DayLength = 3
  MaxShift = 2
  Horizon = 5
INVARIANTS
  TypeOK
  AnsweredOnce
  HoursHonest
PROPERTIES
  FoundersByFounders
  CorrectionSticks
SYMMETRY Alike
CHECK_DEADLOCK FALSE
