SPECIFICATION Spec
CONSTANTS
  Processes = {p1, p2}
  Telecallers = {t1, t2}
  Managers = {m1}
  Phones = {ph1}
  Names = {n1}
  None = None
  Absent = Absent
  NumStages = 3
  Won = 2
  MaxRequests = 5
SYMMETRY Symmetry
INVARIANTS
  TypeOK
  CreatedOnce
  RevenueIsBoard
  TrailTellsStage
PROPERTIES
  OwnersStick
  ToldOnlyOwners
CHECK_DEADLOCK FALSE
