SPECIFICATION Spec
CONSTANTS
  c1 = c1
  Calls = {c1}
  r1 = r1
  Recordings = {r1}
  None = None
  MaxStarts = 2
  MaxAttempts = 2
  Storage = "local"
  SttOutcomes = {"turns"}
  AnalysisOutcomes = {"completed"}
  MemoryMayFail = FALSE
  Known = TRUE
  Deletable = {}
  Rerunnable = {}
  MaxBlips = 0
INVARIANTS
  AckedIsTracked
CHECK_DEADLOCK FALSE
