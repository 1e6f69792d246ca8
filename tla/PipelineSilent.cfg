SPECIFICATION Spec
CONSTANTS
  c1 = c1
  Calls = {c1}
  r1 = r1
  Recordings = {r1}
  None = None
  MaxStarts = 1
  MaxAttempts = 2
  Storage = "local"
  SttOutcomes = {"turns", "silent", "error"}
  AnalysisOutcomes = {"completed"}
  MemoryMayFail = FALSE
  Known = TRUE
  Deletable = {}
  Rerunnable = {}
  MaxBlips = 0
INVARIANTS
  SilenceIsShownFailed
CHECK_DEADLOCK FALSE
