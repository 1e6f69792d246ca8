SPECIFICATION Spec
CONSTANTS
  c1 = c1
  c2 = c2
  Calls = {c1, c2}
  r1 = r1
  r2 = r2
  Recordings = {r1, r2}
  None = None
  MaxStarts = 3
  MaxAttempts = 2
  Storage = "supabase"
  SttOutcomes = {"turns", "silent", "error"}
  AnalysisOutcomes = {"completed", "not_relevant", "failed"}
  MemoryMayFail = FALSE
  Known = FALSE
  Deletable = {c1}
  Rerunnable = {}
  MaxBlips = 1
SYMMETRY RecordingSymmetry
INVARIANTS
  TypeOK
  AttemptsCapped
  OneCallPerRecording
  DoneIsShownDone
  ProcessingIsOwned
  NeverFakeCompletes
PROPERTIES
  CompletedIsFinal
CHECK_DEADLOCK FALSE
