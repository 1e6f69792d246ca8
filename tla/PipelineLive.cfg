SPECIFICATION FairSpec
CONSTANTS
  c1 = c1
  c2 = c2
  Calls = {c1, c2}
  r1 = r1
  Recordings = {r1}
  None = None
  MaxStarts = 3
  MaxAttempts = 2
  Storage = "s3"
  SttOutcomes = {"turns", "silent", "error"}
  AnalysisOutcomes = {"completed", "not_relevant", "failed"}
  MemoryMayFail = TRUE
  Known = TRUE
  Deletable = {c1}
  Rerunnable = {c2}
  MaxBlips = 0
PROPERTIES
  ImplementsQueue
  JobsSettle
  FailedIsRetried
  
  ProcessingEnds
CHECK_DEADLOCK FALSE
