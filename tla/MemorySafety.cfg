SPECIFICATION Spec
CONSTANTS
  NumCalls = 2
  Requests = {q1}
  Window = 1
  ModelFails = TRUE
  Deletable = {1}
  Rerunnable = {1}
INVARIANTS
  TypeOK
  BriefMatchesMemory
PROPERTIES
  MemoryNeverEmptied
CHECK_DEADLOCK FALSE
