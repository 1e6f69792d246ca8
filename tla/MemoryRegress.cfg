SPECIFICATION Spec
CONSTANTS
  NumCalls = 2
  Requests = {}
  Window = 2
  ModelFails = FALSE
  Deletable = {}
  Rerunnable = {}
PROPERTIES
  LaterCallsKept
CHECK_DEADLOCK FALSE
