SPECIFICATION Spec
CONSTANTS
  Threads = {t1, t2, t3}
  NumKeys = 4
  Healthy = {2}
  Retries = TRUE
INVARIANTS
  TypeOK
  HealthyKeyKept
  HealthyKeyFound
CHECK_DEADLOCK FALSE
