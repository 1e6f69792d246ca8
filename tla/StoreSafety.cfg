SPECIFICATION Spec
CONSTANTS
  SupabaseHosts = {prod}
  S3Hosts = {aws}
  LocalHosts = {dev}
  Ephemeral = {prod, aws}
  Keyed = {prod, dev}
  Calls = {c1, c2}
  Legacy = {c2}
  Kinds = {"clear", "mp4 brand", "opaque"}
  None = None
  MaxRedeploys = 2
INVARIANTS
  TypeOK
  CloudUrlIsStored
  AckedOutlivesRedeploy
  RecoveryFindsAudio
PROPERTIES
  ReachStays
CHECK_DEADLOCK FALSE
