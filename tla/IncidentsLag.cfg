SPECIFICATION Spec
CONSTANTS
  Assets = {a1}
  Ids = {i1, i2}
  EscalationThreshold = 1
  ResolvedTtl = 1
  None = None
  IndexLag = TRUE
  Requests = {"clear"}
  MaxRetries = 1
  MaxBatch = 1
  MaxDiagnoses = 2
  MaxClock = 1
INVARIANTS StampsConsistent EffectsBounded
CHECK_DEADLOCK FALSE
