SPECIFICATION Spec
CONSTANTS
  Assets = {a1}
  Debounce = 2
  None = None
  ReadLag = FALSE
  Requests = {}
  Faults = {"invocation"}
  MaxRetries = 1
  Backlog <- NoBacklog
  MaxReadings = 2
  MaxBatch = 2
  MaxClock = 0
INVARIANTS   FoldsBounded BedrockCallsBounded
CHECK_DEADLOCK FALSE
