SPECIFICATION FairSpec
CONSTANTS
  Assets = {a1}
  Debounce = 2
  None = None
  ReadLag = TRUE
  Requests = {"reset"}
  Faults = {"bedrock"}
  MaxRetries = 1
  Backlog <- OneElevated
  MaxReadings = 1
  MaxBatch = 2
  MaxClock = 2
PROPERTY LanesDrain
CHECK_DEADLOCK FALSE
