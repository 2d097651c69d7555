SPECIFICATION FairSpec
CONSTANTS
  Stamp <- Repeated
  BatchSize = 4
  ChunkSize = 2
  DeleteSize = 1
  PageSize = 2
  MaxRetries = 1
  Faults = {"throttle", "timeout", "unprocessed"}
  MaxClears = 1
INVARIANTS NothingElseLost LatestWins 
PROPERTIES LaneShrinks LaneMoves
CHECK_DEADLOCK FALSE
