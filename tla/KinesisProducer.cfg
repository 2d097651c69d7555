SPECIFICATION FairSpec
CONSTANTS
  Total = 5
  BatchOption = 3
  MaxBatchSize = 500
  MaxRetries = 3
INVARIANTS ResultIsSafe NoRecordTwice OvertakenOnlyWithinChunk
PROPERTY Returns
CHECK_DEADLOCK FALSE
