SPECIFICATION FairSpec
CONSTANTS
  Total = 4
  Parallelism = 2
  MaxRetries = 1
  Faults = {"kinesis", "sqs", "timeout"}
INVARIANT CopiesBoundedByDeliveries
PROPERTY BatchSettles
CHECK_DEADLOCK FALSE
