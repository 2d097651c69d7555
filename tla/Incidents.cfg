SPECIFICATION FairSpec
CONSTANTS
  Assets = {a1}
  Ids = {i1, i2, i3, i4}
  EscalationThreshold = 1
  ResolvedTtl = 1
  None = None
  IndexLag = FALSE
  Requests = {"acknowledge"}
  MaxRetries = 1
  MaxBatch = 2
  MaxDiagnoses = 2
  MaxClock = 1
INVARIANTS OneActiveIncident EmittedIsRecorded
PROPERTIES SeverityNeverDowngrades HistoryIsAppendOnly FollowsLifecycle BatchSettles
CHECK_DEADLOCK FALSE
