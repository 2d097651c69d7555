SPECIFICATION FairSpec
CONSTANTS
  SilenceTicks = 1
  MaxRecordTicks = 2
  MinRecordChunks = 3
  PreRoll = 1
  SessionTimeout = 4
  BufferSize = 1
  MaxTurns = 2
  Intents = {"AssetStatus", "FleetOverview", "ExplainRisk", "RecommendAction", "AcknowledgeIncident", "Other"}
  MaxChanges = 2
  PanelLimit = 2
  Failing = TRUE
  Nothing = Nothing
INVARIANTS NothingDiscarded SpeechKeepsSession    
PROPERTY StopEndsExchange
CHECK_DEADLOCK FALSE
