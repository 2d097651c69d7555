SPECIFICATION FairSpec
CONSTANTS
  Manifest <- OneRobot
  Robots <- Numbered
  WorkerCount = 1
  Buttons = {"bootstrap", "scenario", "incidents", "history", "reset", "simulator", "enable", "disable"}
  Picked = {"healthy"}
  MaxPresses = 2
  MaxTriggers = 1
  MaxMishaps = 1
  MaxAttempts = 2
  Faults = {"dynamo", "invoke", "kinesis", "crash", "answer"}
  None = None
 
PROPERTIES UndisturbedGetsReady 
CHECK_DEADLOCK FALSE
