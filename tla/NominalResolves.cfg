SPECIFICATION FairSpec
CONSTANTS
  Manifest <- OneRobot
  Robots <- Numbered
  WorkerCount = 1
  Buttons = {"scenario"}
  Picked = {"joint_3_degradation", "healthy"}
  MaxPresses = 2
  MaxTriggers = 0
  MaxMishaps = 0
  MaxAttempts = 1
  Faults = {}
  None = None
PROPERTY NominalResolves
CHECK_DEADLOCK FALSE
