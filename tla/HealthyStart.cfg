SPECIFICATION Spec
CONSTANTS
  Window = 60
  OnsetTick = 90
  Bursts = {120, 150, 180}
  Patterns = {1, 2, 5}
  Conditions <- RobotConditions
  MaxSamples = 3
  MaxLives = 2
  Null = Null
INVARIANT HealthyStaysNominal
CHECK_DEADLOCK FALSE
