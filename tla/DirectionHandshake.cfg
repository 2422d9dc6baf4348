SPECIFICATION Spec
CONSTANTS
  DshotSticks = {0, 500, 1500}
  ServoSticks = {400, 1000, 1600}
  DeadBand = 20
PROPERTIES
  BrakesBeforeReversing
