SPECIFICATION Spec
CONSTANTS
  Throttles = {0, 1000}
  Dshot = TRUE
  LinkMayDrop = FALSE
  RotorTurns = FALSE
  RotorMaySeize = FALSE
  StuckRotorProtection = FALSE
  LowVoltageCutOff = TRUE
  BrakeOnStop = FALSE
  ArmingTicks = 1
  SignalTimeoutDisarm = 1
  SignalTimeoutMax = 2
  StallThreshold = 1
  IntervalMax = 2
  ZcForAdvance = 1
  ZcExit = 2
  ZcStartup = 3
  ZcTurning = 2
  ZcReliable = 3
  ZcCap = 4
  TimeoutStrict = 1
  TimeoutLenient = 2
  Latched = 4
  LvcThreshold = 2
  LvcModulus = 4
PROPERTIES
  CutoffDisarms
