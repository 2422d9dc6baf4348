SPECIFICATION BenchSpec
CONSTANTS
  Benches = {"own", "arming"}
  Throttles = {0, 48, 1000}
  Dshot = TRUE
  LinkMayDrop = FALSE
  RotorTurns = FALSE
  RotorMaySeize = FALSE
  StuckRotorProtection = TRUE
  LowVoltageCutOff = TRUE
  BrakeOnStop = FALSE
  ArmingTicks = 0
  SignalTimeoutDisarm = 0
  SignalTimeoutMax = 1
  StallThreshold = 0
  IntervalMax = 1
  ZcForAdvance = 1
  ZcExit = 2
  ZcStartup = 3
  ZcTurning = 2
  ZcReliable = 3
  ZcCap = 4
  TimeoutStrict = 1
  TimeoutLenient = 2
  Latched = 4
  LvcThreshold = 1
  LvcModulus = 3
INVARIANTS
  LatchHoldsInput
PROPERTIES
  LatchStops
  SilenceDisarms
  ZeroThrottleAlwaysArms
