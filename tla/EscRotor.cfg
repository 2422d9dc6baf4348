SPECIFICATION BenchSpec
CONSTANTS
  Benches = {"own"}
  Throttles = {0, 1000}
  Dshot = FALSE
  LinkMayDrop = FALSE
  RotorTurns = TRUE
  RotorMaySeize = TRUE
  StuckRotorProtection = FALSE
  LowVoltageCutOff = FALSE
  BrakeOnStop = FALSE
  ArmingTicks = 0
  SignalTimeoutDisarm = 0
  SignalTimeoutMax = 1
  StallThreshold = 0
  IntervalMax = 1
  ZcForAdvance = 1
  ZcExit = 2
  ZcStartup = 3
  ZcTurning = 1
  ZcReliable = 2
  ZcCap = 3
  TimeoutStrict = 0
  TimeoutLenient = 0
  Latched = 2
  LvcThreshold = 2
  LvcModulus = 4
INVARIANTS
  TypeOK
  CommutationUnderWay
PROPERTIES
  SeizedRotorStops
  KeepsLifecycle
