SPECIFICATION DriveSpec
CONSTANTS
  Benches = {"direction", "power", "crossings", "timing", "limits"}
  DshotSticks = {0, 500, 1500}
  ServoSticks = {400, 1000, 1600}
  DeadBand = 20
  DutyScale = 2000
  ThrottleMax = 2047
  ThrottleMin = 47
  StartupCrossings = 2
  RampThreshold = 2
  RampStartup = 100
  RampLowRpm = 200
  RampHighRpm = 300
  Inputs = {0, 1000}
  DutyCeilings = {800, 2000}
  Boosts = {0, 50, 350}
  StallProtections = {0, 1}
  StartupPowers = {100, 150}
  PwmFrequencies = {24}
  BoardBoosts = {TRUE, FALSE}
  BrakeStrengths = {0, 9}
  BoardDeadTime = 60
  CrossingsCap = 2
  MaxDisturbances = 4
  SampleSize = 5
  BadThreshold = 2
  MinCounts = {2, 3}
  StepAtOnce = 2
  RoutineExit = 3
  ZeroCrossingsCap = 4
  Paces = {20, 33}
  FirstInterval = 125
  ResetInterval = 50
  ExitInterval = 40
  AdvanceLevels = {13, 23}
  MaxUpsets = 2
  PidUnit = 2
  BoostMax = 2
  FullCeiling = 4
  FloorCeiling = 1
  StallKd = 2
  StallIntegral = 2
  StallOutput = 3
  CurrentKp = 1
  CurrentKis = {0, 1}
  CurrentKd = 1
  CurrentIntegral = 4
  CurrentOutput = 4
  StallTarget = 3
  CurrentTarget = 2
  Intervals = {2, 5}
  Loads = {0, 3, 5}
  MaxChanges = 4
INVARIANTS
  DriveTypeOK
  StickObeyed
  StartsWithoutPanic
  CrossingsCounted
  DelayNeverWraps
PROPERTIES
  StickDecides
  SoftStart
  DutySettles
  IntervalFollowsPace
  LimitsSettle
