SPECIFICATION DeviceSpec
CONSTANTS
  Benches = {"link", "capture", "replies", "codec", "priorities", "board", "receiver", "bridge", "comparators"}
  Repetitions = 3
  MaxArmings = 2
  UsesCap = 3
  CurrentEvery = 4
  EdtCycle = 12
  VoltageAt = 6
  TemperatureAt = 10
  HighCount = 2
  LowCount = 2
  CounterSize = 5
  EntryCount = 1
  Pulses = {1000, 1880, 1960}
  LowBytes = {175}
  HighBytes = {75}
  DshotThrottles = {0, 2047}
  SteadyTime = 500
  FrameTimes = {500, 900}
  MaxMoves = 2
  Lag = 1
  LinkArmingTicks = 0
  FirstEdges = 32
  BitTimes = {27, 31, 37}
  FrameTimeLow = 400
  FrameTimeHigh = 600
  LastWord = 4095
  KeptSteps = 16
  PulseOutput = TRUE
  FrameWords = 32
  ReplyWords = 31
  Enables = {TRUE, FALSE}
  BrakesOnStop = {TRUE, FALSE}
INVARIANTS
  DeviceTypeOK
  CalibrationSafe
  WindowAdmitsSteady
  RepliesFollowFrames
  OneHandlerAtATime
  CodesRoundTrip
  BoardReady
  TransfersFit
  BridgeSafe
  WatchesFloatingPhase
PROPERTIES
  HeldStickCalibrates
  ServoAligns
  EveryKindSent
  BoardComesUp
  ReceiverListens
  CrossingTaken
