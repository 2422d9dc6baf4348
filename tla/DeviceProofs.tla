------------------------------ MODULE DeviceProofs ------------------------------
(***************************************************************************)
(* What the parts of the device promise holds where they are put together,    *)
(* and, of its hardware, that the capture channel is always set up for the      *)
(* direction it goes in, that the comparator watches the phase that floats,      *)
(* and that the bring-up of the board has a peripheral ready when it is used.    *)
(***************************************************************************)
EXTENDS Device, SignalProofs, BridgeProofs, CodecProofs, WellFoundedInduction

(* Every part begins as it does alone. *)
LEMMA PartsBegin ==
  DeviceInit => /\ LinkInit /\ CaptureInit /\ RepliesInit /\ CodecInit
                /\ PrioritiesInit /\ BoardInit /\ ReceiverInit /\ BridgeInit
                /\ ComparatorInit /\ bench \in Benches
BY Zenon DEF DeviceInit

(* Every part steps as it does alone, or rests. *)
LEMMA LinkSteps == [DeviceNext]_deviceVars => [LinkNext]_linkVars
BY Zenon DEF DeviceNext, deviceVars

LEMMA CaptureSteps == [DeviceNext]_deviceVars => [CaptureNext]_captureVars
BY Zenon DEF DeviceNext, deviceVars

LEMMA RepliesSteps == [DeviceNext]_deviceVars => [RepliesNext]_replyVars
BY Zenon DEF DeviceNext, deviceVars

LEMMA CodecSteps == [DeviceNext]_deviceVars => [NextWord]_word
BY Zenon DEF DeviceNext, deviceVars

LEMMA PrioritiesSteps == [DeviceNext]_deviceVars => [PrioritiesNext]_prioritiesVars
BY Zenon DEF DeviceNext, deviceVars

LEMMA BridgeSteps == [DeviceNext]_deviceVars => [BridgeNext]_bridgeVars
BY Zenon DEF DeviceNext, deviceVars

(* Nothing makes another chip of it. *)
LEMMA ChipOfBoard == BoardNext => UNCHANGED chip
BY DEF BoardNext, WriteRegisters, FlagComes, Perform, GiveUp, MainRuns

LEMMA ChipOfReceiver == ReceiverNext => UNCHANGED chip
BY DEF ReceiverNext, BootCode, StartReceiving, InitReturns, ReceiveAgain, HandOver,
       FirstHandler, Transfer, TransferCompleteIrq, FrameIrq, ArmedChanges, Unmoved

LEMMA ChipOfComparators == ComparatorNext => UNCHANGED chip
BY DEF ComparatorNext, StartMotorTick, PollingTick, ComparatorIrq, StepTimerIrq,
       FallBackToPolling, OutputChanges, OtherChanges

LEMMA ChipStays == [DeviceNext]_deviceVars => UNCHANGED chip
BY ChipOfBoard, ChipOfReceiver, ChipOfComparators, Zenon DEF DeviceNext, deviceVars

LEMMA BringUpSteps == [DeviceNext]_deviceVars => [BoardNext]_<<chip, bringUpVars>>
<1>1. [DeviceNext]_deviceVars => BoardNext \/ UNCHANGED bringUpVars
  BY Zenon DEF DeviceNext, deviceVars
<1> QED BY <1>1, ChipStays, Zenon

LEMMA ReceiverSteps == [DeviceNext]_deviceVars => [ReceiverNext]_<<chip, receiverVars>>
<1>1. [DeviceNext]_deviceVars => ReceiverNext \/ UNCHANGED receiverVars
  BY Zenon DEF DeviceNext, deviceVars
<1> QED BY <1>1, ChipStays, Zenon

LEMMA ComparatorSteps ==
  [DeviceNext]_deviceVars => [ComparatorNext]_<<chip, comparatorVars>>
<1>1. [DeviceNext]_deviceVars => ComparatorNext \/ UNCHANGED comparatorVars
  BY Zenon DEF DeviceNext, deviceVars
<1> QED BY <1>1, ChipStays, Zenon

LEMMA BenchStays == [DeviceNext]_deviceVars => UNCHANGED bench
BY Zenon DEF DeviceNext, deviceVars

(* A composition of parts is each of them; the hardware parts are of one chip.   *)
LEMMA PartsRun ==
  DeviceSpec => /\ LinkInit /\ [][LinkNext]_linkVars
                /\ CaptureInit /\ [][CaptureNext]_captureVars
                /\ RepliesInit /\ [][RepliesNext]_replyVars
                /\ CodecInit /\ [][NextWord]_word
                /\ PrioritiesInit /\ [][PrioritiesNext]_prioritiesVars
                /\ BridgeInit /\ [][BridgeNext]_bridgeVars
                /\ BoardInit /\ [][BoardNext]_<<chip, bringUpVars>>
                /\ ReceiverInit /\ [][ReceiverNext]_<<chip, receiverVars>>
                /\ ComparatorInit /\ [][ComparatorNext]_<<chip, comparatorVars>>
BY PartsBegin, LinkSteps, CaptureSteps, RepliesSteps, CodecSteps, PrioritiesSteps,
   BridgeSteps, BringUpSteps, ReceiverSteps, ComparatorSteps, PTL DEF DeviceSpec

(* What the signal's parts promise is kept where they run together with the        *)
(* hardware: calibration, replies and priorities (servo.rs:137-197,              *)
(* isr_handlers.rs:12-190, chip.rs:53-68).                                     *)
THEOREM SignalKeepsItsPromises ==
  DeviceSpec => [](CalibrationSafe /\ RepliesFollowFrames /\ OneHandlerAtATime)
<1>1. ExclusionInv => OneHandlerAtATime
  BY DEF ExclusionInv
<1> QED
  BY <1>1, PartsRun, LinkHolds, InvCalibrates, FollowingHolds, ExclusionHolds, PTL

(* The window of an undisturbed transmitter, from 16 ticks up                    *)
(* (transfer.rs:147-160).                                                   *)
THEOREM WindowKeepsAdmitting ==
  ASSUME SteadyTime >= 16
  PROVE  DeviceSpec => []WindowAdmitsSteady
<1>1. LinkInv => WindowAdmitsSteady
  BY InvAdmits
<1> QED BY <1>1, PartsRun, LinkHolds, PTL

(* The bridge never shorts for longer than a jump takes, leaves one phase to the   *)
(* comparator and is opened by a panic, where it is driven together with the rest   *)
(* of the hardware (phase.rs:21-150, panic_handler.rs:33-70).                     *)
THEOREM DriverKeepsBridgeSafe == DeviceSpec => []BridgeSafe
BY PartsRun, BridgeAlwaysSafe, PTL DEF BridgeSpec

(* On its bench, the codec brings back every frame and every reply                 *)
(* (dshot.rs:46-157).                                                       *)
THEOREM CodesAlwaysRoundTrip == DeviceSpec => []CodesRoundTrip
<1>1. FramesDecode /\ RepliesDecode => CodesRoundTrip
  BY DEF CodesRoundTrip
<1> QED BY <1>1, PartsRun, WordsAlwaysRoundTrip, PTL

-----------------------------------------------------------------------------
(***************************************************************************)
(* The capture channel.  From its first start on, the direction, the timer,    *)
(* the buffer and the count belong together whether it is on or off, so that    *)
(* neither interrupt can switch on what does not fit.                        *)
(***************************************************************************)

Flags == {"EN", "TCIE", "TEIE", "MINC", "DIR"}

(* What the four chips give to the driver. *)
LEMMA ChannelOfChip ==
  ASSUME chip \in ChipNames
  PROVE  /\ Mine.stopped = {}
         /\ Mine.receive \subseteq Flags
         /\ "EN" \in Mine.receive /\ "TCIE" \in Mine.receive
         /\ "MINC" \in Mine.receive /\ "DIR" \notin Mine.receive
         /\ Mine.transmit \subseteq Flags
         /\ "EN" \in Mine.transmit /\ "TCIE" \in Mine.transmit
         /\ "MINC" \in Mine.transmit /\ "DIR" \in Mine.transmit
         /\ Mine.main_output \in BOOLEAN
<1>1. CASE chip = "F051"
  <2>1. Mine = F051!CaptureChannel
    BY <1>1 DEF Mine, Channels
  <2> QED BY <2>1 DEF F051!CaptureChannel, Flags
<1>2. CASE chip = "G071"
  <2>1. Mine = G071!CaptureChannel
    BY <1>2 DEF Mine, Channels
  <2> QED BY <2>1 DEF G071!CaptureChannel, Flags
<1>3. CASE chip = "L431"
  <2>1. Mine = L431!CaptureChannel
    BY <1>3 DEF Mine, Channels
  <2> QED BY <2>1 DEF L431!CaptureChannel, Flags
<1>4. CASE chip = "G431"
  <2>1. Mine = G431!CaptureChannel
    BY <1>4 DEF Mine, Channels
  <2> QED BY <2>1 DEF G431!CaptureChannel, Flags
<1> QED BY <1>1, <1>2, <1>3, <1>4 DEF ChipNames

LEMMA HandlersOfChip ==
  ASSUME chip \in ChipNames
  PROVE  /\ Wrap.clears = {"EN"} /\ Wrap.sets = {"EN"}
         /\ Wrap.high \in {2, 3} /\ Wrap.low = 2
<1>1. CASE chip = "F051"
  <2>1. Wrap = F051!Handlers
    BY <1>1 DEF Wrap
  <2> QED BY <2>1 DEF F051!Handlers
<1>2. CASE chip = "G071"
  <2>1. Wrap = G071!Handlers
    BY <1>2 DEF Wrap
  <2> QED BY <2>1 DEF G071!Handlers
<1>3. CASE chip = "L431"
  <2>1. Wrap = L431!Handlers
    BY <1>3 DEF Wrap
  <2> QED BY <2>1 DEF L431!Handlers
<1>4. CASE chip = "G431"
  <2>1. Wrap = G431!Handlers
    BY <1>4 DEF Wrap
  <2> QED BY <2>1 DEF G431!Handlers
<1> QED BY <1>1, <1>2, <1>3, <1>4 DEF ChipNames

ChannelFits ==
  /\ "DIR" \in control <=> transmits
  /\ timer = IF ~transmits THEN "capture"
             ELSE IF Mine.main_output THEN "main_output" ELSE "output"
  /\ memory[1] = IF transmits THEN "gcr_buf" ELSE "dma_buf"
  /\ words <= Buffers[memory[1]]
  /\ "TCIE" \in control /\ "MINC" \in control

ChannelInv ==
  /\ ReceiverTypeOK
  /\ chip \in ChipNames
  /\ place # "init" => control # {}
  /\ FrameWords <= 37 /\ control # {} => ChannelFits

LEMMA FourPlaces == Range(Places) = {"init", "main", "slot", "cell"}
BY DEF Range, Places

LEMMA WordCounts ==
  /\ FrameWords \in 0 .. 64 /\ ReplyWords \in 0 .. 64
  /\ ReplyWords <= 37 /\ FrameWords <= 64
BY WordsAssumption

LEMMA ChannelInitial == BoardInit /\ ReceiverInit => ChannelInv
<1> SUFFICES ASSUME BoardInit, ReceiverInit PROVE ChannelInv
  OBVIOUS
<1>1. {transmits, complete, software, wants, live, pulses} \subseteq BOOLEAN
  BY DEF ReceiverInit
<1> QED BY <1>1, FourPlaces DEF ReceiverInit, ChannelInv, ReceiverTypeOK

(* The channel set up anew, by either call.                                     *)
LEMMA ReceiveFits ==
  ASSUME ChannelInv, Receive, UNCHANGED chip
  PROVE  /\ control' # {} /\ ChannelFits'
         /\ control' \subseteq Flags
         /\ memory' \in {"dma_buf", "gcr_buf"} \X (Range(Places) \cup {"none"})
         /\ words' \in 0 .. 64
         /\ timer' \in {"reset", "capture", "output", "main_output"}
         /\ transmits' \in BOOLEAN
<1>1. Mine.stopped = {} /\ Mine.receive \subseteq Flags
      /\ "EN" \in Mine.receive /\ "TCIE" \in Mine.receive
      /\ "MINC" \in Mine.receive /\ "DIR" \notin Mine.receive
  BY ChannelOfChip DEF ChannelInv
<1>2. /\ control' = Mine.receive /\ timer' = "capture" /\ transmits' = FALSE
      /\ memory' = <<"dma_buf", place>> /\ words' = FrameWords
  BY <1>1 DEF Receive, Address, CountOf
<1>3. FrameWords <= Buffers["dma_buf"] /\ FrameWords \in 0 .. 64
  BY WordCounts DEF Buffers
<1>4. ChannelFits'
  BY <1>1, <1>2, <1>3 DEF ChannelFits
<1>5. place \in Range(Places)
  BY DEF ChannelInv, ReceiverTypeOK
<1> QED BY <1>1, <1>2, <1>3, <1>4, <1>5

LEMMA SendFits ==
  ASSUME ChannelInv, Send, UNCHANGED chip
  PROVE  /\ control' # {} /\ ChannelFits'
         /\ control' \subseteq Flags
         /\ memory' \in {"dma_buf", "gcr_buf"} \X (Range(Places) \cup {"none"})
         /\ words' \in 0 .. 64
         /\ timer' \in {"reset", "capture", "output", "main_output"}
         /\ transmits' \in BOOLEAN
<1>1. Mine.stopped = {} /\ Mine.transmit \subseteq Flags
      /\ "EN" \in Mine.transmit /\ "TCIE" \in Mine.transmit
      /\ "MINC" \in Mine.transmit /\ "DIR" \in Mine.transmit
  BY ChannelOfChip DEF ChannelInv
<1>2. /\ control' = Mine.transmit /\ transmits' = TRUE
      /\ timer' = IF Mine.main_output THEN "main_output" ELSE "output"
      /\ memory' = <<"gcr_buf", place>> /\ words' = ReplyWords
  BY <1>1 DEF Send, Address, CountOf
<1>3. ReplyWords <= Buffers["gcr_buf"] /\ ReplyWords \in 0 .. 64
  BY WordCounts DEF Buffers
<1>6. (IF Mine.main_output THEN "main_output" ELSE "output")'
        = IF Mine.main_output THEN "main_output" ELSE "output"
  BY DEF Mine
<1>4. ChannelFits'
  BY <1>1, <1>2, <1>3, <1>6 DEF ChannelFits
<1>5. place \in Range(Places)
  BY DEF ChannelInv, ReceiverTypeOK
<1> QED BY <1>1, <1>2, <1>3, <1>4, <1>5

LEMMA ChannelStep ==
  ASSUME ChannelInv, [ReceiverNext]_<<chip, receiverVars>>
  PROVE  ChannelInv'
<1> DEFINE Rest == {complete, software, wants, live, pulses} \subseteq BOOLEAN
<1>0. Rest /\ transmits \in BOOLEAN /\ place \in {"init", "main", "slot", "cell"}
      /\ landed \in Range(Places) \cup {"none"}
      /\ (place \in Range(Places)) /\ control \subseteq Flags
  BY FourPlaces DEF ChannelInv, ReceiverTypeOK, Flags
<1>1. CASE StartReceiving
  <2>1. Receive /\ UNCHANGED <<chip, place, complete, software, wants, live, pulses, landed>>
    BY <1>1 DEF StartReceiving, Unmoved
  <2> QED BY <1>0, <2>1, ReceiveFits DEF ChannelInv, ReceiverTypeOK, Flags
<1>2. CASE InitReturns
  <2>1. /\ place' = "main" /\ control # {}
        /\ UNCHANGED <<chip, control, memory, words, timer, transmits, complete,
                       software, wants, live, pulses, landed>>
    BY <1>2 DEF InitReturns, Unmoved
  <2> QED BY <1>0, <2>1, FourPlaces DEF ChannelInv, ReceiverTypeOK, ChannelFits, Mine
<1>3. CASE ReceiveAgain
  <2>1. Receive /\ UNCHANGED <<chip, place, complete, software, wants, live, pulses, landed>>
    BY <1>3 DEF ReceiveAgain, Unmoved
  <2> QED BY <1>0, <2>1, ReceiveFits DEF ChannelInv, ReceiverTypeOK, Flags
<1>4. CASE HandOver
  <2>1. /\ place = "main" /\ place' = "slot"
        /\ UNCHANGED <<chip, control, memory, words, timer, transmits, complete,
                       software, wants, live, pulses, landed>>
    BY <1>4 DEF HandOver, Unmoved
  <2> QED BY <1>0, <2>1, FourPlaces DEF ChannelInv, ReceiverTypeOK, ChannelFits, Mine
<1>5. CASE FirstHandler
  <2>1. /\ place = "slot" /\ place' = "cell"
        /\ UNCHANGED <<chip, control, memory, words, timer, transmits, complete,
                       software, wants, live, pulses, landed>>
    BY <1>5 DEF FirstHandler, Unmoved
  <2> QED BY <1>0, <2>1, FourPlaces DEF ChannelInv, ReceiverTypeOK, ChannelFits, Mine
<1>6. CASE Transfer
  <2>1. /\ words' = 0 /\ complete' = TRUE
        /\ landed' \in {landed, memory[2]}
        /\ UNCHANGED <<chip, place, control, memory, timer, transmits, software,
                       wants, live, pulses>>
    BY <1>6 DEF Transfer, Unmoved
  <2>2. landed' \in Range(Places) \cup {"none"}
    BY <1>0, <2>1 DEF ChannelInv, ReceiverTypeOK
  <2>3. memory[1] \in {"dma_buf", "gcr_buf"}
    BY DEF ChannelInv, ReceiverTypeOK
  <2>4. 0 <= Buffers[memory[1]] /\ 0 \in 0 .. 64
    BY <2>3 DEF Buffers
  <2>5. ReceiverTypeOK'
    BY <1>0, <2>1, <2>2, <2>4 DEF ChannelInv, ReceiverTypeOK
  <2>6. FrameWords <= 37 /\ control # {} => ChannelFits'
    BY <2>1, <2>4 DEF ChannelInv, ChannelFits, Mine
  <2> QED BY <2>1, <2>5, <2>6 DEF ChannelInv
<1>7. CASE TransferCompleteIrq
  <2>1. /\ place = "cell" /\ complete' = FALSE /\ software' = TRUE
        /\ UNCHANGED <<chip, place, wants, live, pulses, landed>>
    BY <1>7 DEF TransferCompleteIrq, Unmoved
  <2>2. CASE Receive
    BY <1>0, <2>1, <2>2, ReceiveFits DEF ChannelInv, ReceiverTypeOK, Flags
  <2>3. CASE Send
    BY <1>0, <2>1, <2>3, SendFits DEF ChannelInv, ReceiverTypeOK, Flags
  <2>4. CASE control' = SwitchedOff /\ UNCHANGED <<memory, words, timer, transmits>>
    <3>1. control' = control \ {"EN"}
      BY <2>4, HandlersOfChip DEF SwitchedOff, ChannelInv
    <3>2. control' # {}
      BY <1>7, <3>1 DEF TransferCompleteIrq
    <3>3. FrameWords <= 37 => ChannelFits'
      BY <2>1, <2>4, <3>1 DEF ChannelInv, ChannelFits, Mine
    <3>4. ReceiverTypeOK'
      BY <1>0, <2>1, <2>4, <3>1 DEF ChannelInv, ReceiverTypeOK
    <3> QED BY <2>1, <3>2, <3>3, <3>4 DEF ChannelInv
  <2> QED BY <1>7, <2>2, <2>3, <2>4 DEF TransferCompleteIrq
<1>8. CASE FrameIrq
  <2>1. /\ place = "cell" /\ software' = FALSE /\ pulses' \in {pulses, TRUE}
        /\ UNCHANGED <<chip, place, memory, timer, transmits, complete, wants, live,
                       landed>>
    BY <1>8 DEF FrameIrq, Unmoved
  <2>2. control' = control \cup {"EN"}
    BY <1>8, HandlersOfChip DEF FrameIrq, ChannelInv
  <2>3. words' \in {words, FrameWords, 2, 3}
    BY <1>8, HandlersOfChip DEF FrameIrq, ChannelInv, CountOf
  <2>4. memory[1] \in {"dma_buf", "gcr_buf"} /\ words \in 0 .. 64
    BY DEF ChannelInv, ReceiverTypeOK
  <2>5. words' \in 0 .. 64
    BY <2>3, <2>4, WordCounts
  <2>6. ASSUME FrameWords <= 37
        PROVE  ChannelFits'
    <3>1. ChannelFits
      BY <2>1, <2>6 DEF ChannelInv
    <3>2. Buffers[memory[1]] \in {37, 64} /\ words <= Buffers[memory[1]]
      BY <2>4, <3>1 DEF ChannelFits, Buffers
    <3>3. words' <= Buffers[memory[1]]
      BY <2>3, <2>4, <2>6, <3>2, WordCounts
    <3> QED BY <2>1, <2>2, <3>1, <3>3 DEF ChannelFits, Mine
  <2>7. ReceiverTypeOK'
    <3>1. pulses' \in BOOLEAN
      BY <1>0, <2>1
    <3>2. control' \subseteq Flags
      BY <1>0, <2>2 DEF Flags
    <3> QED BY <1>0, <2>1, <2>5, <3>1, <3>2 DEF ChannelInv, ReceiverTypeOK, Flags
  <2> QED BY <2>1, <2>2, <2>6, <2>7 DEF ChannelInv
<1>9. CASE ArmedChanges
  <2>1. /\ live' = ~live
        /\ UNCHANGED <<chip, place, control, memory, words, timer, transmits,
                       complete, software, wants, pulses, landed>>
    BY <1>9 DEF ArmedChanges, Unmoved
  <2> QED BY <1>0, <2>1 DEF ChannelInv, ReceiverTypeOK, ChannelFits, Mine
<1>10. CASE UNCHANGED <<chip, receiverVars>>
  BY <1>0, <1>10 DEF receiverVars, ChannelInv, ReceiverTypeOK, ChannelFits, Mine
<1> QED
  BY <1>1, <1>2, <1>3, <1>4, <1>5, <1>6, <1>7, <1>8, <1>9, <1>10
     DEF ReceiverNext, BootCode

LEMMA ChannelHolds ==
  BoardInit /\ ReceiverInit /\ [][ReceiverNext]_<<chip, receiverVars>> => []ChannelInv
BY ChannelInitial, ChannelStep, PTL

(* Whatever the order of transfers, interrupts and disarms, on each of the four     *)
(* chips: a channel that is on has direction, timer, buffer and count of one kind.  *)
(* The frame must fit the reply's buffer too, since the frame interrupt may ask for  *)
(* it in the middle of a reply (capture_generic.rs:33-57, mcu_*/interrupts.rs).    *)
THEOREM TransfersAlwaysFit ==
  ASSUME FrameWords <= 37
  PROVE  DeviceSpec => []TransfersFit
<1>1. ChannelInv => TransfersFit
  BY DEF ChannelInv, ChannelFits, TransfersFit
<1> QED BY <1>1, ChannelHolds, PartsRun, PTL

-----------------------------------------------------------------------------
(***************************************************************************)
(* The comparator.  Where an unmasked line stands, its edges were selected by   *)
(* the last step, for the phase and the direction of that step.                *)
(***************************************************************************)

(* The comparator of the four chips. *)
LEMMA SenseOfChip ==
  ASSUME chip \in ChipNames
  PROVE  /\ \A phase \in {"a", "b", "c"} : Line(phase) \in sensed.lines
         /\ chip # "G431" => sensed.rising = "rise" /\ sensed.falling = "fall"
         /\ sensed.rising \in {"rise", "fall"} /\ sensed.falling \in {"rise", "fall"}
<1>1. CASE chip = "F051"
  <2>1. sensed = F051!Sense
    BY <1>1 DEF sensed
  <2> QED BY <2>1 DEF F051!Sense, Line
<1>2. CASE chip = "G071"
  <2>1. sensed = G071!Sense
    BY <1>2 DEF sensed
  <2> QED BY <2>1 DEF G071!Sense, Line
<1>3. CASE chip = "L431"
  <2>1. sensed = L431!Sense
    BY <1>3 DEF sensed
  <2> QED BY <2>1 DEF L431!Sense, Line
<1>4. CASE chip = "G431"
  <2>1. sensed = G431!Sense
    BY <1>4 DEF sensed
  <2> QED BY <1>4, <2>1 DEF G431!Sense, Line
<1> QED BY <1>1, <1>2, <1>3, <1>4 DEF ChipNames

(* The phase that the driver watches is the one that the bridge leaves floating.    *)
LEMMA InputFloats ==
  ASSUME NEW step \in 1 .. 6
  PROVE  Input(step) = Floating(step) /\ Input(step) \in {"a", "b", "c"}
<1>1. CASE step = 1 BY <1>1 DEF Input, Floating, StepPhases
<1>2. CASE step = 2 BY <1>2 DEF Input, Floating, StepPhases
<1>3. CASE step = 3 BY <1>3 DEF Input, Floating, StepPhases
<1>4. CASE step = 4 BY <1>4 DEF Input, Floating, StepPhases
<1>5. CASE step = 5 BY <1>5 DEF Input, Floating, StepPhases
<1>6. CASE step = 6 BY <1>6 DEF Input, Floating, StepPhases
<1> QED BY <1>1, <1>2, <1>3, <1>4, <1>5, <1>6, SixSteps

(* A phase that rises, by the driver's reckoning, is one that the next step        *)
(* drives up.                                                               *)
RisesInStep(step, forward) ==
  StepPhases[NextStep(step, forward)][3] = StepPhases[step][1]

LEMMA StepTable ==
  /\ StepPhases[1][1] = "C" /\ StepPhases[1][3] = "A"
  /\ StepPhases[2][1] = "A" /\ StepPhases[2][3] = "C"
  /\ StepPhases[3][1] = "B" /\ StepPhases[3][3] = "C"
  /\ StepPhases[4][1] = "C" /\ StepPhases[4][3] = "B"
  /\ StepPhases[5][1] = "A" /\ StepPhases[5][3] = "B"
  /\ StepPhases[6][1] = "B" /\ StepPhases[6][3] = "A"
BY DEF StepPhases

LEMMA RisesByParity ==
  ASSUME NEW step \in 1 .. 6, NEW forward \in BOOLEAN
  PROVE  RisesInStep(step, forward) <=> (forward <=> step % 2 = 1)
<1>1. RisesInStep(step, TRUE) <=> step % 2 = 1
  <2>1. CASE step = 1
    <3>1. NextStep(step, TRUE) = 2 /\ step % 2 = 1 BY <2>1 DEF NextStep
    <3> QED BY <2>1, <3>1, StepTable DEF RisesInStep
  <2>2. CASE step = 2
    <3>1. NextStep(step, TRUE) = 3 /\ step % 2 = 0 BY <2>2 DEF NextStep
    <3> QED BY <2>2, <3>1, StepTable DEF RisesInStep
  <2>3. CASE step = 3
    <3>1. NextStep(step, TRUE) = 4 /\ step % 2 = 1 BY <2>3 DEF NextStep
    <3> QED BY <2>3, <3>1, StepTable DEF RisesInStep
  <2>4. CASE step = 4
    <3>1. NextStep(step, TRUE) = 5 /\ step % 2 = 0 BY <2>4 DEF NextStep
    <3> QED BY <2>4, <3>1, StepTable DEF RisesInStep
  <2>5. CASE step = 5
    <3>1. NextStep(step, TRUE) = 6 /\ step % 2 = 1 BY <2>5 DEF NextStep
    <3> QED BY <2>5, <3>1, StepTable DEF RisesInStep
  <2>6. CASE step = 6
    <3>1. NextStep(step, TRUE) = 1 /\ step % 2 = 0 BY <2>6 DEF NextStep
    <3> QED BY <2>6, <3>1, StepTable DEF RisesInStep
  <2> QED BY <2>1, <2>2, <2>3, <2>4, <2>5, <2>6, SixSteps
<1>2. RisesInStep(step, FALSE) <=> step % 2 # 1
  <2>1. CASE step = 1
    <3>1. NextStep(step, FALSE) = 6 /\ step % 2 = 1 BY <2>1 DEF NextStep
    <3> QED BY <2>1, <3>1, StepTable DEF RisesInStep
  <2>2. CASE step = 2
    <3>1. NextStep(step, FALSE) = 1 /\ step % 2 = 0 BY <2>2 DEF NextStep
    <3> QED BY <2>2, <3>1, StepTable DEF RisesInStep
  <2>3. CASE step = 3
    <3>1. NextStep(step, FALSE) = 2 /\ step % 2 = 1 BY <2>3 DEF NextStep
    <3> QED BY <2>3, <3>1, StepTable DEF RisesInStep
  <2>4. CASE step = 4
    <3>1. NextStep(step, FALSE) = 3 /\ step % 2 = 0 BY <2>4 DEF NextStep
    <3> QED BY <2>4, <3>1, StepTable DEF RisesInStep
  <2>5. CASE step = 5
    <3>1. NextStep(step, FALSE) = 4 /\ step % 2 = 1 BY <2>5 DEF NextStep
    <3> QED BY <2>5, <3>1, StepTable DEF RisesInStep
  <2>6. CASE step = 6
    <3>1. NextStep(step, FALSE) = 5 /\ step % 2 = 0 BY <2>6 DEF NextStep
    <3> QED BY <2>6, <3>1, StepTable DEF RisesInStep
  <2> QED BY <2>1, <2>2, <2>3, <2>4, <2>5, <2>6, SixSteps
<1>3. CASE forward = TRUE
  BY <1>1, <1>3
<1>4. CASE forward = FALSE
  BY <1>2, <1>4
<1> QED BY <1>3, <1>4

SelectedEdge == IF rising THEN sensed.falling ELSE sensed.rising

(* What the last step set up, and what is unmasked of it.                        *)
EdgeOfStep ==
  /\ watched = Input(sector)
  /\ IF SelectedEdge = "rise" THEN Line(watched) \in rtsr \ ftsr
     ELSE Line(watched) \in ftsr \ rtsr

WatchInv ==
  /\ ComparatorTypeOK
  /\ chip \in ChipNames
  /\ rising = (heading <=> sector % 2 = 1)
  /\ imr # {} => Line(watched) \in imr /\ EdgeOfStep

LEMMA WatchInitial == ComparatorInit => WatchInv
<1> SUFFICES ASSUME ComparatorInit PROVE WatchInv
  OBVIOUS
<1>1. sector = 1 /\ rising = TRUE /\ heading = TRUE /\ imr = {}
  BY DEF ComparatorInit
<1>2. 1 % 2 = 1 /\ 1 \in 1 .. 6
  BY SMT
<1>3. ComparatorTypeOK
  BY <1>2 DEF ComparatorInit, ComparatorTypeOK
<1>4. rising = (heading <=> sector % 2 = 1)
  BY <1>1, <1>2
<1> QED BY <1>1, <1>3, <1>4 DEF ComparatorInit, WatchInv

(* A step of the commutation selects the edge of its phase. *)
LEMMA StepSelects ==
  ASSUME WatchInv, TakeStep, UNCHANGED chip
  PROVE  /\ sector' \in 1 .. 6 /\ watched' \in {"a", "b", "c"}
         /\ rtsr' \subseteq sensed.lines /\ ftsr' \subseteq sensed.lines
         /\ {rising', heading', output', seen'} \subseteq BOOLEAN
         /\ rising' = (heading' <=> sector' % 2 = 1)
         /\ EdgeOfStep'
         /\ Line(watched') \in sensed.lines
<1>1. PICK forward \in BOOLEAN : AdvanceInput(forward)
  BY DEF TakeStep
<1>2. /\ heading' = forward /\ sector' = NextStep(sector, forward)
      /\ rising' = (forward <=> sector' % 2 = 1)
  BY <1>1 DEF AdvanceInput
<1>3. sector' \in 1 .. 6
  BY <1>2, StepsGoRound DEF WatchInv, ComparatorTypeOK
<1> DEFINE edge == IF rising' THEN sensed.falling ELSE sensed.rising
           wire == Line(watched')
<1>4. /\ watched' = Input(sector')
      /\ rtsr' = IF edge = "rise" THEN rtsr \cup {wire} ELSE rtsr \ sensed.lines
      /\ ftsr' = IF edge = "fall" THEN ftsr \cup {wire} ELSE ftsr \ sensed.lines
  BY DEF TakeStep, ChangeInput, Select
<1>5. watched' \in {"a", "b", "c"}
  BY <1>3, <1>4, InputFloats
<1>6. wire \in sensed.lines /\ edge \in {"rise", "fall"}
  BY <1>5, SenseOfChip DEF WatchInv
<1>7. rtsr \subseteq sensed.lines /\ ftsr \subseteq sensed.lines
  BY DEF WatchInv, ComparatorTypeOK
<1>8. rising' \in BOOLEAN /\ heading' \in BOOLEAN /\ output' \in BOOLEAN
      /\ seen' = FALSE
  BY <1>2 DEF TakeStep
<1>9. /\ edge = "rise" => wire \in rtsr' /\ wire \notin ftsr'
      /\ edge = "fall" => wire \in ftsr' /\ wire \notin rtsr'
  BY <1>4, <1>6
<1>10. (SelectedEdge)' = edge /\ (Line(watched))' = wire
  BY DEF SelectedEdge, Line, sensed
<1>11. EdgeOfStep'
  BY <1>4, <1>6, <1>9, <1>10 DEF EdgeOfStep
<1>12. rtsr' \subseteq sensed.lines /\ ftsr' \subseteq sensed.lines
  BY <1>4, <1>6, <1>7
<1>13. rising' = (heading' <=> sector' % 2 = 1)
  BY <1>2
<1> QED BY <1>3, <1>5, <1>6, <1>8, <1>11, <1>12, <1>13

LEMMA WatchStep ==
  ASSUME WatchInv, [ComparatorNext]_<<chip, comparatorVars>>
  PROVE  WatchInv'
<1>0. /\ {rising, heading, output, waiting, spins, polls, seen} \subseteq BOOLEAN
      /\ {rtsr, ftsr, imr, pr} \subseteq SUBSET sensed.lines
      /\ sector \in 1 .. 6 /\ watched \in {"a", "b", "c"}
  BY DEF WatchInv, ComparatorTypeOK
<1>1. CASE StartMotorTick
  <2>1. /\ spins' = TRUE /\ TakeStep /\ imr' = imr \cup {Line(watched')}
        /\ UNCHANGED <<chip, pr, waiting, polls>>
    BY <1>1 DEF StartMotorTick, Enable
  <2>2. sensed' = sensed /\ (Line(watched))' = Line(watched')
    BY <2>1 DEF sensed, Line
  <2>3. ComparatorTypeOK'
    BY <1>0, <2>1, <2>2, StepSelects DEF ComparatorTypeOK
  <2> QED BY <2>1, <2>2, <2>3, StepSelects DEF WatchInv
<1>2. CASE PollingTick
  <2>1. /\ imr' = imr \ sensed.lines /\ pr' = pr \ sensed.lines
        /\ UNCHANGED <<chip, spins, polls>>
    BY <1>2 DEF PollingTick, MaskAndClear
  <2>2. imr' = {}
    BY <1>0, <2>1
  <2>3. sensed' = sensed
    BY <2>1 DEF sensed
  <2>4. CASE TakeStep /\ UNCHANGED waiting
    <3>1. ComparatorTypeOK'
      BY <1>0, <2>1, <2>2, <2>3, <2>4, StepSelects DEF ComparatorTypeOK
    <3> QED BY <2>1, <2>2, <2>4, <3>1, StepSelects DEF WatchInv
  <2>5. CASE /\ UNCHANGED <<sector, rising, heading, watched, output, rtsr, ftsr>>
             /\ waiting' \in {waiting, TRUE} /\ seen' = FALSE
    <3>1. ComparatorTypeOK'
      BY <1>0, <2>1, <2>2, <2>3, <2>5 DEF ComparatorTypeOK
    <3> QED BY <2>1, <2>2, <2>5, <3>1 DEF WatchInv
  <2> QED BY <1>2, <2>4, <2>5 DEF PollingTick
<1>3. CASE ComparatorIrq
  <2>1. /\ imr' = imr \ sensed.lines /\ pr' = pr \ sensed.lines
        /\ waiting' = TRUE /\ seen' = FALSE
        /\ UNCHANGED <<chip, sector, rising, heading, watched, output, rtsr, ftsr,
                       spins, polls>>
    BY <1>3 DEF ComparatorIrq, MaskAndClear
  <2>2. imr' = {} /\ sensed' = sensed
    BY <1>0, <2>1 DEF sensed
  <2>3. ComparatorTypeOK'
    BY <1>0, <2>1, <2>2 DEF ComparatorTypeOK
  <2> QED BY <2>1, <2>2, <2>3 DEF WatchInv
<1>4. CASE StepTimerIrq
  <2>1. /\ waiting' = FALSE /\ TakeStep /\ imr' = imr \cup {Line(watched')}
        /\ polls' \in {polls, FALSE} /\ UNCHANGED <<chip, pr, spins>>
    BY <1>4 DEF StepTimerIrq, Enable
  <2>2. sensed' = sensed /\ (Line(watched))' = Line(watched')
    BY <2>1 DEF sensed, Line
  <2>3. ComparatorTypeOK'
    BY <1>0, <2>1, <2>2, StepSelects DEF ComparatorTypeOK
  <2> QED BY <2>1, <2>2, <2>3, StepSelects DEF WatchInv
<1>5. CASE FallBackToPolling
  <2>1. /\ polls' = TRUE /\ spins' \in {spins, FALSE}
        /\ UNCHANGED <<chip, sector, rising, heading, watched, output, rtsr, ftsr,
                       imr, pr, waiting, seen>>
    BY <1>5 DEF FallBackToPolling
  <2> QED BY <1>0, <2>1 DEF WatchInv, ComparatorTypeOK, EdgeOfStep, SelectedEdge,
                            Line, sensed
<1>6. CASE OutputChanges
  <2>1. /\ output' = ~output
        /\ pr' \in {pr, pr \cup {Line(watched)}}
        /\ seen' \in BOOLEAN
        /\ UNCHANGED <<chip, sector, rising, heading, watched, rtsr, ftsr, imr,
                       waiting, spins, polls>>
    BY <1>6 DEF OutputChanges
  <2>2. Line(watched) \in sensed.lines /\ sensed' = sensed
    BY <1>0, <2>1, SenseOfChip DEF WatchInv, sensed
  <2>3. ComparatorTypeOK'
    BY <1>0, <2>1, <2>2 DEF ComparatorTypeOK
  <2> QED BY <2>1, <2>3 DEF WatchInv, EdgeOfStep, SelectedEdge, Line, sensed
<1>7. CASE OtherChanges
  <2>1. PICK wire \in sensed.lines : pr' = pr \cup {wire}
    BY <1>7 DEF OtherChanges
  <2>2. UNCHANGED <<chip, sector, rising, heading, watched, output, rtsr, ftsr, imr,
                    waiting, spins, polls, seen>>
    BY <1>7 DEF OtherChanges
  <2>3. sensed' = sensed
    BY <2>2 DEF sensed
  <2>4. ComparatorTypeOK'
    BY <1>0, <2>1, <2>2, <2>3 DEF ComparatorTypeOK
  <2> QED BY <2>2, <2>4 DEF WatchInv, EdgeOfStep, SelectedEdge, Line, sensed
<1>8. CASE UNCHANGED <<chip, comparatorVars>>
  BY <1>0, <1>8 DEF comparatorVars, WatchInv, ComparatorTypeOK, EdgeOfStep,
                    SelectedEdge, Line, sensed
<1> QED BY <1>1, <1>2, <1>3, <1>4, <1>5, <1>6, <1>7, <1>8 DEF ComparatorNext

LEMMA WatchHolds ==
  ComparatorInit /\ [][ComparatorNext]_<<chip, comparatorVars>> => []WatchInv
BY WatchInitial, WatchStep, PTL

LEMMA InvWatches ==
  ASSUME WatchInv
  PROVE  WatchesFloatingPhase
<1> SUFFICES ASSUME imr # {}
             PROVE  /\ watched = Floating(sector)
                    /\ Line(watched) \in imr
                    /\ chip # "G431" =>
                         Line(watched) \in (IF GoesUp THEN ftsr \ rtsr ELSE rtsr \ ftsr)
  BY DEF WatchesFloatingPhase
<1>1. Line(watched) \in imr /\ EdgeOfStep /\ sector \in 1 .. 6 /\ heading \in BOOLEAN
  BY DEF WatchInv, ComparatorTypeOK
<1>2. watched = Floating(sector)
  BY <1>1, InputFloats DEF EdgeOfStep
<1>3. GoesUp <=> rising
  BY <1>1, RisesByParity DEF GoesUp, RisesInStep, WatchInv
<1>4. ASSUME chip # "G431"
      PROVE  Line(watched) \in (IF GoesUp THEN ftsr \ rtsr ELSE rtsr \ ftsr)
  <2>1. SelectedEdge = IF rising THEN "fall" ELSE "rise"
    BY <1>4, SenseOfChip DEF SelectedEdge, WatchInv
  <2> QED BY <1>1, <1>3, <2>1 DEF EdgeOfStep
<1> QED BY <1>1, <1>2, <1>4

(* An unmasked comparator is on the phase that the bridge leaves floating, through   *)
(* all steps, reversals, pending flags and falls back to polling, and at the edge   *)
(* that this phase makes on F051, G071 and L431.  Of the edge on G431, whose        *)
(* driver selects the opposite one, nothing is claimed (comparator.rs:40-58,       *)
(* commutation.rs:43-61, phase.rs:117-150).                                    *)
THEOREM AlwaysWatchesFloatingPhase == DeviceSpec => []WatchesFloatingPhase
BY PartsRun, WatchHolds, InvWatches, PTL

-----------------------------------------------------------------------------
(***************************************************************************)
(* Capture of servo pulses.  A capture that began low asked for an even number   *)
(* of edges, so the line is high exactly while an odd number is left.           *)
(***************************************************************************)

CaptureInv ==
  /\ CaptureTypeOK
  /\ from_low => (line <=> edges_left % 2 = 1)

LEMMA CaptureInitial == CaptureInit => CaptureInv
<1> SUFFICES ASSUME CaptureInit PROVE CaptureInv
  OBVIOUS
<1>0. FirstEdges \in 0 .. FirstEdges + 1 /\ FirstEdges % 2 # 1
  BY CaptureAssumption
<1>1. CaptureTypeOK
  <2>1. line \in BOOLEAN /\ (~line) \in BOOLEAN
    BY Zenon DEF CaptureInit
  <2> QED BY <1>0, <2>1, Zenon DEF CaptureInit, CaptureTypeOK
<1>2. from_low => (line <=> edges_left % 2 = 1)
  BY <1>0, Zenon DEF CaptureInit
<1> QED BY <1>1, <1>2 DEF CaptureInv

LEMMA NextEdge ==
  ASSUME NEW left \in Nat, left > 0
  PROVE  /\ left - 1 \in Nat
         /\ (left - 1) % 2 = 1 <=> left % 2 # 1
BY SMT

LEMMA CaptureStep ==
  ASSUME CaptureInv, [CaptureNext]_captureVars
  PROVE  CaptureInv' /\ (Aligned => Aligned')
<1>0. /\ resyncs \in BOOLEAN /\ line \in BOOLEAN /\ servo_pwm \in BOOLEAN
      /\ edges_left \in 0 .. FirstEdges + 1 /\ from_low \in BOOLEAN
      /\ taken \in {"nothing", "detection", "pulse", "pause"}
      /\ FirstEdges \in Nat /\ FirstEdges >= 2
  BY CaptureAssumption DEF CaptureInv, CaptureTypeOK
<1>1. CASE LineEdge
  <2>1. /\ edges_left > 0 /\ line' = ~line /\ edges_left' = edges_left - 1
        /\ UNCHANGED <<resyncs, from_low, servo_pwm, taken>>
    BY <1>1 DEF LineEdge
  <2>2. CaptureTypeOK'
    BY <1>0, <2>1 DEF CaptureTypeOK
  <2>3. edges_left' % 2 = 1 <=> edges_left % 2 # 1
    BY <1>0, <2>1, NextEdge
  <2>4. from_low' => (line' <=> edges_left' % 2 = 1)
    BY <1>0, <2>1, <2>3 DEF CaptureInv
  <2>5. Aligned => Aligned'
    BY <1>0, <2>1 DEF Aligned
  <2> QED BY <2>2, <2>4, <2>5 DEF CaptureInv
<1>2. CASE TakeCapture
  <2>1. /\ edges_left = 0 /\ servo_pwm' = TRUE /\ from_low' = ~line
        /\ edges_left' = IF resyncs /\ line THEN 3 ELSE 2
        /\ taken' \in {"nothing", "detection", "pulse", "pause"}
        /\ UNCHANGED <<resyncs, line>>
    BY <1>2 DEF TakeCapture, EdgesWanted
  <2>2. CaptureTypeOK'
    BY <1>0, <2>1 DEF CaptureTypeOK
  <2>3. from_low' => edges_left' = 2 /\ ~line'
    BY <1>0, <2>1
  <2>4. from_low' => (line' <=> edges_left' % 2 = 1)
    BY <2>3, 2 % 2 = 0
  <2>5. Aligned => Aligned'
    <3>0. edges_left % 2 # 1
      BY <2>1
    <3>1. Aligned => ~line
      BY <3>0, Zenon DEF CaptureInv, Aligned
    <3>2. Aligned => from_low' /\ servo_pwm' /\ edges_left' = 2
      BY <2>1, <3>1, Zenon
    <3>3. 2 <= 2
      OBVIOUS
    <3> QED BY <3>2, <3>3, Zenon DEF Aligned
  <2> QED BY <2>2, <2>4, <2>5 DEF CaptureInv
<1>3. CASE UNCHANGED captureVars
  BY <1>3 DEF captureVars, CaptureInv, CaptureTypeOK, Aligned
<1> QED BY <1>1, <1>2, <1>3 DEF CaptureNext

LEMMA CaptureHolds == CaptureInit /\ [][CaptureNext]_captureVars => []CaptureInv
BY CaptureInitial, CaptureStep, PTL

(* A capture that came to measure pulses from rise to fall does so for good, on all   *)
(* chips and whatever the line does between two interrupts: the safety half of        *)
(* ServoAligns (mcu_g071/interrupts.rs:48-57, transfer.rs:128-143).              *)
THEOREM AlignmentLasts == DeviceSpec => [][Aligned => Aligned']_captureVars
<1>1. CaptureInv /\ [CaptureNext]_captureVars => [Aligned => Aligned']_captureVars
  BY CaptureStep
<1> QED BY <1>1, PartsRun, CaptureHolds, PTL

-----------------------------------------------------------------------------
(***************************************************************************)
(* The bring-up of the board.  A plan is read as a program is: a triple says    *)
(* which clocks have to be on before a piece of it, and which are on after it,    *)
(* and with the triples of its pieces a plan has one of its own.  A part that may  *)
(* give up turns its clocks on before it waits, so that no clock is skipped with   *)
(* the rest of it; and it is never the last of a plan, so that there is always a   *)
(* step to go on with.                                                       *)
(***************************************************************************)

(* By chip: the clocks that the interrupt handlers need, the pins that are not       *)
(* claimed as digital ones, and who owns a DMA channel.                         *)
HandlerGates ==
  [F051 |-> {"GPIOA", "GPIOB", "TIM1", "SYSCFG", "TIM2", "TIM14", "TIM15", "DMA1", "TIM6"},
   G071 |-> {"GPIOA", "GPIOB", "TIM1", "SYSCFG", "TIM2", "TIM14", "TIM3", "DMA1", "TIM6"},
   L431 |-> {"GPIOA", "GPIOB", "TIM1", "TIM2", "TIM16", "TIM15", "DMA1", "TIM6"},
   G431 |-> {"GPIOA", "GPIOB", "TIM1", "TIM2", "TIM16", "TIM15", "DMA1", "TIM6"}]

AnalogPins ==
  [F051 |-> {PA(0), PA(1), PA(4), PA(5), PA(6)},
   G071 |-> {PA(2), PA(3), PA(4), PA(6), PB(3), PB(7)},
   L431 |-> {PA(3), PA(4), PA(5), PA(6), PB(4), PB(7)},
   G431 |-> {PA(0), PA(1), PA(3), PA(4), PA(5)}]

OutputPins == {PA(7), PB(0), PB(1), PB(8), PB(10)}

ModeOf(pin) ==
  IF pin \in AnalogPins[chip] THEN "analog"
  ELSE IF pin \in OutputPins THEN "output" ELSE "alternate"

Owners ==
  [F051 |-> {<<"capture", 5>>, <<"adc", 1>>, <<"uart", 2>>},
   G071 |-> {<<"capture", 1>>, <<"adc", 2>>, <<"uart", 3>>},
   L431 |-> {<<"capture", 5>>, <<"adc", 1>>, <<"uart", 4>>},
   G431 |-> {<<"capture", 1>>, <<"adc", 2>>, <<"uart", 3>>}]

(* The clocks that these blocks need are among those.                             *)
ClockedBy(blocks, on) ==
  \A b \in blocks \ (AlwaysClocked \cup LeftToReset[chip]) : GateOf(b) \in on

Reached(part, blocks, on) ==
  /\ ClockedBy(blocks, on)
  /\ part \in HandlerParts => ClockedBy(blocks, HandlerGates[chip])

(* A step that may be taken where these clocks are on ... *)
Placed(s, on) ==
  /\ s.ends \/ s.wait = "bounded" => s.part \in {"adc", "uart"}
  /\ s.irqs \subseteq ControlIrqs
  /\ s.irqs # {} => HandlerGates[chip] \subseteq on
  /\ Reached(s.part, s.blocks, on)
  /\ \A p \in s.pins \ Retaken[chip] : s.mode = ModeOf(p)
  /\ \A n \in s.channels : <<s.part, n>> \in Owners[chip]

(* ... and these parts have waited.                                           *)
Fine(s, on, waited) ==
  /\ Placed(s, on)
  /\ s.wait = "bounded" \/ s.part \in waited => s.gates = {}

Waits(s) == IF s.wait = "bounded" THEN {s.part} ELSE {}

OnBefore(steps, on, n) == on \cup UNION {steps[j].gates : j \in 1 .. n - 1}
WaitedBefore(steps, waited, n) == waited \cup UNION {Waits(steps[j]) : j \in 1 .. n - 1}

(* The triple: begun with the clocks `on` and the parts `waited`, all steps may be    *)
(* taken, and at the end at least `after` is on and at most `late` have waited.       *)
Sound(steps, on, waited, after, late) ==
  /\ \E S : steps \in Seq(S)
  /\ \A n \in 1 .. Len(steps) :
       Fine(steps[n], OnBefore(steps, on, n), WaitedBefore(steps, waited, n))
  /\ after \subseteq OnBefore(steps, on, Len(steps) + 1)
  /\ WaitedBefore(steps, waited, Len(steps) + 1) \subseteq late

LEMMA FineWeakens ==
  ASSUME NEW s, NEW on, NEW more, NEW waited, NEW fewer,
         Fine(s, on, waited), on \subseteq more, fewer \subseteq waited
  PROVE  Fine(s, more, fewer)
BY Zenon DEF Fine, Placed, Reached, ClockedBy

LEMMA OnBeforeHas ==
  ASSUME NEW steps, NEW on, NEW n, NEW x
  PROVE  x \in OnBefore(steps, on, n) <=> x \in on \/ \E j \in 1 .. n - 1 : x \in steps[j].gates
BY DEF OnBefore

(* Two pieces are one. *)
LEMMA InTurn ==
  ASSUME NEW a, NEW b, NEW on, NEW waited, NEW since, NEW held, NEW after, NEW late,
         Sound(a, on, waited, since, held), Sound(b, since, held, after, late)
  PROVE  Sound(a \o b, on, waited, after, late)
<1> DEFINE ab == a \o b
<1>1. PICK S : a \in Seq(S)
  BY DEF Sound
<1>2. PICK T : b \in Seq(T)
  BY DEF Sound
<1>3. a \in Seq(S \cup T) /\ b \in Seq(S \cup T)
  BY <1>1, <1>2
<1>4. Len(a) \in Nat /\ Len(b) \in Nat
  BY <1>1, <1>2
<1>5. /\ ab \in Seq(S \cup T) /\ Len(ab) = Len(a) + Len(b)
      /\ \A i \in 1 .. Len(a) + Len(b) : ab[i] = IF i <= Len(a) THEN a[i] ELSE b[i - Len(a)]
  BY <1>3, ConcatProperties, Zenon
<1> HIDE DEF ab
<1>6. /\ \A i \in 1 .. Len(a) : ab[i] = a[i]
      /\ \A i \in 1 .. Len(b) : ab[i + Len(a)] = b[i]
  <2>1. \A i \in 1 .. Len(a) : ab[i] = a[i]
    BY <1>4, <1>5
  <2>2. ASSUME NEW i \in 1 .. Len(b)
        PROVE  ab[i + Len(a)] = b[i]
    <3>1. /\ i + Len(a) \in 1 .. Len(a) + Len(b) /\ ~(i + Len(a) <= Len(a))
          /\ (i + Len(a)) - Len(a) = i
      BY <1>4
    <3> QED BY <1>5, <3>1
  <2> QED BY <2>1, <2>2
<1>7. \A n \in 1 .. Len(a) + 1 :
        /\ OnBefore(ab, on, n) = OnBefore(a, on, n)
        /\ WaitedBefore(ab, waited, n) = WaitedBefore(a, waited, n)
  <2>1. \A n \in 1 .. Len(a) + 1 : \A j \in 1 .. n - 1 : j \in 1 .. Len(a)
    BY <1>4
  <2> QED BY <1>6, <2>1 DEF OnBefore, WaitedBefore
<1>8. ASSUME NEW n \in 1 .. Len(b) + 1
      PROVE  /\ OnBefore(b, since, n) \subseteq OnBefore(ab, on, n + Len(a))
             /\ WaitedBefore(ab, waited, n + Len(a)) \subseteq WaitedBefore(b, held, n)
  <2>1. /\ since \subseteq OnBefore(a, on, Len(a) + 1)
        /\ WaitedBefore(a, waited, Len(a) + 1) \subseteq held
    BY DEF Sound
  <2>2. \A j \in 1 .. n + Len(a) - 1 :
          \/ j \in 1 .. Len(a)
          \/ j - Len(a) \in 1 .. n - 1 /\ j - Len(a) \in 1 .. Len(b) /\ (j - Len(a)) + Len(a) = j
    BY <1>4
  <2>3. /\ \A j \in 1 .. n - 1 : j \in 1 .. Len(b) /\ j + Len(a) \in 1 .. n + Len(a) - 1
        /\ \A j \in 1 .. Len(a) : j \in 1 .. n + Len(a) - 1
        /\ 1 .. Len(a) + 1 - 1 = 1 .. Len(a)
    BY <1>4
  <2>4. \A x \in OnBefore(b, since, n) : x \in OnBefore(ab, on, n + Len(a))
    <3>1. \A x \in since : x \in on \/ \E j \in 1 .. Len(a) : x \in a[j].gates
      BY <2>1, <2>3 DEF OnBefore
    <3>2. \A x \in since : x \in on \/ \E j \in 1 .. n + Len(a) - 1 : x \in ab[j].gates
      BY <1>6, <2>3, <3>1
    <3>3. \A x \in since : x \in OnBefore(ab, on, n + Len(a))
      BY <3>2, OnBeforeHas
    <3>4. ASSUME NEW j \in 1 .. n - 1, NEW x \in b[j].gates
          PROVE  x \in OnBefore(ab, on, n + Len(a))
      <4>1. j + Len(a) \in 1 .. n + Len(a) - 1 /\ x \in ab[j + Len(a)].gates
        BY <1>6, <2>3
      <4> QED BY <4>1, OnBeforeHas
    <3>5. \A x \in OnBefore(b, since, n) : x \in since \/ \E j \in 1 .. n - 1 : x \in b[j].gates
      BY OnBeforeHas, Zenon
    <3> QED BY <3>3, <3>4, <3>5, Zenon
  <2>5. \A x \in WaitedBefore(ab, waited, n + Len(a)) : x \in WaitedBefore(b, held, n)
    <3>1. \A x \in waited : x \in held
      BY <2>1 DEF WaitedBefore
    <3>2. \A j \in 1 .. Len(a) : Waits(ab[j]) \subseteq held
      BY <1>6, <2>1, <2>3 DEF WaitedBefore
    <3>3. \A j \in 1 .. n + Len(a) - 1 :
            Waits(ab[j]) \subseteq held \/ \E k \in 1 .. n - 1 : Waits(ab[j]) = Waits(b[k])
      BY <1>6, <2>2, <3>2
    <3> QED BY <3>1, <3>3 DEF WaitedBefore
  <2> QED BY <2>4, <2>5
<1>9. ASSUME NEW n \in 1 .. Len(ab)
      PROVE  Fine(ab[n], OnBefore(ab, on, n), WaitedBefore(ab, waited, n))
  <2>1. CASE n \in 1 .. Len(a)
    <3>1. Fine(a[n], OnBefore(a, on, n), WaitedBefore(a, waited, n))
      BY <2>1 DEF Sound
    <3>2. n \in 1 .. Len(a) + 1
      BY <1>4, <2>1
    <3> QED BY <1>6, <1>7, <2>1, <3>1, <3>2
  <2>2. CASE n \notin 1 .. Len(a)
    <3> DEFINE m == n - Len(a)
    <3>1. m \in 1 .. Len(b) /\ m \in 1 .. Len(b) + 1 /\ m + Len(a) = n
      BY <1>4, <1>5, <2>2
    <3> HIDE DEF m
    <3>2. Fine(b[m], OnBefore(b, since, m), WaitedBefore(b, held, m))
      BY <3>1 DEF Sound
    <3>3. /\ OnBefore(b, since, m) \subseteq OnBefore(ab, on, n)
          /\ WaitedBefore(ab, waited, n) \subseteq WaitedBefore(b, held, m)
      BY <1>8, <3>1
    <3>4. Fine(b[m], OnBefore(ab, on, n), WaitedBefore(ab, waited, n))
      BY <3>2, <3>3, FineWeakens
    <3> QED BY <1>6, <3>1, <3>4
  <2> QED BY <2>1, <2>2
<1>10. /\ after \subseteq OnBefore(ab, on, Len(ab) + 1)
       /\ WaitedBefore(ab, waited, Len(ab) + 1) \subseteq late
  <2>1. /\ after \subseteq OnBefore(b, since, Len(b) + 1)
        /\ WaitedBefore(b, held, Len(b) + 1) \subseteq late
    BY DEF Sound
  <2>2. Len(b) + 1 \in 1 .. Len(b) + 1 /\ (Len(b) + 1) + Len(a) = Len(ab) + 1
    BY <1>4, <1>5
  <2>3. /\ OnBefore(b, since, Len(b) + 1) \subseteq OnBefore(ab, on, Len(ab) + 1)
        /\ WaitedBefore(ab, waited, Len(ab) + 1) \subseteq WaitedBefore(b, held, Len(b) + 1)
    BY <1>8, <2>2
  <2> QED BY <2>1, <2>3
<1>11. Sound(ab, on, waited, after, late)
  BY <1>5, <1>9, <1>10 DEF Sound
<1> QED BY <1>11 DEF ab

-----------------------------------------------------------------------------
(* The pieces: a first step that may turn clocks on, and steps that turn on none.   *)

Calm(s, on, late) == s.gates = {} /\ Placed(s, on) /\ Waits(s) \subseteq late

Piece(steps, first, rest) ==
  /\ \E S : steps \in Seq(S)
  /\ Len(steps) > 0 /\ steps[1] = first
  /\ \A n \in 2 .. Len(steps) : steps[n] \in rest

LEMMA PieceSound ==
  ASSUME NEW steps, NEW first, NEW rest, Piece(steps, first, rest),
         NEW on, NEW waited, NEW after, NEW late,
         Placed(first, on), first.wait # "bounded",
         first.part \notin waited \/ first.gates = {},
         after = on \cup first.gates, waited \subseteq late,
         \A s \in rest : Calm(s, after, late)
  PROVE  Sound(steps, on, waited, after, late)
<1>1. PICK S : steps \in Seq(S)
  BY DEF Piece
<1>2. Len(steps) \in Nat /\ Len(steps) > 0 /\ steps[1] = first
  BY <1>1 DEF Piece
<1>3. \A n \in 2 .. Len(steps) : Calm(steps[n], after, late)
  BY DEF Piece
<1>4. Waits(first) = {}
  BY DEF Waits
<1>5. ASSUME NEW n \in 2 .. Len(steps) + 1
      PROVE  /\ after \subseteq OnBefore(steps, on, n)
             /\ WaitedBefore(steps, waited, n) \subseteq late
  <2>1. 1 \in 1 .. n - 1 /\ \A j \in 1 .. n - 1 : j = 1 \/ j \in 2 .. Len(steps)
    BY <1>2
  <2>2. after \subseteq OnBefore(steps, on, n)
    BY <1>2, <2>1 DEF OnBefore
  <2>3. \A j \in 1 .. n - 1 : Waits(steps[j]) \subseteq late
    BY <1>2, <1>3, <1>4, <2>1 DEF Calm
  <2> QED BY <2>2, <2>3 DEF WaitedBefore
<1>6. ASSUME NEW n \in 1 .. Len(steps)
      PROVE  Fine(steps[n], OnBefore(steps, on, n), WaitedBefore(steps, waited, n))
  <2>1. CASE n = 1
    <3>1. 1 .. n - 1 = {}
      BY <2>1
    <3>2. OnBefore(steps, on, n) = on /\ WaitedBefore(steps, waited, n) = waited
      BY <3>1 DEF OnBefore, WaitedBefore
    <3> QED BY <1>2, <2>1, <3>2 DEF Fine
  <2>2. CASE n # 1
    <3>1. n \in 2 .. Len(steps) /\ n \in 2 .. Len(steps) + 1
      BY <1>2, <2>2
    <3>2. Calm(steps[n], after, late) /\ after \subseteq OnBefore(steps, on, n)
      BY <1>3, <1>5, <3>1
    <3>3. Fine(steps[n], after, WaitedBefore(steps, waited, n))
      BY <3>2 DEF Fine, Calm
    <3> QED BY <3>2, <3>3, FineWeakens
  <2> QED BY <2>1, <2>2
<1>7. Len(steps) + 1 \in 2 .. Len(steps) + 1
  BY <1>2
<1>8. /\ after \subseteq OnBefore(steps, on, Len(steps) + 1)
      /\ WaitedBefore(steps, waited, Len(steps) + 1) \subseteq late
  BY <1>5, <1>7
<1> QED BY <1>1, <1>6, <1>8 DEF Sound

LEMMA PieceIs ==
  ASSUME NEW steps, NEW first, NEW rest, NEW S, steps \in Seq(S), Len(steps) > 0,
         steps[1] = first, \A n \in 2 .. Len(steps) : steps[n] \in rest
  PROVE  Piece(steps, first, rest)
BY Zenon DEF Piece

LEMMA Pieces ==
  ASSUME NEW a, NEW b, NEW c, NEW d, NEW e, NEW f, NEW g
  PROVE  /\ Piece(<<a>>, a, {})
         /\ Piece(<<a, b>>, a, {b})
         /\ Piece(<<a, b, c>>, a, {b, c})
         /\ Piece(<<a, b, c, d>>, a, {b, c, d})
         /\ Piece(<<a, b, c, d, e>>, a, {b, c, d, e})
         /\ Piece(<<a, b, c, d, e, f>>, a, {b, c, d, e, f})
         /\ Piece(<<a, b, c, d, e, f, g>>, a, {b, c, d, e, f, g})
<1>1. Piece(<<a>>, a, {})
  <2> DEFINE steps == <<a>>
             S == {a}
             rest == {}
  <2>1. /\ steps \in Seq(S) /\ Len(steps) > 0 /\ steps[1] = a
        /\ \A n \in 2 .. Len(steps) : steps[n] \in rest
    OBVIOUS
  <2> HIDE DEF steps, S, rest
  <2>2. Piece(steps, a, rest)
    BY <2>1, PieceIs
  <2> QED BY <2>2 DEF steps, rest
<1>2. Piece(<<a, b>>, a, {b})
  <2> DEFINE steps == <<a, b>>
             S == {a, b}
             rest == {b}
  <2>1. /\ steps \in Seq(S) /\ Len(steps) > 0 /\ steps[1] = a
        /\ \A n \in 2 .. Len(steps) : steps[n] \in rest
    OBVIOUS
  <2> HIDE DEF steps, S, rest
  <2>2. Piece(steps, a, rest)
    BY <2>1, PieceIs
  <2> QED BY <2>2 DEF steps, rest
<1>3. Piece(<<a, b, c>>, a, {b, c})
  <2> DEFINE steps == <<a, b, c>>
             S == {a, b, c}
             rest == {b, c}
  <2>1. /\ steps \in Seq(S) /\ Len(steps) > 0 /\ steps[1] = a
        /\ \A n \in 2 .. Len(steps) : steps[n] \in rest
    OBVIOUS
  <2> HIDE DEF steps, S, rest
  <2>2. Piece(steps, a, rest)
    BY <2>1, PieceIs
  <2> QED BY <2>2 DEF steps, rest
<1>4. Piece(<<a, b, c, d>>, a, {b, c, d})
  <2> DEFINE steps == <<a, b, c, d>>
             S == {a, b, c, d}
             rest == {b, c, d}
  <2>1. /\ steps \in Seq(S) /\ Len(steps) > 0 /\ steps[1] = a
        /\ \A n \in 2 .. Len(steps) : steps[n] \in rest
    OBVIOUS
  <2> HIDE DEF steps, S, rest
  <2>2. Piece(steps, a, rest)
    BY <2>1, PieceIs
  <2> QED BY <2>2 DEF steps, rest
<1>5. Piece(<<a, b, c, d, e>>, a, {b, c, d, e})
  <2> DEFINE steps == <<a, b, c, d, e>>
             S == {a, b, c, d, e}
             rest == {b, c, d, e}
  <2>1. /\ steps \in Seq(S) /\ Len(steps) > 0 /\ steps[1] = a
        /\ \A n \in 2 .. Len(steps) : steps[n] \in rest
    OBVIOUS
  <2> HIDE DEF steps, S, rest
  <2>2. Piece(steps, a, rest)
    BY <2>1, PieceIs
  <2> QED BY <2>2 DEF steps, rest
<1>6. Piece(<<a, b, c, d, e, f>>, a, {b, c, d, e, f})
  <2> DEFINE steps == <<a, b, c, d, e, f>>
             S == {a, b, c, d, e, f}
             rest == {b, c, d, e, f}
  <2>1. /\ steps \in Seq(S) /\ Len(steps) > 0 /\ steps[1] = a
        /\ \A n \in 2 .. Len(steps) : steps[n] \in rest
    OBVIOUS
  <2> HIDE DEF steps, S, rest
  <2>2. Piece(steps, a, rest)
    BY <2>1, PieceIs
  <2> QED BY <2>2 DEF steps, rest
<1>7. Piece(<<a, b, c, d, e, f, g>>, a, {b, c, d, e, f, g})
  <2> DEFINE steps == <<a, b, c, d, e, f, g>>
             S == {a, b, c, d, e, f, g}
             rest == {b, c, d, e, f, g}
  <2>1. /\ steps \in Seq(S) /\ Len(steps) > 0 /\ steps[1] = a
        /\ \A n \in 2 .. Len(steps) : steps[n] \in rest
    OBVIOUS
  <2> HIDE DEF steps, S, rest
  <2>2. Piece(steps, a, rest)
    BY <2>1, PieceIs
  <2> QED BY <2>2 DEF steps, rest
<1> QED BY <1>1, <1>2, <1>3, <1>4, <1>5, <1>6, <1>7

-----------------------------------------------------------------------------
(* The kinds of steps. *)

LEMMA QuietCalm ==
  ASSUME NEW part, NEW on, NEW late
  PROVE  Calm(Nothing(part), on, late) /\ Calm(Endless(part), on, late)
BY DEF Calm, Placed, Reached, ClockedBy, Waits, Nothing, Endless

LEMMA WaitingCalm ==
  ASSUME NEW part \in {"adc", "uart"}, NEW on, NEW late, part \in late
  PROVE  Calm(Bounded(part), on, late) /\ Calm(Finish(part), on, late)
BY DEF Calm, Placed, Reached, ClockedBy, Waits, Nothing, Bounded, Finish

LEMMA WriteCalm ==
  ASSUME NEW part, NEW blocks, NEW on, NEW late, Reached(part, blocks, on)
  PROVE  Calm(Write(part, blocks), on, late)
BY DEF Calm, Placed, Waits, Nothing, Write

LEMMA ChannelCalm ==
  ASSUME NEW part, NEW n, NEW routing, NEW on, NEW late,
         Reached(part, {"DMA1"} \cup routing, on), <<part, n>> \in Owners[chip]
  PROVE  Calm(Channel(part, n, routing), on, late)
BY DEF Calm, Placed, Waits, Nothing, Channel

LEMMA ClaimCalm ==
  ASSUME NEW part, NEW claimed, NEW mode, NEW on, NEW late,
         Reached(part, {p[1] : p \in claimed}, on),
         \A p \in claimed \ Retaken[chip] : mode = ModeOf(p)
  PROVE  Calm(Claim(part, claimed, mode), on, late)
BY DEF Calm, Placed, Waits, Nothing, Claim

LEMMA UnmaskCalm ==
  ASSUME NEW part, NEW on, NEW late, HandlerGates[chip] \subseteq on
  PROVE  Calm(Unmask(part, ControlIrqs), on, late)
BY DEF Calm, Placed, Reached, ClockedBy, Waits, Nothing, Unmask

LEMMA PowerPlaced ==
  ASSUME NEW part, NEW new, NEW on
  PROVE  /\ Placed(Power(part, new), on)
         /\ Power(part, new).wait = "none"
         /\ Power(part, new).part = part /\ Power(part, new).gates = new
BY DEF Placed, Reached, ClockedBy, Nothing, Power

(* Pieces that begin with a clock, and pieces that turn on none.                 *)
LEMMA PoweredSound ==
  ASSUME NEW steps, NEW part, NEW new, NEW rest, Piece(steps, Power(part, new), rest),
         NEW on, NEW waited, NEW late, part \notin waited, waited \subseteq late,
         \A s \in rest : Calm(s, on \cup new, late)
  PROVE  Sound(steps, on, waited, on \cup new, late)
<1> DEFINE first == Power(part, new)
           after == on \cup new
<1>1. /\ Placed(first, on) /\ first.wait # "bounded" /\ first.part \notin waited
      /\ after = on \cup first.gates
  BY PowerPlaced
<1>2. \A s \in rest : Calm(s, after, late)
  OBVIOUS
<1>3. Piece(steps, first, rest)
  OBVIOUS
<1> HIDE DEF first, after
<1>4. Sound(steps, on, waited, after, late)
  BY <1>1, <1>2, <1>3, PieceSound
<1> QED BY <1>4 DEF after

LEMMA QuietSound ==
  ASSUME NEW steps, NEW first, NEW rest, Piece(steps, first, rest), NEW on, NEW waited,
         Calm(first, on, {}), \A s \in rest : Calm(s, on, waited)
  PROVE  Sound(steps, on, waited, on, waited)
<1>1. /\ Placed(first, on) /\ first.wait # "bounded" /\ first.gates = {}
      /\ on = on \cup first.gates
  BY DEF Calm, Waits
<1> QED BY <1>1, PieceSound

-----------------------------------------------------------------------------
(* Blocks with a clock of their own. *)
LEMMA OwnClock ==
  ASSUME NEW blocks, NEW on, "COMP" \notin blocks, "DMAMUX" \notin blocks,
         blocks \subseteq on \cup AlwaysClocked
  PROVE  ClockedBy(blocks, on)
BY DEF ClockedBy, GateOf

LEMMA OwnReached ==
  ASSUME NEW part, NEW blocks, NEW on, "COMP" \notin blocks, "DMAMUX" \notin blocks,
         blocks \subseteq on \cup AlwaysClocked,
         part \in HandlerParts => blocks \subseteq HandlerGates[chip] \cup AlwaysClocked
  PROVE  Reached(part, blocks, on)
BY OwnClock DEF Reached

-----------------------------------------------------------------------------
(* What all chips have in common. *)
LEMMA CommonGates ==
  ASSUME chip \in ChipNames
  PROVE  {"GPIOA", "GPIOB", "TIM1", "TIM2", "TIM6", "DMA1"} \subseteq HandlerGates[chip]
BY DEF ChipNames, HandlerGates

LEMMA OutputModes ==
  ASSUME chip \in ChipNames, NEW p \in OutputPins
  PROVE  ModeOf(p) = "output"
<1>1. \A q \in OutputPins : q \notin AnalogPins[chip]
  BY DEF ChipNames, AnalogPins, OutputPins, PA, PB
<1> QED BY <1>1 DEF ModeOf

LEMMA BridgeModes ==
  ASSUME chip \in ChipNames, NEW p \in BridgePins
  PROVE  ModeOf(p) = "alternate"
<1>1. \A q \in BridgePins : q \notin AnalogPins[chip] /\ q \notin OutputPins
  BY DEF ChipNames, AnalogPins, OutputPins, BridgePins, PA, PB
<1> QED BY <1>1 DEF ModeOf

LEMMA CaptureOfChip ==
  ASSUME chip \in ChipNames
  PROVE  /\ Channels[chip].timer \in HandlerGates[chip]
         /\ Channels[chip].timer # "COMP" /\ Channels[chip].timer # "DMAMUX"
         /\ <<"capture", Channels[chip].number>> \in Owners[chip]
BY DEF ChipNames, Channels, HandlerGates, Owners, F051!CaptureChannel, G071!CaptureChannel,
       L431!CaptureChannel, G431!CaptureChannel

LEMMA SplitAt ==
  ASSUME NEW S, NEW s \in Seq(S), NEW t \in Seq(S), NEW st \in Seq(S),
         Len(st) = Len(s) + Len(t),
         \A n \in 1 .. Len(s) : st[n] = s[n],
         \A n \in 1 .. Len(t) : st[n + Len(s)] = t[n]
  PROVE  st = s \o t
<1> DEFINE both == s \o t
<1>1. /\ both \in Seq(S) /\ Len(both) = Len(s) + Len(t)
      /\ \A n \in 1 .. Len(s) + Len(t) : both[n] = IF n <= Len(s) THEN s[n] ELSE t[n - Len(s)]
  BY ConcatProperties, Zenon
<1>2. Len(s) \in Nat /\ Len(t) \in Nat
  OBVIOUS
<1> HIDE DEF both
<1>3. ASSUME NEW n \in 1 .. Len(st)
      PROVE  st[n] = both[n]
  <2>1. CASE n <= Len(s)
    BY <1>1, <1>2, <2>1
  <2>2. CASE ~(n <= Len(s))
    <3>1. n - Len(s) \in 1 .. Len(t) /\ (n - Len(s)) + Len(s) = n
      BY <1>2, <2>2
    <3> QED BY <1>1, <1>2, <2>2, <3>1
  <2> QED BY <2>1, <2>2
<1>4. st = both
  BY <1>1, <1>3, SeqEqual
<1> QED BY <1>4 DEF both

LEMMA OneAndTwo ==
  ASSUME NEW a, NEW b, NEW c
  PROVE  <<a, b, c>> = <<a>> \o <<b, c>>
<1> DEFINE S == {a, b, c}
           s == <<a>>
           t == <<b, c>>
           st == <<a, b, c>>
<1>1. /\ s \in Seq(S) /\ t \in Seq(S) /\ st \in Seq(S)
      /\ Len(st) = Len(s) + Len(t)
  OBVIOUS
<1>2. /\ \A n \in 1 .. Len(s) : st[n] = s[n]
      /\ \A n \in 1 .. Len(t) : st[n + Len(s)] = t[n]
  OBVIOUS
<1> HIDE DEF S, s, t, st
<1>3. st = s \o t
  BY <1>1, <1>2, SplitAt, Zenon
<1> QED BY <1>3 DEF s, t, st

LEMMA OneAndThree ==
  ASSUME NEW a, NEW b, NEW c, NEW d
  PROVE  <<a, b, c, d>> = <<a>> \o <<b, c, d>>
<1> DEFINE S == {a, b, c, d}
           s == <<a>>
           t == <<b, c, d>>
           st == <<a, b, c, d>>
<1>1. /\ s \in Seq(S) /\ t \in Seq(S) /\ st \in Seq(S)
      /\ Len(st) = Len(s) + Len(t)
  OBVIOUS
<1>2. /\ \A n \in 1 .. Len(s) : st[n] = s[n]
      /\ \A n \in 1 .. Len(t) : st[n + Len(s)] = t[n]
  OBVIOUS
<1> HIDE DEF S, s, t, st
<1>3. st = s \o t
  BY <1>1, <1>2, SplitAt, Zenon
<1> QED BY <1>3 DEF s, t, st

LEMMA TwoAndTwo ==
  ASSUME NEW a, NEW b, NEW c, NEW d
  PROVE  <<a, b, c, d>> = <<a, b>> \o <<c, d>>
<1> DEFINE S == {a, b, c, d}
           s == <<a, b>>
           t == <<c, d>>
           st == <<a, b, c, d>>
<1>1. /\ s \in Seq(S) /\ t \in Seq(S) /\ st \in Seq(S)
      /\ Len(st) = Len(s) + Len(t)
  OBVIOUS
<1>2. /\ \A n \in 1 .. Len(s) : st[n] = s[n]
      /\ \A n \in 1 .. Len(t) : st[n + Len(s)] = t[n]
  OBVIOUS
<1> HIDE DEF S, s, t, st
<1>3. st = s \o t
  BY <1>1, <1>2, SplitAt, Zenon
<1> QED BY <1>3 DEF s, t, st

LEMMA FourAndThree ==
  ASSUME NEW a, NEW b, NEW c, NEW d, NEW e, NEW f, NEW g
  PROVE  <<a, b, c, d, e, f, g>> = <<a, b, c, d>> \o <<e, f, g>>
<1> DEFINE S == {a, b, c, d, e, f, g}
           s == <<a, b, c, d>>
           t == <<e, f, g>>
           st == <<a, b, c, d, e, f, g>>
<1>1. /\ s \in Seq(S) /\ t \in Seq(S) /\ st \in Seq(S)
      /\ Len(st) = Len(s) + Len(t)
  OBVIOUS
<1>2. /\ \A n \in 1 .. Len(s) : st[n] = s[n]
      /\ \A n \in 1 .. Len(t) : st[n + Len(s)] = t[n]
  OBVIOUS
<1> HIDE DEF S, s, t, st
<1>3. st = s \o t
  BY <1>1, <1>2, SplitAt, Zenon
<1> QED BY <1>3 DEF s, t, st

LEMMA TimersSound ==
  ASSUME chip \in ChipNames, NEW ticker \in HandlerGates[chip],
         ticker # "COMP", ticker # "DMAMUX", NEW on
  PROVE  Sound(Timers(Power("interval", {"TIM2"}), Power("step", {ticker})),
               on, {}, on \cup {"TIM2", ticker}, {})
<1>0. ASSUME NEW part, NEW clock \in HandlerGates[chip], NEW before,
             clock # "COMP", clock # "DMAMUX"
      PROVE  Sound(<<Power(part, {clock}), Write(part, {clock})>>,
                   before, {}, before \cup {clock}, {})
  <2> DEFINE steps == <<Power(part, {clock}), Write(part, {clock})>>
             rest == {Write(part, {clock})}
  <2>1. Calm(Write(part, {clock}), before \cup {clock}, {})
    BY <1>0, OwnReached, WriteCalm
  <2>2. \A s \in rest : Calm(s, before \cup {clock}, {})
    BY <2>1
  <2>3. Piece(steps, Power(part, {clock}), rest)
    BY Pieces, Zenon
  <2>4. part \notin {} /\ {} \subseteq {}
    OBVIOUS
  <2> HIDE DEF steps, rest
  <2>5. Sound(steps, before, {}, before \cup {clock}, {})
    BY ONLY <2>2, <2>3, <2>4, PoweredSound, Zenon
  <2> QED BY <2>5 DEF steps
<1>1. Sound(<<Power("interval", {"TIM2"}), Write("interval", {"TIM2"})>>,
            on, {}, on \cup {"TIM2"}, {})
  BY <1>0, CommonGates
<1> DEFINE since == on \cup {"TIM2"}
<1>2. Sound(<<Power("step", {ticker}), Write("step", {ticker})>>,
            since, {}, since \cup {ticker}, {})
  BY <1>0
<1>3. since \cup {ticker} = on \cup {"TIM2", ticker} /\ Power("step", {ticker}).gates = {ticker}
  BY PowerPlaced
<1>4. Sound(<<Power("interval", {"TIM2"}), Write("interval", {"TIM2"})>>
              \o <<Power("step", {ticker}), Write("step", {ticker})>>,
            on, {}, on \cup {"TIM2", ticker}, {})
  BY <1>1, <1>2, <1>3, InTurn
<1>5. Timers(Power("interval", {"TIM2"}), Power("step", {ticker}))
        = <<Power("interval", {"TIM2"}), Write("interval", {"TIM2"})>>
            \o <<Power("step", {ticker}), Write("step", {ticker})>>
  <2> DEFINE a == Power("interval", {"TIM2"})
             b == Write("interval", {"TIM2"})
             c == Power("step", {ticker})
             d == Write("step", {ticker})
  <2>1. Timers(a, c) = <<a, b, c, d>>
    BY <1>3 DEF Timers
  <2> HIDE DEF a, b, c, d
  <2>2. Timers(a, c) = <<a, b>> \o <<c, d>>
    BY <2>1, TwoAndTwo
  <2> QED BY <2>2 DEF a, b, c, d
<1> QED BY <1>4, <1>5, Zenon

(* The last step is the input's. *)
Ends(steps) == Len(steps) > 0 /\ steps[Len(steps)].part = "capture"

LEMMA EndsAlike ==
  ASSUME NEW early, NEW late, NEW on, NEW waited, NEW since, NEW held, NEW after, NEW last,
         Sound(early, on, waited, since, held), Sound(late, since, held, after, last),
         Ends(late)
  PROVE  Ends(early \o late)
<1>1. PICK S : early \in Seq(S)
  BY DEF Sound
<1>2. PICK T : late \in Seq(T)
  BY DEF Sound
<1>3. early \in Seq(S \cup T) /\ late \in Seq(S \cup T)
  BY <1>1, <1>2
<1>4. Len(late) \in Nat /\ Len(early) \in Nat /\ Len(late) > 0
  BY <1>3 DEF Ends
<1>5. Len(early \o late) = Len(early) + Len(late)
      /\ (early \o late)[Len(early) + Len(late)] = late[Len(late)]
  BY <1>3, <1>4
<1> QED BY <1>4, <1>5 DEF Ends

LEMMA ReceivingSound ==
  ASSUME chip \in ChipNames, NEW on, HandlerGates[chip] \subseteq on \/
         {"DMA1", Channels[chip].timer} \subseteq on, NEW waited
  PROVE  Sound(Receiving(chip), on, waited, on, waited) /\ Ends(Receiving(chip))
<1> DEFINE ticker == Channels[chip].timer
           number == Channels[chip].number
<1>1. {"DMA1", ticker} \subseteq on /\ {"DMA1", ticker} \subseteq HandlerGates[chip]
      /\ ticker # "COMP" /\ ticker # "DMAMUX" /\ <<"capture", number>> \in Owners[chip]
  BY CommonGates, CaptureOfChip
<1>2. Receiving(chip) = << Write("capture", {"DMA1", ticker}), Channel("capture", number, {}) >>
  BY DEF Receiving
<1> HIDE DEF ticker, number
<1>3. Calm(Write("capture", {"DMA1", ticker}), on, {})
  BY <1>1, OwnReached, WriteCalm
<1>4. Calm(Channel("capture", number, {}), on, waited)
  <2>1. Reached("capture", {"DMA1"} \cup {}, on)
    BY <1>1, OwnReached
  <2> QED BY <1>1, <2>1, ChannelCalm
<1>5. \A s \in {Channel("capture", number, {})} : Calm(s, on, waited)
  BY <1>4
<1>6. Piece(Receiving(chip), Write("capture", {"DMA1", ticker}), {Channel("capture", number, {})})
  BY <1>2, Pieces, Zenon
<1>7. Ends(Receiving(chip))
  <2>1. Channel("capture", number, {}).part = "capture"
    BY DEF Channel, Nothing
  <2> DEFINE last == Channel("capture", number, {})
             first == Write("capture", {"DMA1", ticker})
  <2>2. Receiving(chip) = <<first, last>>
    BY <1>2
  <2> HIDE DEF last, first
  <2>3. Len(Receiving(chip)) = 2 /\ Receiving(chip)[2] = last
    BY <2>2
  <2> QED BY <2>1, <2>3 DEF Ends, last
<1> QED BY <1>3, <1>5, <1>6, <1>7, QuietSound

LEMMA TickSound ==
  ASSUME chip \in ChipNames, NEW on, NEW waited, "tick" \notin waited
  PROVE  /\ Sound(<<Power("tick", {"TIM6"}), Write("tick", {"TIM6"})>>,
                  on, waited, on \cup {"TIM6"}, waited)
         /\ "TIM6" \in on => Sound(<<Write("tick", {"TIM6"})>>, on, waited, on, waited)
<1>1. ASSUME NEW gates1, "TIM6" \in gates1, NEW late
      PROVE  Calm(Write("tick", {"TIM6"}), gates1, late)
  <2>1. Reached("tick", {"TIM6"}, gates1)
    BY <1>1, CommonGates, OwnReached
  <2> QED BY <2>1, WriteCalm
<1>2. Sound(<<Power("tick", {"TIM6"}), Write("tick", {"TIM6"})>>,
            on, waited, on \cup {"TIM6"}, waited)
  <2>1. \A s \in {Write("tick", {"TIM6"})} : Calm(s, on \cup {"TIM6"}, waited)
    BY <1>1
  <2>2. Piece(<<Power("tick", {"TIM6"}), Write("tick", {"TIM6"})>>,
              Power("tick", {"TIM6"}), {Write("tick", {"TIM6"})})
    BY Pieces, Zenon
  <2> QED BY <2>1, <2>2, PoweredSound
<1>3. ASSUME "TIM6" \in on
      PROVE  Sound(<<Write("tick", {"TIM6"})>>, on, waited, on, waited)
  <2>1. Calm(Write("tick", {"TIM6"}), on, {})
    BY <1>1, <1>3
  <2>2. Piece(<<Write("tick", {"TIM6"})>>, Write("tick", {"TIM6"}), {})
    BY Pieces, Zenon
  <2> QED BY <2>1, <2>2, QuietSound
<1> QED BY <1>2, <1>3

LEMMA InterruptsSound ==
  ASSUME NEW on, NEW waited, HandlerGates[chip] \subseteq on
  PROVE  Sound(<<Unmask("irqs", ControlIrqs), Write("frame", {"EXTI"})>>,
               on, waited, on, waited)
<1>1. Calm(Unmask("irqs", ControlIrqs), on, {})
  BY UnmaskCalm
<1>2. Reached("frame", {"EXTI"}, on)
  BY OwnReached DEF AlwaysClocked
<1>3. \A s \in {Write("frame", {"EXTI"})} : Calm(s, on, waited)
  BY <1>2, WriteCalm
<1>4. Piece(<<Unmask("irqs", ControlIrqs), Write("frame", {"EXTI"})>>,
            Unmask("irqs", ControlIrqs), {Write("frame", {"EXTI"})})
  BY Pieces, Zenon
<1> QED BY <1>1, <1>3, <1>4, QuietSound

LEMMA MainSound ==
  ASSUME chip \in ChipNames, NEW on, NEW waited, HandlerGates[chip] \subseteq on
  PROVE  Sound(Main(chip), on, waited, on, waited) /\ Ends(Main(chip))
<1> DEFINE led == Claim("led", {PB(8)}, "output")
           bridge == Claim("bridge", {PA(7), PB(0), PB(1)}, "output")
           pulsing == IF PulseOutput THEN Claim("pulses", {PB(10)}, "output")
                     ELSE Nothing("pulses")
           watchdog == Write("watchdog", {"IWDG"})
           started == Endless("watchdog")
<1>1. ASSUME NEW part, NEW claimed, claimed \subseteq OutputPins, NEW late
      PROVE  Calm(Claim(part, claimed, "output"), on, late)
  <2>1. {p[1] : p \in claimed} \subseteq {"GPIOA", "GPIOB"}
    BY <1>1 DEF OutputPins, PA, PB
  <2> DEFINE blocks == {p[1] : p \in claimed}
  <2>2. blocks \subseteq {"GPIOA", "GPIOB"}
    BY <2>1
  <2> HIDE DEF blocks
  <2>3. Reached(part, blocks, on)
    BY <2>2, CommonGates, OwnReached
  <2>4. \A p \in claimed \ Retaken[chip] : "output" = ModeOf(p)
    BY <1>1, OutputModes
  <2> QED BY <2>3, <2>4, ClaimCalm DEF blocks
<1>2. {PB(8)} \subseteq OutputPins /\ {PA(7), PB(0), PB(1)} \subseteq OutputPins
      /\ {PB(10)} \subseteq OutputPins
  BY DEF OutputPins
<1>3. Calm(led, on, {}) /\ Calm(bridge, on, waited) /\ Calm(pulsing, on, waited)
  BY <1>1, <1>2, QuietCalm
<1>4. Reached("watchdog", {"IWDG"}, on)
  BY OwnReached DEF AlwaysClocked, HandlerParts
<1>5. Calm(watchdog, on, waited) /\ Calm(started, on, waited)
  BY <1>4, WriteCalm, QuietCalm
<1>6. Main(chip) = <<led, bridge, pulsing, watchdog, started>> \o Receiving(chip)
  BY DEF Main
<1> HIDE DEF led, bridge, pulsing, watchdog, started
<1>7. \A s \in {bridge, pulsing, watchdog, started} : Calm(s, on, waited)
  BY <1>3, <1>5
<1>8. Sound(<<led, bridge, pulsing, watchdog, started>>, on, waited, on, waited)
  <2>1. Piece(<<led, bridge, pulsing, watchdog, started>>, led,
              {bridge, pulsing, watchdog, started})
    BY Pieces, Zenon
  <2> QED BY <1>3, <1>7, <2>1, QuietSound
<1>9. Sound(Receiving(chip), on, waited, on, waited) /\ Ends(Receiving(chip))
  BY ReceivingSound
<1> QED BY <1>6, <1>8, <1>9, InTurn, EndsAlike

(* Claims of the pins of a port, and blocks that share a clock or have none.        *)
LEMMA PortClaim ==
  ASSUME chip \in ChipNames, NEW part, NEW claimed, NEW mode, NEW on, NEW late,
         NEW port \in {"GPIOA", "GPIOB"}, port \in on,
         \A p \in claimed : p[1] = port,
         \A p \in claimed : p \in Retaken[chip] \/ ModeOf(p) = mode
  PROVE  Calm(Claim(part, claimed, mode), on, late)
<1> DEFINE blocks == {p[1] : p \in claimed}
<1>1. blocks \subseteq {port} /\ port \in HandlerGates[chip]
  BY CommonGates
<1> HIDE DEF blocks
<1>2. Reached(part, blocks, on)
  BY <1>1, OwnReached
<1> QED BY <1>2, ClaimCalm DEF blocks

LEMMA ComparatorReached ==
  ASSUME chip \in ChipNames, NEW on, chip \in {"F051", "G071"} => "SYSCFG" \in on
  PROVE  Reached("comparator", {"COMP", "EXTI"}, on)
BY DEF Reached, ClockedBy, GateOf, AlwaysClocked, LeftToReset, HandlerGates, ChipNames

LEMMA RoutedReached ==
  ASSUME chip \in {"G071", "G431"}, NEW part, NEW blocks, NEW on,
         "COMP" \notin blocks, "DMA1" \in on, blocks \subseteq on \cup {"DMAMUX"},
         part \in HandlerParts => blocks \subseteq {"DMAMUX"}
  PROVE  Reached(part, blocks, on)
BY DEF Reached, ClockedBy, GateOf, AlwaysClocked, LeftToReset, HandlerGates

LEMMA BridgeCalm ==
  ASSUME chip \in ChipNames, NEW on, NEW late, "GPIOA" \in on, "TIM1" \in on
  PROVE  /\ Calm(Claim("bridge", BridgePins, "alternate"), on, late)
         /\ Calm(Write("bridge", {"TIM1"}), on, late)
<1>1. Calm(Claim("bridge", BridgePins, "alternate"), on, late)
  <2>1. /\ \A p \in BridgePins : p[1] = "GPIOA"
        /\ \A p \in BridgePins : p \in Retaken[chip] \/ ModeOf(p) = "alternate"
    BY BridgeModes DEF BridgePins, PA
  <2> QED BY <2>1, PortClaim
<1>2. Calm(Write("bridge", {"TIM1"}), on, late)
  <2>1. Reached("bridge", {"TIM1"}, on)
    BY CommonGates, OwnReached
  <2> QED BY <2>1, WriteCalm
<1> QED BY <1>1, <1>2

-----------------------------------------------------------------------------
(* The pieces of each chip, in the words of BoardSteps. *)
LEMMA PiecesF051 ==
  /\ F051!Start =
     <<Power("core", {"GPIOA", "GPIOB", "TIM1"}),
       Claim("bridge", BridgePins, "alternate"), Write("bridge", {"TIM1"})>>
  /\ F051!Comparator =
     <<Claim("comparator", {PA(0), PA(1), PA(4), PA(5)}, "analog"),
       Power("comparator", {"SYSCFG"}), Write("comparator", {"COMP", "EXTI"})>>
  /\ F051!Capture =
     <<Power("capture", {"TIM15", "DMA1", "GPIOA"}),
       Claim("capture", {PA(2)}, "alternate")>>
  /\ F051!Adc =
     <<Power("adc", {"ADC", "DMA1"}), Claim("adc", {PA(2), PA(6)}, "analog"),
       Channel("adc", 1, {"ADC"}), Bounded("adc"), Bounded("adc"), Finish("adc")>>
  /\ F051!Uart =
     <<Power("uart", {"USART1", "DMA1", "GPIOB"}), Claim("uart", {PB(6)}, "alternate"),
       Write("uart", {"USART1"}), Bounded("uart"), Bounded("uart"),
       Channel("uart", 2, {}), Finish("uart")>>
  /\ F051!IntervalClock =
     Power("interval", {"TIM2"})
  /\ F051!StepClock =
     Power("step", {"TIM14"})
  /\ F051!Tick =
     <<Power("tick", {"TIM6"}), Write("tick", {"TIM6"})>>
  /\ F051!Interrupts =
     <<Unmask("irqs", ControlIrqs), Write("frame", {"EXTI"})>>
BY DEF F051!Start, F051!Comparator, F051!Capture, F051!Adc, F051!Uart,
       F051!IntervalClock, F051!StepClock, F051!Tick, F051!Interrupts, F051!Nothing,
       F051!Power, F051!Write, F051!Claim, F051!Channel, F051!Unmask, F051!Bounded,
       F051!Finish, F051!PA, F051!PB, F051!BridgePins, F051!ControlIrqs, Nothing, Power,
       Write, Claim, Channel, Unmask, Bounded, Finish, PA, PB, BridgePins, ControlIrqs

LEMMA PiecesG071 ==
  /\ G071!Start =
     <<Power("core", {"GPIOA", "GPIOB"}), Power("bridge", {"TIM1"}),
       Claim("bridge", BridgePins, "alternate"), Write("bridge", {"TIM1"})>>
  /\ G071!Comparator =
     <<Power("comparator", {"SYSCFG"}), Claim("comparator", {PA(2), PA(3)}, "analog"),
       Claim("comparator", {PB(3), PB(7)}, "analog"),
       Write("comparator", {"COMP", "EXTI"})>>
  /\ G071!Capture =
     <<Power("capture", {"TIM3", "DMA1", "GPIOB"}),
       Claim("capture", {PB(4)}, "alternate"), Write("capture", {"DMAMUX"})>>
  /\ G071!Adc =
     <<Power("adc", {"ADC", "DMA1"}), Claim("adc", {PA(4), PA(6)}, "analog"),
       Channel("adc", 2, {"ADC", "DMAMUX"}), Bounded("adc"), Bounded("adc"),
       Finish("adc")>>
  /\ G071!Uart =
     <<Power("uart", {"USART1", "GPIOB", "DMA1"}), Claim("uart", {PB(6)}, "alternate"),
       Write("uart", {"USART1"}), Bounded("uart"), Bounded("uart"),
       Channel("uart", 3, {"DMAMUX"}), Finish("uart")>>
  /\ G071!IntervalClock =
     Power("interval", {"TIM2"})
  /\ G071!StepClock =
     Power("step", {"TIM14"})
  /\ G071!Tick =
     <<Power("tick", {"TIM6"}), Write("tick", {"TIM6"})>>
  /\ G071!Interrupts =
     <<Unmask("irqs", ControlIrqs), Write("frame", {"EXTI"})>>
BY DEF G071!Start, G071!Comparator, G071!Capture, G071!Adc, G071!Uart,
       G071!IntervalClock, G071!StepClock, G071!Tick, G071!Interrupts, G071!Nothing,
       G071!Power, G071!Write, G071!Claim, G071!Channel, G071!Unmask, G071!Bounded,
       G071!Finish, G071!PA, G071!PB, G071!BridgePins, G071!ControlIrqs, Nothing, Power,
       Write, Claim, Channel, Unmask, Bounded, Finish, PA, PB, BridgePins, ControlIrqs

LEMMA PiecesL431 ==
  /\ L431!Start =
     <<Power("core", {"GPIOA", "GPIOB", "TIM1"}),
       Claim("bridge", BridgePins, "alternate"), Write("bridge", {"TIM1"})>>
  /\ L431!Comparator =
     <<Power("comparator", {"GPIOA", "GPIOB"}),
       Claim("comparator", {PA(4), PA(5)}, "analog"),
       Claim("comparator", {PB(4), PB(7)}, "analog"),
       Write("comparator", {"COMP", "EXTI"})>>
  /\ L431!Capture =
     <<Power("capture", {"TIM15", "DMA1", "GPIOA"}),
       Claim("capture", {PA(2)}, "alternate"), Write("capture", {"DMA1"})>>
  /\ L431!Adc =
     <<Power("adc", {"ADC", "GPIOA", "DMA1"}), Claim("adc", {PA(3), PA(6)}, "analog"),
       Channel("adc", 1, {"ADC"}), Bounded("adc"), Bounded("adc"), Finish("adc")>>
  /\ L431!Uart =
     <<Power("uart", {"USART1", "GPIOB", "DMA1"}), Claim("uart", {PB(6)}, "alternate"),
       Write("uart", {"USART1"}), Bounded("uart"), Bounded("uart"),
       Channel("uart", 4, {}), Finish("uart")>>
  /\ L431!IntervalClock =
     Power("interval", {"TIM2"})
  /\ L431!StepClock =
     Power("step", {"TIM16"})
  /\ L431!Tick =
     <<Power("tick", {"TIM6"}), Write("tick", {"TIM6"})>>
  /\ L431!Interrupts =
     <<Unmask("irqs", ControlIrqs), Write("frame", {"EXTI"})>>
BY DEF L431!Start, L431!Comparator, L431!Capture, L431!Adc, L431!Uart,
       L431!IntervalClock, L431!StepClock, L431!Tick, L431!Interrupts, L431!Nothing,
       L431!Power, L431!Write, L431!Claim, L431!Channel, L431!Unmask, L431!Bounded,
       L431!Finish, L431!PA, L431!PB, L431!BridgePins, L431!ControlIrqs, Nothing, Power,
       Write, Claim, Channel, Unmask, Bounded, Finish, PA, PB, BridgePins, ControlIrqs

LEMMA PiecesG431 ==
  /\ G431!Start =
     <<Write("core", {"FLASH"}), Endless("core"), Endless("core"), Endless("core"),
       Power("core", {"GPIOA", "GPIOB", "TIM1", "TIM15", "TIM16", "TIM2", "TIM6"}),
       Claim("bridge", BridgePins, "alternate"), Write("bridge", {"TIM1"})>>
  /\ G431!Comparator =
     <<Power("comparator", {"GPIOA"}),
       Claim("comparator", {PA(0), PA(1), PA(3), PA(4), PA(5)}, "analog"),
       Write("comparator", {"COMP", "EXTI"})>>
  /\ G431!Capture =
     <<Power("capture", {"TIM15", "DMA1", "GPIOA"}),
       Claim("capture", {PA(2)}, "alternate"), Write("capture", {"DMAMUX"})>>
  /\ G431!Adc =
     <<Power("adc", {"ADC12", "GPIOA", "DMA1"}), Claim("adc", {PA(4), PA(5)}, "analog"),
       Channel("adc", 2, {"ADC12", "DMAMUX"}), Bounded("adc"), Bounded("adc"),
       Finish("adc")>>
  /\ G431!Uart =
     <<Power("uart", {"USART2", "GPIOB", "DMA1"}), Claim("uart", {PB(3)}, "alternate"),
       Write("uart", {"USART2"}), Bounded("uart"), Channel("uart", 3, {"DMAMUX"}),
       Finish("uart")>>
  /\ G431!IntervalClock =
     Power("interval", {"TIM2"})
  /\ G431!StepClock =
     Power("step", {"TIM16"})
  /\ G431!Tick =
     <<Write("tick", {"TIM6"})>>
  /\ G431!Interrupts =
     <<Unmask("irqs", ControlIrqs), Write("frame", {"EXTI"})>>
BY DEF G431!Start, G431!Comparator, G431!Capture, G431!Adc, G431!Uart,
       G431!IntervalClock, G431!StepClock, G431!Tick, G431!Interrupts, G431!Nothing,
       G431!Power, G431!Write, G431!Claim, G431!Channel, G431!Unmask, G431!Bounded,
       G431!Endless, G431!Finish, G431!PA, G431!PB, G431!BridgePins, G431!ControlIrqs,
       Nothing, Power, Write, Claim, Channel, Unmask, Bounded, Endless, Finish, PA, PB,
       BridgePins, ControlIrqs

LEMMA StartF051 ==
  ASSUME chip = "F051", NEW on
  PROVE  Sound(F051!Start, on, {}, on \cup {"GPIOA", "GPIOB", "TIM1"}, {})
<1> DEFINE all == on \cup {"GPIOA", "GPIOB", "TIM1"}
           a == Claim("bridge", BridgePins, "alternate")
           b == Write("bridge", {"TIM1"})
<1>1. {"GPIOA", "GPIOB", "TIM1"} \subseteq all
  OBVIOUS
<1> HIDE DEF all
<1>2. Calm(a, all, {})
  BY <1>1, BridgeCalm DEF ChipNames
<1>3. Calm(b, all, {})
  BY <1>1, BridgeCalm DEF ChipNames
<1>4. Piece(F051!Start, Power("core", {"GPIOA", "GPIOB", "TIM1"}), {a, b})
  <2>1. F051!Start = <<Power("core", {"GPIOA", "GPIOB", "TIM1"}), a, b>>
    BY PiecesF051, Zenon
  <2> HIDE DEF a, b
  <2> QED BY <2>1, Pieces, Zenon
<1> HIDE DEF a, b
<1>5. \A s \in {a, b} : Calm(s, all, {})
  BY <1>2, <1>3, Zenon
<1> QED BY <1>4, <1>5, PoweredSound DEF all

LEMMA CaptureF051 ==
  ASSUME chip = "F051", NEW on
  PROVE  Sound(F051!Capture, on, {}, on \cup {"TIM15", "DMA1", "GPIOA"}, {})
<1> DEFINE all == on \cup {"TIM15", "DMA1", "GPIOA"}
           a == Claim("capture", {PA(2)}, "alternate")
<1>1. {"DMA1", "GPIOA", "TIM15"} \subseteq all
  OBVIOUS
<1> HIDE DEF all
<1>2. Calm(a, all, {})
  <2>1. /\ \A p \in {PA(2)} : p[1] = "GPIOA"
        /\ \A p \in {PA(2)} : p \in Retaken[chip] \/ ModeOf(p) = "alternate"
    BY DEF PA, PB, Retaken, ModeOf, AnalogPins, OutputPins
  <2> QED BY <1>1, <2>1, PortClaim DEF ChipNames
<1>3. Piece(F051!Capture, Power("capture", {"TIM15", "DMA1", "GPIOA"}), {a})
  <2>1. F051!Capture = <<Power("capture", {"TIM15", "DMA1", "GPIOA"}), a>>
    BY PiecesF051, Zenon
  <2> HIDE DEF a
  <2> QED BY <2>1, Pieces, Zenon
<1> HIDE DEF a
<1>4. \A s \in {a} : Calm(s, all, {})
  BY <1>2, Zenon
<1> QED BY <1>3, <1>4, PoweredSound DEF all

LEMMA AdcF051 ==
  ASSUME chip = "F051", NEW on, {"GPIOA"} \subseteq on
  PROVE  Sound(F051!Adc, on, {}, on \cup {"ADC", "DMA1"}, {"adc"})
<1> DEFINE all == on \cup {"ADC", "DMA1"}
           a == Claim("adc", {PA(2), PA(6)}, "analog")
           b == Channel("adc", 1, {"ADC"})
           c == Bounded("adc")
           d == Finish("adc")
<1>1. {"ADC", "DMA1", "GPIOA"} \subseteq all
  OBVIOUS
<1> HIDE DEF all
<1>2. Calm(a, all, {"adc"})
  <2>1. /\ \A p \in {PA(2), PA(6)} : p[1] = "GPIOA"
        /\ \A p \in {PA(2), PA(6)} : p \in Retaken[chip] \/ ModeOf(p) = "analog"
    BY DEF PA, PB, Retaken, ModeOf, AnalogPins, OutputPins
  <2> QED BY <1>1, <2>1, PortClaim DEF ChipNames
<1>3. Calm(b, all, {"adc"})
  <2>1. Reached("adc", {"DMA1"} \cup {"ADC"}, all)
    BY <1>1, OwnReached DEF HandlerParts
  <2>2. <<"adc", 1>> \in Owners[chip]
    BY DEF Owners
  <2> QED BY <2>1, <2>2, ChannelCalm
<1>4. Calm(c, all, {"adc"})
  BY WaitingCalm
<1>5. Calm(d, all, {"adc"})
  BY WaitingCalm
<1>6. Piece(F051!Adc, Power("adc", {"ADC", "DMA1"}), {a, b, c, c, d})
  <2>1. F051!Adc = <<Power("adc", {"ADC", "DMA1"}), a, b, c, c, d>>
    BY PiecesF051, Zenon
  <2> HIDE DEF a, b, c, d
  <2> QED BY <2>1, Pieces, Zenon
<1> HIDE DEF a, b, c, d
<1>7. \A s \in {a, b, c, c, d} : Calm(s, all, {"adc"})
  BY <1>2, <1>3, <1>4, <1>5, Zenon
<1> QED BY <1>6, <1>7, PoweredSound DEF all

LEMMA UartF051 ==
  ASSUME chip = "F051", NEW on
  PROVE  Sound(F051!Uart, on, {"adc"}, on \cup {"USART1", "DMA1", "GPIOB"}, {"adc", "uart"})
<1> DEFINE all == on \cup {"USART1", "DMA1", "GPIOB"}
           a == Claim("uart", {PB(6)}, "alternate")
           b == Write("uart", {"USART1"})
           c == Bounded("uart")
           d == Channel("uart", 2, {})
           e == Finish("uart")
<1>1. {"DMA1", "GPIOB", "USART1"} \subseteq all
  OBVIOUS
<1> HIDE DEF all
<1>2. Calm(a, all, {"adc", "uart"})
  <2>1. /\ \A p \in {PB(6)} : p[1] = "GPIOB"
        /\ \A p \in {PB(6)} : p \in Retaken[chip] \/ ModeOf(p) = "alternate"
    BY DEF PA, PB, Retaken, ModeOf, AnalogPins, OutputPins
  <2> QED BY <1>1, <2>1, PortClaim DEF ChipNames
<1>3. Calm(b, all, {"adc", "uart"})
  <2>1. Reached("uart", {"USART1"}, all)
    BY <1>1, OwnReached DEF HandlerParts
  <2> QED BY <2>1, WriteCalm
<1>4. Calm(c, all, {"adc", "uart"})
  BY WaitingCalm
<1>5. Calm(d, all, {"adc", "uart"})
  <2>1. Reached("uart", {"DMA1"} \cup {}, all)
    BY <1>1, OwnReached DEF HandlerParts
  <2>2. <<"uart", 2>> \in Owners[chip]
    BY DEF Owners
  <2> QED BY <2>1, <2>2, ChannelCalm
<1>6. Calm(e, all, {"adc", "uart"})
  BY WaitingCalm
<1>7. Piece(F051!Uart, Power("uart", {"USART1", "DMA1", "GPIOB"}), {a, b, c, c, d, e})
  <2>1. F051!Uart = <<Power("uart", {"USART1", "DMA1", "GPIOB"}), a, b, c, c, d, e>>
    BY PiecesF051, Zenon
  <2> HIDE DEF a, b, c, d, e
  <2> QED BY <2>1, Pieces, Zenon
<1> HIDE DEF a, b, c, d, e
<1>8. \A s \in {a, b, c, c, d, e} : Calm(s, all, {"adc", "uart"})
  BY <1>2, <1>3, <1>4, <1>5, <1>6, Zenon
<1> QED BY <1>7, <1>8, PoweredSound DEF all

LEMMA ComparatorG071 ==
  ASSUME chip = "G071", NEW on, {"GPIOA", "GPIOB"} \subseteq on
  PROVE  Sound(G071!Comparator, on, {}, on \cup {"SYSCFG"}, {})
<1> DEFINE all == on \cup {"SYSCFG"}
           a == Claim("comparator", {PA(2), PA(3)}, "analog")
           b == Claim("comparator", {PB(3), PB(7)}, "analog")
           c == Write("comparator", {"COMP", "EXTI"})
<1>1. {"GPIOA", "GPIOB", "SYSCFG"} \subseteq all
  OBVIOUS
<1> HIDE DEF all
<1>2. Calm(a, all, {})
  <2>1. /\ \A p \in {PA(2), PA(3)} : p[1] = "GPIOA"
        /\ \A p \in {PA(2), PA(3)} : p \in Retaken[chip] \/ ModeOf(p) = "analog"
    BY DEF PA, PB, Retaken, ModeOf, AnalogPins, OutputPins
  <2> QED BY <1>1, <2>1, PortClaim DEF ChipNames
<1>3. Calm(b, all, {})
  <2>1. /\ \A p \in {PB(3), PB(7)} : p[1] = "GPIOB"
        /\ \A p \in {PB(3), PB(7)} : p \in Retaken[chip] \/ ModeOf(p) = "analog"
    BY DEF PA, PB, Retaken, ModeOf, AnalogPins, OutputPins
  <2> QED BY <1>1, <2>1, PortClaim DEF ChipNames
<1>4. Calm(c, all, {})
  <2>1. Reached("comparator", {"COMP", "EXTI"}, all)
    BY <1>1, ComparatorReached DEF ChipNames
  <2> QED BY <2>1, WriteCalm
<1>5. Piece(G071!Comparator, Power("comparator", {"SYSCFG"}), {a, b, c})
  <2>1. G071!Comparator = <<Power("comparator", {"SYSCFG"}), a, b, c>>
    BY PiecesG071, Zenon
  <2> HIDE DEF a, b, c
  <2> QED BY <2>1, Pieces, Zenon
<1> HIDE DEF a, b, c
<1>6. \A s \in {a, b, c} : Calm(s, all, {})
  BY <1>2, <1>3, <1>4, Zenon
<1> QED BY <1>5, <1>6, PoweredSound DEF all

LEMMA CaptureG071 ==
  ASSUME chip = "G071", NEW on
  PROVE  Sound(G071!Capture, on, {}, on \cup {"TIM3", "DMA1", "GPIOB"}, {})
<1> DEFINE all == on \cup {"TIM3", "DMA1", "GPIOB"}
           a == Claim("capture", {PB(4)}, "alternate")
           b == Write("capture", {"DMAMUX"})
<1>1. {"DMA1", "GPIOB", "TIM3"} \subseteq all
  OBVIOUS
<1> HIDE DEF all
<1>2. Calm(a, all, {})
  <2>1. /\ \A p \in {PB(4)} : p[1] = "GPIOB"
        /\ \A p \in {PB(4)} : p \in Retaken[chip] \/ ModeOf(p) = "alternate"
    BY DEF PA, PB, Retaken, ModeOf, AnalogPins, OutputPins
  <2> QED BY <1>1, <2>1, PortClaim DEF ChipNames
<1>3. Calm(b, all, {})
  <2>1. Reached("capture", {"DMAMUX"}, all)
    BY <1>1, RoutedReached
  <2> QED BY <2>1, WriteCalm
<1>4. Piece(G071!Capture, Power("capture", {"TIM3", "DMA1", "GPIOB"}), {a, b})
  <2>1. G071!Capture = <<Power("capture", {"TIM3", "DMA1", "GPIOB"}), a, b>>
    BY PiecesG071, Zenon
  <2> HIDE DEF a, b
  <2> QED BY <2>1, Pieces, Zenon
<1> HIDE DEF a, b
<1>5. \A s \in {a, b} : Calm(s, all, {})
  BY <1>2, <1>3, Zenon
<1> QED BY <1>4, <1>5, PoweredSound DEF all

LEMMA AdcG071 ==
  ASSUME chip = "G071", NEW on, {"GPIOA"} \subseteq on
  PROVE  Sound(G071!Adc, on, {}, on \cup {"ADC", "DMA1"}, {"adc"})
<1> DEFINE all == on \cup {"ADC", "DMA1"}
           a == Claim("adc", {PA(4), PA(6)}, "analog")
           b == Channel("adc", 2, {"ADC", "DMAMUX"})
           c == Bounded("adc")
           d == Finish("adc")
<1>1. {"ADC", "DMA1", "GPIOA"} \subseteq all
  OBVIOUS
<1> HIDE DEF all
<1>2. Calm(a, all, {"adc"})
  <2>1. /\ \A p \in {PA(4), PA(6)} : p[1] = "GPIOA"
        /\ \A p \in {PA(4), PA(6)} : p \in Retaken[chip] \/ ModeOf(p) = "analog"
    BY DEF PA, PB, Retaken, ModeOf, AnalogPins, OutputPins
  <2> QED BY <1>1, <2>1, PortClaim DEF ChipNames
<1>3. Calm(b, all, {"adc"})
  <2>1. Reached("adc", {"DMA1"} \cup {"ADC", "DMAMUX"}, all)
    BY <1>1, RoutedReached DEF HandlerParts
  <2>2. <<"adc", 2>> \in Owners[chip]
    BY DEF Owners
  <2> QED BY <2>1, <2>2, ChannelCalm
<1>4. Calm(c, all, {"adc"})
  BY WaitingCalm
<1>5. Calm(d, all, {"adc"})
  BY WaitingCalm
<1>6. Piece(G071!Adc, Power("adc", {"ADC", "DMA1"}), {a, b, c, c, d})
  <2>1. G071!Adc = <<Power("adc", {"ADC", "DMA1"}), a, b, c, c, d>>
    BY PiecesG071, Zenon
  <2> HIDE DEF a, b, c, d
  <2> QED BY <2>1, Pieces, Zenon
<1> HIDE DEF a, b, c, d
<1>7. \A s \in {a, b, c, c, d} : Calm(s, all, {"adc"})
  BY <1>2, <1>3, <1>4, <1>5, Zenon
<1> QED BY <1>6, <1>7, PoweredSound DEF all

LEMMA UartG071 ==
  ASSUME chip = "G071", NEW on
  PROVE  Sound(G071!Uart, on, {"adc"}, on \cup {"USART1", "GPIOB", "DMA1"}, {"adc", "uart"})
<1> DEFINE all == on \cup {"USART1", "GPIOB", "DMA1"}
           a == Claim("uart", {PB(6)}, "alternate")
           b == Write("uart", {"USART1"})
           c == Bounded("uart")
           d == Channel("uart", 3, {"DMAMUX"})
           e == Finish("uart")
<1>1. {"DMA1", "GPIOB", "USART1"} \subseteq all
  OBVIOUS
<1> HIDE DEF all
<1>2. Calm(a, all, {"adc", "uart"})
  <2>1. /\ \A p \in {PB(6)} : p[1] = "GPIOB"
        /\ \A p \in {PB(6)} : p \in Retaken[chip] \/ ModeOf(p) = "alternate"
    BY DEF PA, PB, Retaken, ModeOf, AnalogPins, OutputPins
  <2> QED BY <1>1, <2>1, PortClaim DEF ChipNames
<1>3. Calm(b, all, {"adc", "uart"})
  <2>1. Reached("uart", {"USART1"}, all)
    BY <1>1, OwnReached DEF HandlerParts
  <2> QED BY <2>1, WriteCalm
<1>4. Calm(c, all, {"adc", "uart"})
  BY WaitingCalm
<1>5. Calm(d, all, {"adc", "uart"})
  <2>1. Reached("uart", {"DMA1"} \cup {"DMAMUX"}, all)
    BY <1>1, RoutedReached DEF HandlerParts
  <2>2. <<"uart", 3>> \in Owners[chip]
    BY DEF Owners
  <2> QED BY <2>1, <2>2, ChannelCalm
<1>6. Calm(e, all, {"adc", "uart"})
  BY WaitingCalm
<1>7. Piece(G071!Uart, Power("uart", {"USART1", "GPIOB", "DMA1"}), {a, b, c, c, d, e})
  <2>1. G071!Uart = <<Power("uart", {"USART1", "GPIOB", "DMA1"}), a, b, c, c, d, e>>
    BY PiecesG071, Zenon
  <2> HIDE DEF a, b, c, d, e
  <2> QED BY <2>1, Pieces, Zenon
<1> HIDE DEF a, b, c, d, e
<1>8. \A s \in {a, b, c, c, d, e} : Calm(s, all, {"adc", "uart"})
  BY <1>2, <1>3, <1>4, <1>5, <1>6, Zenon
<1> QED BY <1>7, <1>8, PoweredSound DEF all

LEMMA StartL431 ==
  ASSUME chip = "L431", NEW on
  PROVE  Sound(L431!Start, on, {}, on \cup {"GPIOA", "GPIOB", "TIM1"}, {})
<1> DEFINE all == on \cup {"GPIOA", "GPIOB", "TIM1"}
           a == Claim("bridge", BridgePins, "alternate")
           b == Write("bridge", {"TIM1"})
<1>1. {"GPIOA", "GPIOB", "TIM1"} \subseteq all
  OBVIOUS
<1> HIDE DEF all
<1>2. Calm(a, all, {})
  BY <1>1, BridgeCalm DEF ChipNames
<1>3. Calm(b, all, {})
  BY <1>1, BridgeCalm DEF ChipNames
<1>4. Piece(L431!Start, Power("core", {"GPIOA", "GPIOB", "TIM1"}), {a, b})
  <2>1. L431!Start = <<Power("core", {"GPIOA", "GPIOB", "TIM1"}), a, b>>
    BY PiecesL431, Zenon
  <2> HIDE DEF a, b
  <2> QED BY <2>1, Pieces, Zenon
<1> HIDE DEF a, b
<1>5. \A s \in {a, b} : Calm(s, all, {})
  BY <1>2, <1>3, Zenon
<1> QED BY <1>4, <1>5, PoweredSound DEF all

LEMMA ComparatorL431 ==
  ASSUME chip = "L431", NEW on
  PROVE  Sound(L431!Comparator, on, {}, on \cup {"GPIOA", "GPIOB"}, {})
<1> DEFINE all == on \cup {"GPIOA", "GPIOB"}
           a == Claim("comparator", {PA(4), PA(5)}, "analog")
           b == Claim("comparator", {PB(4), PB(7)}, "analog")
           c == Write("comparator", {"COMP", "EXTI"})
<1>1. {"GPIOA", "GPIOB"} \subseteq all
  OBVIOUS
<1> HIDE DEF all
<1>2. Calm(a, all, {})
  <2>1. /\ \A p \in {PA(4), PA(5)} : p[1] = "GPIOA"
        /\ \A p \in {PA(4), PA(5)} : p \in Retaken[chip] \/ ModeOf(p) = "analog"
    BY DEF PA, PB, Retaken, ModeOf, AnalogPins, OutputPins
  <2> QED BY <1>1, <2>1, PortClaim DEF ChipNames
<1>3. Calm(b, all, {})
  <2>1. /\ \A p \in {PB(4), PB(7)} : p[1] = "GPIOB"
        /\ \A p \in {PB(4), PB(7)} : p \in Retaken[chip] \/ ModeOf(p) = "analog"
    BY DEF PA, PB, Retaken, ModeOf, AnalogPins, OutputPins
  <2> QED BY <1>1, <2>1, PortClaim DEF ChipNames
<1>4. Calm(c, all, {})
  <2>1. Reached("comparator", {"COMP", "EXTI"}, all)
    BY <1>1, ComparatorReached DEF ChipNames
  <2> QED BY <2>1, WriteCalm
<1>5. Piece(L431!Comparator, Power("comparator", {"GPIOA", "GPIOB"}), {a, b, c})
  <2>1. L431!Comparator = <<Power("comparator", {"GPIOA", "GPIOB"}), a, b, c>>
    BY PiecesL431, Zenon
  <2> HIDE DEF a, b, c
  <2> QED BY <2>1, Pieces, Zenon
<1> HIDE DEF a, b, c
<1>6. \A s \in {a, b, c} : Calm(s, all, {})
  BY <1>2, <1>3, <1>4, Zenon
<1> QED BY <1>5, <1>6, PoweredSound DEF all

LEMMA CaptureL431 ==
  ASSUME chip = "L431", NEW on
  PROVE  Sound(L431!Capture, on, {}, on \cup {"TIM15", "DMA1", "GPIOA"}, {})
<1> DEFINE all == on \cup {"TIM15", "DMA1", "GPIOA"}
           a == Claim("capture", {PA(2)}, "alternate")
           b == Write("capture", {"DMA1"})
<1>1. {"DMA1", "GPIOA", "TIM15"} \subseteq all
  OBVIOUS
<1> HIDE DEF all
<1>2. Calm(a, all, {})
  <2>1. /\ \A p \in {PA(2)} : p[1] = "GPIOA"
        /\ \A p \in {PA(2)} : p \in Retaken[chip] \/ ModeOf(p) = "alternate"
    BY DEF PA, PB, Retaken, ModeOf, AnalogPins, OutputPins
  <2> QED BY <1>1, <2>1, PortClaim DEF ChipNames
<1>3. Calm(b, all, {})
  <2>1. Reached("capture", {"DMA1"}, all)
    BY <1>1, CommonGates, OwnReached DEF ChipNames
  <2> QED BY <2>1, WriteCalm
<1>4. Piece(L431!Capture, Power("capture", {"TIM15", "DMA1", "GPIOA"}), {a, b})
  <2>1. L431!Capture = <<Power("capture", {"TIM15", "DMA1", "GPIOA"}), a, b>>
    BY PiecesL431, Zenon
  <2> HIDE DEF a, b
  <2> QED BY <2>1, Pieces, Zenon
<1> HIDE DEF a, b
<1>5. \A s \in {a, b} : Calm(s, all, {})
  BY <1>2, <1>3, Zenon
<1> QED BY <1>4, <1>5, PoweredSound DEF all

LEMMA AdcL431 ==
  ASSUME chip = "L431", NEW on
  PROVE  Sound(L431!Adc, on, {}, on \cup {"ADC", "GPIOA", "DMA1"}, {"adc"})
<1> DEFINE all == on \cup {"ADC", "GPIOA", "DMA1"}
           a == Claim("adc", {PA(3), PA(6)}, "analog")
           b == Channel("adc", 1, {"ADC"})
           c == Bounded("adc")
           d == Finish("adc")
<1>1. {"ADC", "DMA1", "GPIOA"} \subseteq all
  OBVIOUS
<1> HIDE DEF all
<1>2. Calm(a, all, {"adc"})
  <2>1. /\ \A p \in {PA(3), PA(6)} : p[1] = "GPIOA"
        /\ \A p \in {PA(3), PA(6)} : p \in Retaken[chip] \/ ModeOf(p) = "analog"
    BY DEF PA, PB, Retaken, ModeOf, AnalogPins, OutputPins
  <2> QED BY <1>1, <2>1, PortClaim DEF ChipNames
<1>3. Calm(b, all, {"adc"})
  <2>1. Reached("adc", {"DMA1"} \cup {"ADC"}, all)
    BY <1>1, OwnReached DEF HandlerParts
  <2>2. <<"adc", 1>> \in Owners[chip]
    BY DEF Owners
  <2> QED BY <2>1, <2>2, ChannelCalm
<1>4. Calm(c, all, {"adc"})
  BY WaitingCalm
<1>5. Calm(d, all, {"adc"})
  BY WaitingCalm
<1>6. Piece(L431!Adc, Power("adc", {"ADC", "GPIOA", "DMA1"}), {a, b, c, c, d})
  <2>1. L431!Adc = <<Power("adc", {"ADC", "GPIOA", "DMA1"}), a, b, c, c, d>>
    BY PiecesL431, Zenon
  <2> HIDE DEF a, b, c, d
  <2> QED BY <2>1, Pieces, Zenon
<1> HIDE DEF a, b, c, d
<1>7. \A s \in {a, b, c, c, d} : Calm(s, all, {"adc"})
  BY <1>2, <1>3, <1>4, <1>5, Zenon
<1> QED BY <1>6, <1>7, PoweredSound DEF all

LEMMA UartL431 ==
  ASSUME chip = "L431", NEW on
  PROVE  Sound(L431!Uart, on, {"adc"}, on \cup {"USART1", "GPIOB", "DMA1"}, {"adc", "uart"})
<1> DEFINE all == on \cup {"USART1", "GPIOB", "DMA1"}
           a == Claim("uart", {PB(6)}, "alternate")
           b == Write("uart", {"USART1"})
           c == Bounded("uart")
           d == Channel("uart", 4, {})
           e == Finish("uart")
<1>1. {"DMA1", "GPIOB", "USART1"} \subseteq all
  OBVIOUS
<1> HIDE DEF all
<1>2. Calm(a, all, {"adc", "uart"})
  <2>1. /\ \A p \in {PB(6)} : p[1] = "GPIOB"
        /\ \A p \in {PB(6)} : p \in Retaken[chip] \/ ModeOf(p) = "alternate"
    BY DEF PA, PB, Retaken, ModeOf, AnalogPins, OutputPins
  <2> QED BY <1>1, <2>1, PortClaim DEF ChipNames
<1>3. Calm(b, all, {"adc", "uart"})
  <2>1. Reached("uart", {"USART1"}, all)
    BY <1>1, OwnReached DEF HandlerParts
  <2> QED BY <2>1, WriteCalm
<1>4. Calm(c, all, {"adc", "uart"})
  BY WaitingCalm
<1>5. Calm(d, all, {"adc", "uart"})
  <2>1. Reached("uart", {"DMA1"} \cup {}, all)
    BY <1>1, OwnReached DEF HandlerParts
  <2>2. <<"uart", 4>> \in Owners[chip]
    BY DEF Owners
  <2> QED BY <2>1, <2>2, ChannelCalm
<1>6. Calm(e, all, {"adc", "uart"})
  BY WaitingCalm
<1>7. Piece(L431!Uart, Power("uart", {"USART1", "GPIOB", "DMA1"}), {a, b, c, c, d, e})
  <2>1. L431!Uart = <<Power("uart", {"USART1", "GPIOB", "DMA1"}), a, b, c, c, d, e>>
    BY PiecesL431, Zenon
  <2> HIDE DEF a, b, c, d, e
  <2> QED BY <2>1, Pieces, Zenon
<1> HIDE DEF a, b, c, d, e
<1>8. \A s \in {a, b, c, c, d, e} : Calm(s, all, {"adc", "uart"})
  BY <1>2, <1>3, <1>4, <1>5, <1>6, Zenon
<1> QED BY <1>7, <1>8, PoweredSound DEF all

LEMMA ComparatorG431 ==
  ASSUME chip = "G431", NEW on
  PROVE  Sound(G431!Comparator, on, {}, on \cup {"GPIOA"}, {})
<1> DEFINE all == on \cup {"GPIOA"}
           a == Claim("comparator", {PA(0), PA(1), PA(3), PA(4), PA(5)}, "analog")
           b == Write("comparator", {"COMP", "EXTI"})
<1>1. {"GPIOA"} \subseteq all
  OBVIOUS
<1> HIDE DEF all
<1>2. Calm(a, all, {})
  <2>1. /\ \A p \in {PA(0), PA(1), PA(3), PA(4), PA(5)} : p[1] = "GPIOA"
        /\ \A p \in {PA(0), PA(1), PA(3), PA(4), PA(5)} : p \in Retaken[chip] \/ ModeOf(p) = "analog"
    BY DEF PA, PB, Retaken, ModeOf, AnalogPins, OutputPins
  <2> QED BY <1>1, <2>1, PortClaim DEF ChipNames
<1>3. Calm(b, all, {})
  <2>1. Reached("comparator", {"COMP", "EXTI"}, all)
    BY <1>1, ComparatorReached DEF ChipNames
  <2> QED BY <2>1, WriteCalm
<1>4. Piece(G431!Comparator, Power("comparator", {"GPIOA"}), {a, b})
  <2>1. G431!Comparator = <<Power("comparator", {"GPIOA"}), a, b>>
    BY PiecesG431, Zenon
  <2> HIDE DEF a, b
  <2> QED BY <2>1, Pieces, Zenon
<1> HIDE DEF a, b
<1>5. \A s \in {a, b} : Calm(s, all, {})
  BY <1>2, <1>3, Zenon
<1> QED BY <1>4, <1>5, PoweredSound DEF all

LEMMA CaptureG431 ==
  ASSUME chip = "G431", NEW on
  PROVE  Sound(G431!Capture, on, {}, on \cup {"TIM15", "DMA1", "GPIOA"}, {})
<1> DEFINE all == on \cup {"TIM15", "DMA1", "GPIOA"}
           a == Claim("capture", {PA(2)}, "alternate")
           b == Write("capture", {"DMAMUX"})
<1>1. {"DMA1", "GPIOA", "TIM15"} \subseteq all
  OBVIOUS
<1> HIDE DEF all
<1>2. Calm(a, all, {})
  <2>1. /\ \A p \in {PA(2)} : p[1] = "GPIOA"
        /\ \A p \in {PA(2)} : p \in Retaken[chip] \/ ModeOf(p) = "alternate"
    BY DEF PA, PB, Retaken, ModeOf, AnalogPins, OutputPins
  <2> QED BY <1>1, <2>1, PortClaim DEF ChipNames
<1>3. Calm(b, all, {})
  <2>1. Reached("capture", {"DMAMUX"}, all)
    BY <1>1, RoutedReached
  <2> QED BY <2>1, WriteCalm
<1>4. Piece(G431!Capture, Power("capture", {"TIM15", "DMA1", "GPIOA"}), {a, b})
  <2>1. G431!Capture = <<Power("capture", {"TIM15", "DMA1", "GPIOA"}), a, b>>
    BY PiecesG431, Zenon
  <2> HIDE DEF a, b
  <2> QED BY <2>1, Pieces, Zenon
<1> HIDE DEF a, b
<1>5. \A s \in {a, b} : Calm(s, all, {})
  BY <1>2, <1>3, Zenon
<1> QED BY <1>4, <1>5, PoweredSound DEF all

LEMMA AdcG431 ==
  ASSUME chip = "G431", NEW on
  PROVE  Sound(G431!Adc, on, {}, on \cup {"ADC12", "GPIOA", "DMA1"}, {"adc"})
<1> DEFINE all == on \cup {"ADC12", "GPIOA", "DMA1"}
           a == Claim("adc", {PA(4), PA(5)}, "analog")
           b == Channel("adc", 2, {"ADC12", "DMAMUX"})
           c == Bounded("adc")
           d == Finish("adc")
<1>1. {"ADC12", "DMA1", "GPIOA"} \subseteq all
  OBVIOUS
<1> HIDE DEF all
<1>2. Calm(a, all, {"adc"})
  <2>1. /\ \A p \in {PA(4), PA(5)} : p[1] = "GPIOA"
        /\ \A p \in {PA(4), PA(5)} : p \in Retaken[chip] \/ ModeOf(p) = "analog"
    BY DEF PA, PB, Retaken, ModeOf, AnalogPins, OutputPins
  <2> QED BY <1>1, <2>1, PortClaim DEF ChipNames
<1>3. Calm(b, all, {"adc"})
  <2>1. Reached("adc", {"DMA1"} \cup {"ADC12", "DMAMUX"}, all)
    BY <1>1, RoutedReached DEF HandlerParts
  <2>2. <<"adc", 2>> \in Owners[chip]
    BY DEF Owners
  <2> QED BY <2>1, <2>2, ChannelCalm
<1>4. Calm(c, all, {"adc"})
  BY WaitingCalm
<1>5. Calm(d, all, {"adc"})
  BY WaitingCalm
<1>6. Piece(G431!Adc, Power("adc", {"ADC12", "GPIOA", "DMA1"}), {a, b, c, c, d})
  <2>1. G431!Adc = <<Power("adc", {"ADC12", "GPIOA", "DMA1"}), a, b, c, c, d>>
    BY PiecesG431, Zenon
  <2> HIDE DEF a, b, c, d
  <2> QED BY <2>1, Pieces, Zenon
<1> HIDE DEF a, b, c, d
<1>7. \A s \in {a, b, c, c, d} : Calm(s, all, {"adc"})
  BY <1>2, <1>3, <1>4, <1>5, Zenon
<1> QED BY <1>6, <1>7, PoweredSound DEF all

LEMMA UartG431 ==
  ASSUME chip = "G431", NEW on
  PROVE  Sound(G431!Uart, on, {"adc"}, on \cup {"USART2", "GPIOB", "DMA1"}, {"adc", "uart"})
<1> DEFINE all == on \cup {"USART2", "GPIOB", "DMA1"}
           a == Claim("uart", {PB(3)}, "alternate")
           b == Write("uart", {"USART2"})
           c == Bounded("uart")
           d == Channel("uart", 3, {"DMAMUX"})
           e == Finish("uart")
<1>1. {"DMA1", "GPIOB", "USART2"} \subseteq all
  OBVIOUS
<1> HIDE DEF all
<1>2. Calm(a, all, {"adc", "uart"})
  <2>1. /\ \A p \in {PB(3)} : p[1] = "GPIOB"
        /\ \A p \in {PB(3)} : p \in Retaken[chip] \/ ModeOf(p) = "alternate"
    BY DEF PA, PB, Retaken, ModeOf, AnalogPins, OutputPins
  <2> QED BY <1>1, <2>1, PortClaim DEF ChipNames
<1>3. Calm(b, all, {"adc", "uart"})
  <2>1. Reached("uart", {"USART2"}, all)
    BY <1>1, OwnReached DEF HandlerParts
  <2> QED BY <2>1, WriteCalm
<1>4. Calm(c, all, {"adc", "uart"})
  BY WaitingCalm
<1>5. Calm(d, all, {"adc", "uart"})
  <2>1. Reached("uart", {"DMA1"} \cup {"DMAMUX"}, all)
    BY <1>1, RoutedReached DEF HandlerParts
  <2>2. <<"uart", 3>> \in Owners[chip]
    BY DEF Owners
  <2> QED BY <2>1, <2>2, ChannelCalm
<1>6. Calm(e, all, {"adc", "uart"})
  BY WaitingCalm
<1>7. Piece(G431!Uart, Power("uart", {"USART2", "GPIOB", "DMA1"}), {a, b, c, d, e})
  <2>1. G431!Uart = <<Power("uart", {"USART2", "GPIOB", "DMA1"}), a, b, c, d, e>>
    BY PiecesG431, Zenon
  <2> HIDE DEF a, b, c, d, e
  <2> QED BY <2>1, Pieces, Zenon
<1> HIDE DEF a, b, c, d, e
<1>8. \A s \in {a, b, c, d, e} : Calm(s, all, {"adc", "uart"})
  BY <1>2, <1>3, <1>4, <1>5, <1>6, Zenon
<1> QED BY <1>7, <1>8, PoweredSound DEF all

(* Pieces that turn clocks on later than at their begin. *)
LEMMA ComparatorF051 ==
  ASSUME chip = "F051", NEW on, "GPIOA" \in on
  PROVE  Sound(F051!Comparator, on, {}, on \cup {"SYSCFG"}, {})
<1> DEFINE all == on \cup {"SYSCFG"}
           claim == Claim("comparator", {PA(0), PA(1), PA(4), PA(5)}, "analog")
           clock == Power("comparator", {"SYSCFG"})
           write == Write("comparator", {"COMP", "EXTI"})
<1>1. Sound(<<claim>>, on, {}, on, {})
  <2>1. /\ \A p \in {PA(0), PA(1), PA(4), PA(5)} : p[1] = "GPIOA"
        /\ \A p \in {PA(0), PA(1), PA(4), PA(5)} : p \in Retaken[chip] \/ ModeOf(p) = "analog"
    BY DEF PA, ModeOf, AnalogPins
  <2>2. Calm(claim, on, {})
    BY <2>1, PortClaim DEF ChipNames
  <2> HIDE DEF claim
  <2>3. Piece(<<claim>>, claim, {})
    BY Pieces, Zenon
  <2> QED BY <2>2, <2>3, QuietSound
<1>2. Sound(<<clock, write>>, on, {}, all, {})
  <2>1. Reached("comparator", {"COMP", "EXTI"}, all)
    BY ComparatorReached DEF ChipNames
  <2>2. Calm(write, all, {})
    BY <2>1, WriteCalm
  <2> HIDE DEF write
  <2>3. Piece(<<clock, write>>, Power("comparator", {"SYSCFG"}), {write})
    BY Pieces, Zenon
  <2>4. \A s \in {write} : Calm(s, on \cup {"SYSCFG"}, {})
    BY <2>2
  <2> QED BY <2>3, <2>4, PoweredSound
<1>3. F051!Comparator = <<claim>> \o <<clock, write>>
  <2>1. F051!Comparator = <<claim, clock, write>>
    BY PiecesF051, Zenon
  <2> HIDE DEF claim, clock, write
  <2> QED BY <2>1, OneAndTwo, Zenon
<1> HIDE DEF claim, clock, write, all
<1>4. Sound(F051!Comparator, on, {}, all, {})
  BY <1>1, <1>2, <1>3, InTurn
<1> QED BY <1>4 DEF all

LEMMA StartG071 ==
  ASSUME chip = "G071"
  PROVE  Sound(G071!Start, {}, {}, {"GPIOA", "GPIOB"} \cup {"TIM1"}, {})
<1> DEFINE on == {"GPIOA", "GPIOB"}
           all == on \cup {"TIM1"}
           core == Power("core", {"GPIOA", "GPIOB"})
           clock == Power("bridge", {"TIM1"})
           claim == Claim("bridge", BridgePins, "alternate")
           write == Write("bridge", {"TIM1"})
<1>1. Sound(<<core>>, {}, {}, on, {})
  <2>1. Piece(<<core>>, Power("core", {"GPIOA", "GPIOB"}), {})
    BY Pieces, Zenon
  <2>2. Sound(<<core>>, {}, {}, {} \cup {"GPIOA", "GPIOB"}, {})
    BY <2>1, PoweredSound
  <2>3. {} \cup {"GPIOA", "GPIOB"} = on
    OBVIOUS
  <2> QED BY <2>2, <2>3
<1>2. Sound(<<clock, claim, write>>, on, {}, all, {})
  <2>1. Calm(claim, all, {}) /\ Calm(write, all, {})
    BY BridgeCalm DEF ChipNames
  <2> HIDE DEF claim, write, on
  <2>2. \A s \in {claim, write} : Calm(s, on \cup {"TIM1"}, {})
    BY <2>1
  <2>3. Piece(<<clock, claim, write>>, Power("bridge", {"TIM1"}), {claim, write})
    BY Pieces, Zenon
  <2> QED BY <2>2, <2>3, PoweredSound
<1>3. G071!Start = <<core>> \o <<clock, claim, write>>
  <2>1. G071!Start = <<core, clock, claim, write>>
    BY PiecesG071, Zenon
  <2> HIDE DEF core, clock, claim, write
  <2> QED BY <2>1, OneAndThree, Zenon
<1> HIDE DEF core, clock, claim, write, on, all
<1>4. Sound(G071!Start, {}, {}, all, {})
  BY <1>1, <1>2, <1>3, InTurn
<1> QED BY <1>4 DEF all, on

LEMMA StartG431 ==
  ASSUME chip = "G431"
  PROVE  Sound(G431!Start, {}, {},
               {} \cup {"GPIOA", "GPIOB", "TIM1", "TIM15", "TIM16", "TIM2", "TIM6"}, {})
<1> DEFINE new == {"GPIOA", "GPIOB", "TIM1", "TIM15", "TIM16", "TIM2", "TIM6"}
           all == {} \cup new
           flash == Write("core", {"FLASH"})
           wait == Endless("core")
           clock == Power("core", new)
           claim == Claim("bridge", BridgePins, "alternate")
           write == Write("bridge", {"TIM1"})
<1>1. Sound(<<flash, wait, wait, wait>>, {}, {}, {}, {})
  <2>1. Reached("core", {"FLASH"}, {})
    BY OwnReached DEF AlwaysClocked, HandlerParts
  <2>2. Calm(flash, {}, {}) /\ Calm(wait, {}, {})
    BY <2>1, WriteCalm, QuietCalm
  <2> HIDE DEF flash, wait
  <2>3. \A s \in {wait, wait, wait} : Calm(s, {}, {})
    BY <2>2
  <2>4. Piece(<<flash, wait, wait, wait>>, flash, {wait, wait, wait})
    BY Pieces, Zenon
  <2> QED BY <2>2, <2>3, <2>4, QuietSound
<1>2. Sound(<<clock, claim, write>>, {}, {}, all, {})
  <2>1. Calm(claim, all, {}) /\ Calm(write, all, {})
    BY BridgeCalm DEF ChipNames
  <2> HIDE DEF claim, write, new
  <2>2. \A s \in {claim, write} : Calm(s, {} \cup new, {})
    BY <2>1
  <2>3. Piece(<<clock, claim, write>>, Power("core", new), {claim, write})
    BY Pieces, Zenon
  <2> QED BY <2>2, <2>3, PoweredSound
<1>3. G431!Start = <<flash, wait, wait, wait>> \o <<clock, claim, write>>
  <2>1. G431!Start = <<flash, wait, wait, wait, clock, claim, write>>
    BY PiecesG431, Zenon
  <2> HIDE DEF flash, wait, clock, claim, write
  <2> HIDE DEF new, all
  <2>2. <<flash, wait, wait, wait, clock, claim, write>>
          = <<flash, wait, wait, wait>> \o <<clock, claim, write>>
    BY ONLY FourAndThree
  <2> QED BY <2>1, <2>2, Zenon
<1> HIDE DEF flash, wait, clock, claim, write, all
<1>4. Sound(G431!Start, {}, {}, all, {})
  BY <1>1, <1>2, <1>3, InTurn
<1> QED BY <1>4 DEF all, new

-----------------------------------------------------------------------------
(* The plans: init::init of each chip, and then main.                          *)
LEMMA PlanSound ==
  ASSUME NEW p1, NEW p2, NEW p3, NEW p4, NEW p5, NEW p6, NEW p7, NEW p8, NEW p9, NEW p10,
         NEW on1, NEW on2, NEW on3, NEW on4, NEW on5, NEW on6, NEW on7, NEW w1, NEW w2,
         Sound(p1, {}, {}, on1, {}), Sound(p2, on1, {}, on2, {}),
         Sound(p3, on2, {}, on3, {}), Sound(p4, on3, {}, on4, {}),
         Sound(p5, on4, {}, on4, {}), Sound(p6, on4, {}, on5, w1),
         Sound(p7, on5, w1, on6, w2), Sound(p8, on6, w2, on7, w2),
         Sound(p9, on7, w2, on7, w2), Sound(p10, on7, w2, on7, w2), Ends(p10)
  PROVE  /\ Sound(p1 \o p2 \o p3 \o p4 \o p5 \o p6 \o p7 \o p8 \o p9 \o p10, {}, {}, on7, w2)
         /\ Ends(p1 \o p2 \o p3 \o p4 \o p5 \o p6 \o p7 \o p8 \o p9 \o p10)
<1>1. Sound(p1 \o p2, {}, {}, on2, {})
  BY InTurn
<1>2. Sound(p1 \o p2 \o p3, {}, {}, on3, {})
  BY <1>1, InTurn
<1>3. Sound(p1 \o p2 \o p3 \o p4, {}, {}, on4, {})
  BY <1>2, InTurn
<1>4. Sound(p1 \o p2 \o p3 \o p4 \o p5, {}, {}, on4, {})
  BY <1>3, InTurn
<1>5. Sound(p1 \o p2 \o p3 \o p4 \o p5 \o p6, {}, {}, on5, w1)
  BY <1>4, InTurn
<1>6. Sound(p1 \o p2 \o p3 \o p4 \o p5 \o p6 \o p7, {}, {}, on6, w2)
  BY <1>5, InTurn
<1>7. Sound(p1 \o p2 \o p3 \o p4 \o p5 \o p6 \o p7 \o p8, {}, {}, on7, w2)
  BY <1>6, InTurn
<1>8. Sound(p1 \o p2 \o p3 \o p4 \o p5 \o p6 \o p7 \o p8 \o p9, {}, {}, on7, w2)
  BY <1>7, InTurn
<1>9. Sound(p1 \o p2 \o p3 \o p4 \o p5 \o p6 \o p7 \o p8 \o p9 \o p10, {}, {}, on7, w2)
  BY <1>8, InTurn
<1>10. Ends((p1 \o p2 \o p3 \o p4 \o p5 \o p6 \o p7 \o p8 \o p9) \o p10)
  BY <1>8, EndsAlike
<1> QED BY <1>9, <1>10

LEMMA SoundF051 ==
  ASSUME chip = "F051"
  PROVE  (\E on : Sound(PlanF051, {}, {}, on, {"adc", "uart"})) /\ Ends(PlanF051)
<1> DEFINE on1 == {} \cup {"GPIOA", "GPIOB", "TIM1"}
           on2 == on1 \cup {"SYSCFG"}
           on3 == on2 \cup {"TIM2", "TIM14"}
           on4 == on3 \cup {"TIM15", "DMA1", "GPIOA"}
           on5 == on4 \cup {"ADC", "DMA1"}
           on6 == on5 \cup {"USART1", "DMA1", "GPIOB"}
           on7 == on6 \cup {"TIM6"}
<1>1. /\ {"GPIOA", "GPIOB", "TIM1"} \subseteq on1 /\ {"SYSCFG"} \subseteq on2
      /\ {"TIM2", "TIM14"} \subseteq on3 /\ {"TIM15", "DMA1", "GPIOA"} \subseteq on4
      /\ on1 \subseteq on2 /\ on2 \subseteq on3 /\ on3 \subseteq on4 /\ on4 \subseteq on5
      /\ on5 \subseteq on6 /\ on6 \subseteq on7 /\ "TIM6" \in on7
  OBVIOUS
<1>2. HandlerGates[chip] \subseteq on7
  BY <1>1 DEF HandlerGates
<1>3. chip \in ChipNames /\ "TIM14" \in HandlerGates[chip]
      /\ {"DMA1", Channels[chip].timer} \subseteq on4
  BY <1>1 DEF ChipNames, HandlerGates, Channels, F051!CaptureChannel
<1>4. Sound(F051!Start, {}, {}, on1, {})
  BY StartF051
<1> HIDE DEF on1
<1>5. Sound(F051!Comparator, on1, {}, on2, {})
  BY <1>1, ComparatorF051
<1> HIDE DEF on2
<1>6. Sound(Timers(F051!IntervalClock, F051!StepClock), on2, {}, on3, {})
  <2>1. F051!IntervalClock = Power("interval", {"TIM2"}) /\ F051!StepClock = Power("step", {"TIM14"})
    BY PiecesF051, Zenon
  <2> QED BY <1>3, <2>1, TimersSound
<1> HIDE DEF on3
<1>7. Sound(F051!Capture, on3, {}, on4, {})
  BY <1>1, CaptureF051
<1> HIDE DEF on4
<1>8. Sound(Receiving("F051"), on4, {}, on4, {})
  BY <1>3, ReceivingSound
<1>9. Sound(F051!Adc, on4, {}, on5, {"adc"})
  BY <1>1, AdcF051
<1> HIDE DEF on5
<1>10. Sound(F051!Uart, on5, {"adc"}, on6, {"adc", "uart"})
  BY <1>1, UartF051
<1>11. Sound(F051!Tick, on6, {"adc", "uart"}, on7, {"adc", "uart"})
  <2>1. F051!Tick = <<Power("tick", {"TIM6"}), Write("tick", {"TIM6"})>>
    BY PiecesF051, Zenon
  <2> HIDE DEF on6
  <2> QED BY <1>1, <1>3, <2>1, TickSound
<1> HIDE DEF on6, on7
<1>12. Sound(F051!Interrupts, on7, {"adc", "uart"}, on7, {"adc", "uart"})
  <2>1. F051!Interrupts = <<Unmask("irqs", ControlIrqs), Write("frame", {"EXTI"})>>
    BY PiecesF051, Zenon
  <2> QED BY <1>2, <2>1, InterruptsSound
<1>13. Sound(Main("F051"), on7, {"adc", "uart"}, on7, {"adc", "uart"}) /\ Ends(Main("F051"))
  BY <1>2, <1>3, MainSound
<1>14. Sound(PlanF051, {}, {}, on7, {"adc", "uart"}) /\ Ends(PlanF051)
  BY <1>4, <1>5, <1>6, <1>7, <1>8, <1>9, <1>10, <1>11, <1>12, <1>13,
     PlanSound, Zenon
     DEF PlanF051
<1> QED BY <1>14

LEMMA SoundG071 ==
  ASSUME chip = "G071"
  PROVE  (\E on : Sound(PlanG071, {}, {}, on, {"adc", "uart"})) /\ Ends(PlanG071)
<1> DEFINE on1 == {"GPIOA", "GPIOB"} \cup {"TIM1"}
           on2 == on1 \cup {"SYSCFG"}
           on3 == on2 \cup {"TIM2", "TIM14"}
           on4 == on3 \cup {"TIM3", "DMA1", "GPIOB"}
           on5 == on4 \cup {"ADC", "DMA1"}
           on6 == on5 \cup {"USART1", "GPIOB", "DMA1"}
           on7 == on6 \cup {"TIM6"}
<1>1. /\ {"GPIOA", "GPIOB", "TIM1"} \subseteq on1 /\ {"SYSCFG"} \subseteq on2
      /\ {"TIM2", "TIM14"} \subseteq on3 /\ {"TIM3", "DMA1", "GPIOB"} \subseteq on4
      /\ on1 \subseteq on2 /\ on2 \subseteq on3 /\ on3 \subseteq on4 /\ on4 \subseteq on5
      /\ on5 \subseteq on6 /\ on6 \subseteq on7 /\ "TIM6" \in on7
  OBVIOUS
<1>2. HandlerGates[chip] \subseteq on7
  BY <1>1 DEF HandlerGates
<1>3. chip \in ChipNames /\ "TIM14" \in HandlerGates[chip]
      /\ {"DMA1", Channels[chip].timer} \subseteq on4
  BY <1>1 DEF ChipNames, HandlerGates, Channels, G071!CaptureChannel
<1>4. Sound(G071!Start, {}, {}, on1, {})
  BY StartG071
<1> HIDE DEF on1
<1>5. Sound(G071!Comparator, on1, {}, on2, {})
  BY <1>1, ComparatorG071
<1> HIDE DEF on2
<1>6. Sound(Timers(G071!IntervalClock, G071!StepClock), on2, {}, on3, {})
  <2>1. G071!IntervalClock = Power("interval", {"TIM2"}) /\ G071!StepClock = Power("step", {"TIM14"})
    BY PiecesG071, Zenon
  <2> QED BY <1>3, <2>1, TimersSound
<1> HIDE DEF on3
<1>7. Sound(G071!Capture, on3, {}, on4, {})
  BY <1>1, CaptureG071
<1> HIDE DEF on4
<1>8. Sound(Receiving("G071"), on4, {}, on4, {})
  BY <1>3, ReceivingSound
<1>9. Sound(G071!Adc, on4, {}, on5, {"adc"})
  BY <1>1, AdcG071
<1> HIDE DEF on5
<1>10. Sound(G071!Uart, on5, {"adc"}, on6, {"adc", "uart"})
  BY <1>1, UartG071
<1>11. Sound(G071!Tick, on6, {"adc", "uart"}, on7, {"adc", "uart"})
  <2>1. G071!Tick = <<Power("tick", {"TIM6"}), Write("tick", {"TIM6"})>>
    BY PiecesG071, Zenon
  <2> HIDE DEF on6
  <2> QED BY <1>1, <1>3, <2>1, TickSound
<1> HIDE DEF on6, on7
<1>12. Sound(G071!Interrupts, on7, {"adc", "uart"}, on7, {"adc", "uart"})
  <2>1. G071!Interrupts = <<Unmask("irqs", ControlIrqs), Write("frame", {"EXTI"})>>
    BY PiecesG071, Zenon
  <2> QED BY <1>2, <2>1, InterruptsSound
<1>13. Sound(Main("G071"), on7, {"adc", "uart"}, on7, {"adc", "uart"}) /\ Ends(Main("G071"))
  BY <1>2, <1>3, MainSound
<1>14. Sound(PlanG071, {}, {}, on7, {"adc", "uart"}) /\ Ends(PlanG071)
  BY <1>4, <1>5, <1>6, <1>7, <1>8, <1>9, <1>10, <1>11, <1>12, <1>13,
     PlanSound, Zenon
     DEF PlanG071
<1> QED BY <1>14

LEMMA SoundL431 ==
  ASSUME chip = "L431"
  PROVE  (\E on : Sound(PlanL431, {}, {}, on, {"adc", "uart"})) /\ Ends(PlanL431)
<1> DEFINE on1 == {} \cup {"GPIOA", "GPIOB", "TIM1"}
           on2 == on1 \cup {"GPIOA", "GPIOB"}
           on3 == on2 \cup {"TIM2", "TIM16"}
           on4 == on3 \cup {"TIM15", "DMA1", "GPIOA"}
           on5 == on4 \cup {"ADC", "GPIOA", "DMA1"}
           on6 == on5 \cup {"USART1", "GPIOB", "DMA1"}
           on7 == on6 \cup {"TIM6"}
<1>1. /\ {"GPIOA", "GPIOB", "TIM1"} \subseteq on1 /\ {"GPIOA", "GPIOB"} \subseteq on2
      /\ {"TIM2", "TIM16"} \subseteq on3 /\ {"TIM15", "DMA1", "GPIOA"} \subseteq on4
      /\ on1 \subseteq on2 /\ on2 \subseteq on3 /\ on3 \subseteq on4 /\ on4 \subseteq on5
      /\ on5 \subseteq on6 /\ on6 \subseteq on7 /\ "TIM6" \in on7
  OBVIOUS
<1>2. HandlerGates[chip] \subseteq on7
  BY <1>1 DEF HandlerGates
<1>3. chip \in ChipNames /\ "TIM16" \in HandlerGates[chip]
      /\ {"DMA1", Channels[chip].timer} \subseteq on4
  BY <1>1 DEF ChipNames, HandlerGates, Channels, L431!CaptureChannel
<1>4. Sound(L431!Start, {}, {}, on1, {})
  BY StartL431
<1> HIDE DEF on1
<1>5. Sound(L431!Comparator, on1, {}, on2, {})
  BY <1>1, ComparatorL431
<1> HIDE DEF on2
<1>6. Sound(Timers(L431!IntervalClock, L431!StepClock), on2, {}, on3, {})
  <2>1. L431!IntervalClock = Power("interval", {"TIM2"}) /\ L431!StepClock = Power("step", {"TIM16"})
    BY PiecesL431, Zenon
  <2> QED BY <1>3, <2>1, TimersSound
<1> HIDE DEF on3
<1>7. Sound(L431!Capture, on3, {}, on4, {})
  BY <1>1, CaptureL431
<1> HIDE DEF on4
<1>8. Sound(Receiving("L431"), on4, {}, on4, {})
  BY <1>3, ReceivingSound
<1>9. Sound(L431!Adc, on4, {}, on5, {"adc"})
  BY <1>1, AdcL431
<1> HIDE DEF on5
<1>10. Sound(L431!Uart, on5, {"adc"}, on6, {"adc", "uart"})
  BY <1>1, UartL431
<1>11. Sound(L431!Tick, on6, {"adc", "uart"}, on7, {"adc", "uart"})
  <2>1. L431!Tick = <<Power("tick", {"TIM6"}), Write("tick", {"TIM6"})>>
    BY PiecesL431, Zenon
  <2> HIDE DEF on6
  <2> QED BY <1>1, <1>3, <2>1, TickSound
<1> HIDE DEF on6, on7
<1>12. Sound(L431!Interrupts, on7, {"adc", "uart"}, on7, {"adc", "uart"})
  <2>1. L431!Interrupts = <<Unmask("irqs", ControlIrqs), Write("frame", {"EXTI"})>>
    BY PiecesL431, Zenon
  <2> QED BY <1>2, <2>1, InterruptsSound
<1>13. Sound(Main("L431"), on7, {"adc", "uart"}, on7, {"adc", "uart"}) /\ Ends(Main("L431"))
  BY <1>2, <1>3, MainSound
<1>14. Sound(PlanL431, {}, {}, on7, {"adc", "uart"}) /\ Ends(PlanL431)
  BY <1>4, <1>5, <1>6, <1>7, <1>8, <1>9, <1>10, <1>11, <1>12, <1>13,
     PlanSound, Zenon
     DEF PlanL431
<1> QED BY <1>14

LEMMA SoundG431 ==
  ASSUME chip = "G431"
  PROVE  (\E on : Sound(PlanG431, {}, {}, on, {"adc", "uart"})) /\ Ends(PlanG431)
<1> DEFINE on1 == {} \cup {"GPIOA", "GPIOB", "TIM1", "TIM15", "TIM16", "TIM2", "TIM6"}
           on2 == on1 \cup {"GPIOA"}
           on3 == on2 \cup {"TIM2", "TIM16"}
           on4 == on3 \cup {"TIM15", "DMA1", "GPIOA"}
           on5 == on4 \cup {"ADC12", "GPIOA", "DMA1"}
           on6 == on5 \cup {"USART2", "GPIOB", "DMA1"}
           on7 == on6
<1>1. /\ {"GPIOA", "GPIOB", "TIM1"} \subseteq on1 /\ {"GPIOA"} \subseteq on2
      /\ {"TIM2", "TIM16"} \subseteq on3 /\ {"TIM15", "DMA1", "GPIOA"} \subseteq on4
      /\ on1 \subseteq on2 /\ on2 \subseteq on3 /\ on3 \subseteq on4 /\ on4 \subseteq on5
      /\ on5 \subseteq on6 /\ on6 \subseteq on7 /\ "TIM6" \in on7
  OBVIOUS
<1>2. HandlerGates[chip] \subseteq on7
  BY <1>1 DEF HandlerGates
<1>3. chip \in ChipNames /\ "TIM16" \in HandlerGates[chip]
      /\ {"DMA1", Channels[chip].timer} \subseteq on4
  BY <1>1 DEF ChipNames, HandlerGates, Channels, G431!CaptureChannel
<1>4. Sound(G431!Start, {}, {}, on1, {})
  BY StartG431
<1> HIDE DEF on1
<1>5. Sound(G431!Comparator, on1, {}, on2, {})
  BY <1>1, ComparatorG431
<1> HIDE DEF on2
<1>6. Sound(Timers(G431!IntervalClock, G431!StepClock), on2, {}, on3, {})
  <2>1. G431!IntervalClock = Power("interval", {"TIM2"}) /\ G431!StepClock = Power("step", {"TIM16"})
    BY PiecesG431, Zenon
  <2> QED BY <1>3, <2>1, TimersSound
<1> HIDE DEF on3
<1>7. Sound(G431!Capture, on3, {}, on4, {})
  BY <1>1, CaptureG431
<1> HIDE DEF on4
<1>8. Sound(Receiving("G431"), on4, {}, on4, {})
  BY <1>3, ReceivingSound
<1>9. Sound(G431!Adc, on4, {}, on5, {"adc"})
  BY <1>1, AdcG431
<1> HIDE DEF on5
<1>10. Sound(G431!Uart, on5, {"adc"}, on6, {"adc", "uart"})
  BY <1>1, UartG431
<1>11. Sound(G431!Tick, on6, {"adc", "uart"}, on7, {"adc", "uart"})
  <2>1. G431!Tick = <<Write("tick", {"TIM6"})>>
    BY PiecesG431, Zenon
  <2> HIDE DEF on6
  <2> QED BY <1>1, <1>3, <2>1, TickSound
<1> HIDE DEF on6, on7
<1>12. Sound(G431!Interrupts, on7, {"adc", "uart"}, on7, {"adc", "uart"})
  <2>1. G431!Interrupts = <<Unmask("irqs", ControlIrqs), Write("frame", {"EXTI"})>>
    BY PiecesG431, Zenon
  <2> QED BY <1>2, <2>1, InterruptsSound
<1>13. Sound(Main("G431"), on7, {"adc", "uart"}, on7, {"adc", "uart"}) /\ Ends(Main("G431"))
  BY <1>2, <1>3, MainSound
<1>14. Sound(PlanG431, {}, {}, on7, {"adc", "uart"}) /\ Ends(PlanG431)
  BY <1>4, <1>5, <1>6, <1>7, <1>8, <1>9, <1>10, <1>11, <1>12, <1>13,
     PlanSound, Zenon
     DEF PlanG431
<1> QED BY <1>14

-----------------------------------------------------------------------------
(* The run of a plan. *)

LEMMA PlansSound ==
  ASSUME chip \in ChipNames
  PROVE  (\E on : Sound(Steps, {}, {}, on, {"adc", "uart"})) /\ Ends(Steps)
<1>1. CASE chip = "F051"
  BY <1>1, SoundF051 DEF Steps, Plan
<1>2. CASE chip = "G071"
  BY <1>2, SoundG071 DEF Steps, Plan
<1>3. CASE chip = "L431"
  BY <1>3, SoundL431 DEF Steps, Plan
<1>4. CASE chip = "G431"
  BY <1>4, SoundG431 DEF Steps, Plan
<1> QED BY <1>1, <1>2, <1>3, <1>4 DEF ChipNames

(* What a plan says of each of its steps. *)
OnAt(n)     == OnBefore(Steps, {}, n)
WaitedAt(n) == WaitedBefore(Steps, {}, n)

LEMMA StepOfPlan ==
  ASSUME chip \in ChipNames
  PROVE  /\ Len(Steps) \in Nat /\ Len(Steps) > 0
         /\ Steps[Len(Steps)].part = "capture"
         /\ \A n \in 1 .. Len(Steps) :
              Fine(Steps[n], OnAt(n), WaitedAt(n)) /\ Steps[n] \in Range(Steps)
         /\ \A s \in Range(Steps) : \E n \in 1 .. Len(Steps) : s = Steps[n]
<1>1. PICK on : Sound(Steps, {}, {}, on, {"adc", "uart"})
  BY PlansSound
<1>2. PICK S : Steps \in Seq(S)
  BY <1>1 DEF Sound
<1> DEFINE steps == Steps
<1>3. steps \in Seq(S)
  BY <1>2
<1>4. \A n \in 1 .. Len(steps) : Fine(steps[n], OnAt(n), WaitedAt(n))
  BY <1>1, Zenon DEF Sound, OnAt, WaitedAt
<1>5. Len(steps) > 0 /\ steps[Len(steps)].part = "capture"
  BY PlansSound DEF Ends
<1> HIDE DEF steps
<1>6. Len(steps) \in Nat /\ \A n \in 1 .. Len(steps) : steps[n] \in Range(steps)
  BY <1>3 DEF Range
<1>7. \A s \in Range(steps) : \E n \in 1 .. Len(steps) : s = steps[n]
  BY <1>3 DEF Range
<1> QED BY <1>4, <1>5, <1>6, <1>7 DEF steps

LEMMA LeastNumber ==
  ASSUME NEW S \in SUBSET Nat, S # {}
  PROVE  \E n \in S : \A m \in S : n <= m
<1> DEFINE R == OpToRel(<, Nat)
<1>1. R = {ss \in Nat \X Nat : ss[1] < ss[2]}
  BY DEF OpToRel
<1>2. IsWellFoundedOn(R, Nat)
  BY NatLessThanWellFounded DEF R
<1> HIDE DEF R
<1>3. PICK x \in S : \A y \in S : ~(<<y, x>> \in R)
  BY <1>2, WFMin, Zenon
<1>4. \A y \in S : x <= y
  <2> SUFFICES ASSUME NEW y \in S, y < x PROVE FALSE
    OBVIOUS
  <2>1. <<y, x>> \in {ss \in Nat \X Nat : ss[1] < ss[2]}
    <3>1. y \in Nat /\ x \in Nat
      OBVIOUS
    <3> QED BY <3>1
  <2> QED BY <1>1, <1>3, <2>1
<1> QED BY <1>3, <1>4

(* Where the code goes on when a part gives up is further on and of another part,    *)
(* and what it skips is of this one.                                          *)
LEMMA GoesOn ==
  ASSUME chip \in ChipNames, at \in 1 .. Len(Steps), Step.wait = "bounded"
  PROVE  /\ AfterPart \in at .. Len(Steps)
         /\ \A k \in at .. AfterPart - 1 : Steps[k].part = Step.part
<1>1. /\ Len(Steps) \in Nat /\ Len(Steps) > 0
      /\ Steps[Len(Steps)].part = "capture"
      /\ Fine(Step, OnAt(at), WaitedAt(at))
  BY StepOfPlan DEF Step
<1>2. Step.part # "capture"
  BY <1>1 DEF Fine, Placed
<1> DEFINE Others == {n \in at .. Len(Steps) : Steps[n].part # Step.part}
<1>3. Len(Steps) \in Others /\ Others \in SUBSET Nat
  BY <1>1, <1>2
<1>4. PICK n \in Others : \A m \in Others : n <= m
  BY <1>3, LeastNumber, Zenon
<1>5. \A k \in at .. n - 1 : Steps[k].part = Step.part
  <2> SUFFICES ASSUME NEW k \in at .. n - 1, Steps[k].part # Step.part
               PROVE  FALSE
    OBVIOUS
  <2>1. k \in at .. Len(Steps) /\ ~(n <= k)
    BY <1>1
  <2> QED BY <1>4, <2>1
<1>6. \E m \in at .. Len(Steps) :
         /\ Steps[m].part # Step.part
         /\ \A k \in at .. m - 1 : Steps[k].part = Step.part
  BY <1>5
<1> QED BY <1>6, Zenon DEF AfterPart

(* All clocks of the steps so far are on, the skipped ones having none; pins have the  *)
(* mode and channels the owner that the plan gives them; and what the handlers need    *)
(* is on when they can run.                                                     *)
ClocksSoFar == \A n \in 1 .. at - 1 : Steps[n].gates \subseteq gates

ModesSoFar == \A c \in claims : c[2] \in Retaken[chip] \/ c[3] = ModeOf(c[2])

HandlersClocked == unmasked # {} => HandlerGates[chip] \subseteq gates

BoardInv ==
  /\ BoardTypeOK
  /\ ClocksSoFar /\ ModesSoFar /\ granted \subseteq Owners[chip] /\ HandlersClocked

LEMMA OnByNow ==
  ASSUME ClocksSoFar
  PROVE  OnAt(at) \subseteq gates
BY DEF ClocksSoFar, OnAt, OnBefore

LEMMA BoardInitial == BoardInit => BoardInv
<1> SUFFICES ASSUME BoardInit PROVE BoardInv
  OBVIOUS
<1>1. chip \in ChipNames /\ at = 1
  BY DEF BoardInit
<1>2. Len(Steps) \in Nat /\ Len(Steps) > 0
  BY <1>1, StepOfPlan
<1>3. at \in 1 .. Len(Steps) + 1
  BY <1>1, <1>2
<1>4. {c[2] : c \in claims} = {} /\ 1 .. at - 1 = {}
  BY <1>1 DEF BoardInit
<1>5. BoardTypeOK
  BY <1>1, <1>3, <1>4, Zenon DEF BoardInit, BoardTypeOK
<1>6. ClocksSoFar
  BY <1>4 DEF ClocksSoFar
<1> QED BY <1>5, <1>6 DEF BoardInit, BoardInv, ModesSoFar, HandlersClocked

LEMMA PerformKeeps ==
  ASSUME BoardInv, ~Done, Perform
  PROVE  BoardInv'
<1>1. /\ chip \in ChipNames /\ at \in 1 .. Len(Steps) + 1
      /\ gates \subseteq UNION {s.gates : s \in Range(Steps)}
      /\ {c[2] : c \in claims} \subseteq UNION {s.pins : s \in Range(Steps)}
      /\ unmasked \subseteq ControlIrqs
      /\ failed \cup ready \subseteq {"adc", "uart"}
      /\ Len(Steps) \in Nat
  BY StepOfPlan DEF BoardInv, BoardTypeOK
<1>2. UNCHANGED chip /\ Steps' = Steps
  BY DEF Perform, Steps
<1>3. at \in 1 .. Len(Steps) /\ at' = at + 1
  BY <1>1 DEF Done, Perform
<1>4. Fine(Step, OnAt(at), WaitedAt(at)) /\ Step \in Range(Steps)
  BY <1>1, <1>3, StepOfPlan DEF Step
<1>5. OnAt(at) \subseteq gates
  BY OnByNow DEF BoardInv
<1>6. Placed(Step, OnAt(at))
  BY <1>4 DEF Fine
<1>7. BoardTypeOK'
  <2>1. at' \in 1 .. Len(Steps) + 1
    BY <1>1, <1>3
  <2>2. gates' \subseteq UNION {s.gates : s \in Range(Steps)}
    BY <1>1, <1>4 DEF Perform
  <2>3. {c[2] : c \in claims'} \subseteq UNION {s.pins : s \in Range(Steps)}
    <3>1. \A c \in claims' : c[2] \in {d[2] : d \in claims} \/ c[2] \in Step.pins
      BY DEF Perform
    <3> QED BY <1>1, <1>4, <3>1
  <2>4. unmasked' \subseteq ControlIrqs
    BY <1>1, <1>6 DEF Perform, Placed
  <2>5. failed' \cup ready' \subseteq {"adc", "uart"}
    BY <1>1, <1>6 DEF Perform, Placed
  <2> QED BY <1>1, <1>2, <2>1, <2>2, <2>3, <2>4, <2>5, Zenon DEF BoardTypeOK
<1>8. ClocksSoFar'
  <2>1. \A n \in 1 .. at' - 1 : n \in 1 .. at - 1 \/ n = at
    BY <1>3
  <2>2. gates' = gates \cup Steps[at].gates
    BY DEF Perform, Step
  <2>3. \A n \in 1 .. at - 1 : Steps[n].gates \subseteq gates
    BY DEF BoardInv, ClocksSoFar
  <2> QED BY <1>2, <2>1, <2>2, <2>3 DEF ClocksSoFar
<1>9. ModesSoFar'
  <2>1. \A p \in Step.pins : p \in Retaken[chip] \/ Step.mode = ModeOf(p)
    BY <1>6 DEF Placed
  <2>2. ASSUME NEW c \in claims'
        PROVE  c[2] \in Retaken[chip] \/ c[3] = ModeOf(c[2])
    <3>1. c \in claims \/ \E p \in Step.pins : c = <<Step.part, p, Step.mode>>
      BY DEF Perform
    <3>2. ASSUME NEW p \in Step.pins, c = <<Step.part, p, Step.mode>>
          PROVE  c[2] = p /\ c[3] = Step.mode
      BY <3>2
    <3> QED BY <2>1, <3>1, <3>2 DEF BoardInv, ModesSoFar
  <2> QED BY <1>2, <2>2 DEF ModesSoFar, ModeOf
<1>10. (granted \subseteq Owners[chip])'
  <2>1. \A n \in Step.channels : <<Step.part, n>> \in Owners[chip]
    BY <1>6 DEF Placed
  <2>2. granted' \subseteq Owners[chip]
    BY <2>1 DEF Perform, BoardInv
  <2> QED BY <1>2, <2>2
<1>11. HandlersClocked'
  <2>1. Step.irqs # {} => HandlerGates[chip] \subseteq gates
    BY <1>5, <1>6 DEF Placed
  <2> QED BY <1>2, <2>1 DEF HandlersClocked, BoardInv, Perform
<1> QED BY <1>7, <1>8, <1>9, <1>10, <1>11 DEF BoardInv

LEMMA GiveUpKeeps ==
  ASSUME BoardInv, GiveUp
  PROVE  BoardInv'
<1>1. /\ chip \in ChipNames /\ at \in 1 .. Len(Steps) + 1
      /\ gates \subseteq UNION {s.gates : s \in Range(Steps)}
      /\ {c[2] : c \in claims} \subseteq UNION {s.pins : s \in Range(Steps)}
      /\ unmasked \subseteq ControlIrqs
      /\ failed \cup ready \subseteq {"adc", "uart"}
      /\ Len(Steps) \in Nat
  BY StepOfPlan DEF BoardInv, BoardTypeOK
<1>2. UNCHANGED <<chip, gates, claims, granted, unmasked, ready>> /\ Steps' = Steps
  BY DEF GiveUp, Steps
<1>3. at \in 1 .. Len(Steps) /\ Step.wait = "bounded"
  BY <1>1 DEF GiveUp, Done
<1>4. at' \in at .. Len(Steps) /\ \A n \in at .. at' - 1 : Steps[n].part = Step.part
  BY <1>1, <1>3, GoesOn DEF GiveUp
<1>5. Fine(Step, OnAt(at), WaitedAt(at))
  BY <1>1, <1>3, StepOfPlan DEF Step
<1>6. BoardTypeOK'
  <2>1. at' \in 1 .. Len(Steps) + 1
    BY <1>1, <1>3, <1>4
  <2>2. failed' \cup ready' \subseteq {"adc", "uart"}
    BY <1>1, <1>3, <1>5 DEF GiveUp, Fine, Placed
  <2> QED BY <1>1, <1>2, <2>1, <2>2 DEF BoardTypeOK
<1> DEFINE next == at'
<1>a. /\ next \in Int /\ at \in Int /\ Len(Steps) \in Nat
      /\ 1 <= at /\ at <= next /\ next <= Len(Steps)
  BY <1>1, <1>3, <1>4
<1> HIDE DEF next
<1>b. /\ \A n \in at .. next - 1 : n \in 1 .. Len(Steps) /\ (n = at \/ at \in 1 .. n - 1)
      /\ \A n \in 1 .. next - 1 : n \in 1 .. at - 1 \/ n \in at .. next - 1
  BY <1>a
<1>7. ASSUME NEW n \in at .. at' - 1
      PROVE  Steps[n].gates = {}
  <2>1. n \in 1 .. Len(Steps) /\ (n = at \/ at \in 1 .. n - 1)
    BY <1>b DEF next
  <2>2. Fine(Steps[n], OnAt(n), WaitedAt(n))
    BY <1>1, <2>1, StepOfPlan
  <2>3. CASE n = at
    BY <1>3, <2>2, <2>3 DEF Fine, Step
  <2>4. CASE at \in 1 .. n - 1
    <3>1. Waits(Steps[at]) = {Step.part}
      BY <1>3 DEF Waits, Step
    <3>2. Step.part \in WaitedAt(n)
      BY <2>4, <3>1 DEF WaitedAt, WaitedBefore
    <3> QED BY <1>4, <2>2, <3>2 DEF Fine
  <2> QED BY <2>1, <2>3, <2>4
<1>8. ClocksSoFar'
  <2>1. \A n \in 1 .. at' - 1 : n \in 1 .. at - 1 \/ n \in at .. at' - 1
    BY <1>b DEF next
  <2>2. \A n \in 1 .. at - 1 : Steps[n].gates \subseteq gates
    BY DEF BoardInv, ClocksSoFar
  <2> QED BY <1>2, <1>7, <2>1, <2>2 DEF ClocksSoFar
<1> QED BY <1>2, <1>6, <1>8 DEF BoardInv, ModesSoFar, HandlersClocked, ModeOf

LEMMA BoardStep ==
  ASSUME BoardInv, [BoardNext]_<<chip, bringUpVars>>
  PROVE  BoardInv'
<1>1. CASE WriteRegisters
  BY <1>1, PerformKeeps DEF WriteRegisters
<1>2. CASE FlagComes
  BY <1>2, PerformKeeps DEF FlagComes
<1>3. CASE GiveUp
  BY <1>3, GiveUpKeeps
<1>4. CASE MainRuns \/ UNCHANGED <<chip, bringUpVars>>
  <2>1. /\ UNCHANGED <<chip, at, gates, claims, granted, unmasked, ready, failed>>
        /\ Steps' = Steps
    BY <1>4 DEF MainRuns, bringUpVars, Steps
  <2> QED BY <2>1 DEF BoardInv, BoardTypeOK, ClocksSoFar, ModesSoFar, HandlersClocked, ModeOf
<1> QED BY <1>1, <1>2, <1>3, <1>4 DEF BoardNext

LEMMA BoardHolds == BoardInit /\ [][BoardNext]_<<chip, bringUpVars>> => []BoardInv
BY BoardInitial, BoardStep, PTL

LEMMA OwnersApart ==
  ASSUME chip \in ChipNames, NEW x \in Owners[chip], NEW y \in Owners[chip], x[2] = y[2]
  PROVE  x[1] = y[1]
BY DEF ChipNames, Owners

LEMMA ClockedByNow ==
  ASSUME NEW blocks, NEW on, ClockedBy(blocks, on), on \subseteq gates
  PROVE  Clocked(blocks)
BY DEF ClockedBy, Clocked

LEMMA InvReady == BoardInv => PeripheralsReady
<1> SUFFICES ASSUME BoardInv PROVE PeripheralsReady
  OBVIOUS
<1>1. chip \in ChipNames /\ at \in 1 .. Len(Steps) + 1 /\ Len(Steps) \in Nat
  BY StepOfPlan DEF BoardInv, BoardTypeOK
<1>2. ASSUME ~Done
      PROVE  Placed(Step, OnAt(at))
  <2>1. at \in 1 .. Len(Steps)
    BY <1>1, <1>2 DEF Done
  <2> QED BY <1>1, <2>1, StepOfPlan DEF Step, Fine
<1>3. ~Done => Clocked(Step.blocks)
  <2>1. OnAt(at) \subseteq gates
    BY OnByNow DEF BoardInv
  <2> QED BY <1>2, <2>1, ClockedByNow DEF Placed, Reached
<1>4. ASSUME unmasked # {}
      PROVE  Clocked(HandlerBlocks)
  <2>1. HandlerGates[chip] \subseteq gates
    BY <1>4 DEF BoardInv, HandlersClocked
  <2>2. ASSUME NEW s \in Range(Steps), s.part \in HandlerParts
        PROVE  Clocked(s.blocks)
    <3>1. PICK n \in 1 .. Len(Steps) : s = Steps[n]
      BY <1>1, StepOfPlan
    <3>2. Fine(s, OnAt(n), WaitedAt(n))
      BY <1>1, <3>1, StepOfPlan
    <3>3. ClockedBy(s.blocks, HandlerGates[chip])
      BY <2>2, <3>2 DEF Fine, Placed, Reached
    <3> QED BY <2>1, <3>3, ClockedByNow
  <2>3. \A b \in HandlerBlocks :
          \E s \in Range(Steps) : s.part \in HandlerParts /\ b \in s.blocks
    BY DEF HandlerBlocks
  <2> QED BY <2>2, <2>3 DEF Clocked
<1>5. PinsKept
  <2>1. ASSUME ~Done, NEW c \in claims, c[2] \in Step.pins \ Retaken[chip]
        PROVE  c[3] = Step.mode
    BY <1>2, <2>1 DEF BoardInv, ModesSoFar, Placed
  <2> QED BY <2>1 DEF PinsKept
<1>6. ChannelsApart
  BY <1>1, OwnersApart DEF ChannelsApart, BoardInv
<1> QED BY <1>3, <1>4, <1>5, <1>6 DEF PeripheralsReady

(* On every chip, with pulse output or without, at every moment of the bring-up and     *)
(* whichever of ADC and UART gives up on the way: no block is written before its      *)
(* clock is on, and no interrupt of the control code unmasked before all that the     *)
(* handlers use is clocked, except for the blocks of LeftToReset, the comparators of  *)
(* L431 and G431 and the DMA multiplexer of G431, which the code never clocks; no     *)
(* pin is taken in another mode from the part that has it, except PA2 of F051         *)
(* (Retaken); and no DMA channel is shared                                           *)
(* (mcu_*/init.rs, comp_init.rs, adc.rs, telemetry_uart.rs, input_capture.rs).        *)
THEOREM BoardAlwaysReady == DeviceSpec => []BoardReady
<1>1. BoardInv => BoardReady
  BY InvReady DEF BoardReady
<1> QED BY <1>1, PartsRun, BoardHolds, PTL

-----------------------------------------------------------------------------
(***************************************************************************)
(* The types of the handlers on the stack, and with them of the whole device.   *)
(***************************************************************************)

LEMMA PrioritiesTyped ==
  ASSUME ExclusionInv
  PROVE  PrioritiesTypeOK
<1>1. priority \in [Interrupts -> 0 .. KeptSteps]
  <2>1. 0 \in 0 .. KeptSteps /\ 1 \in 0 .. KeptSteps
    BY PrioritiesAssumption
  <2> QED BY <2>1 DEF ExclusionInv, LevelsWritten, SecondLevel
<1>2. Len(active) \in 0 .. 2 /\ active \in [1 .. Len(active) -> Interrupts]
  <2>1. active \in Seq(Interrupts) /\ Len(active) <= 1
    BY DEF ExclusionInv, OneHandlerAtATime
  <2>2. Len(active) \in Nat /\ active \in [1 .. Len(active) -> Interrupts]
    BY <2>1, LenProperties
  <2>3. \A n \in Nat : n <= 1 => n \in 0 .. 2
    BY SMT
  <2> QED BY <2>1, <2>2, <2>3
<1> QED BY <1>1, <1>2, Zenon DEF ExclusionInv, PrioritiesTypeOK

WordInRange == word \in 0 .. LastWord
BenchChosen == bench \in Benches

LEMMA WordHolds == CodecInit /\ [][NextWord]_word => []WordInRange
<1>0. LastWord \in Nat
  BY CodecAssumption
<1>1. CodecInit => WordInRange
  BY <1>0 DEF CodecInit, WordInRange
<1>2. WordInRange /\ [NextWord]_word => WordInRange'
  <2>1. \A n \in 0 .. LastWord : (n + 1) % (LastWord + 1) \in 0 .. LastWord
    BY <1>0
  <2> QED BY <2>1, Zenon DEF NextWord, WordInRange
<1> QED BY <1>1, <1>2, PTL

LEMMA BenchHolds == DeviceSpec => []BenchChosen
<1>1. DeviceInit => BenchChosen
  BY PartsBegin DEF BenchChosen
<1>2. BenchChosen /\ [DeviceNext]_deviceVars => BenchChosen'
  BY BenchStays DEF BenchChosen
<1> QED BY <1>1, <1>2, PTL DEF DeviceSpec

(* Type correctness of the device: of the stick's thresholds and the windows of      *)
(* frames, of the counts of the channel and the edges it waits for, of the           *)
(* registers of bridge and comparator, and of a bring-up that always has a step to    *)
(* go on with when a part gives up (transfer.rs, servo.rs, capture_generic.rs,       *)
(* phase.rs, comparator.rs, mcu_*/init.rs).                                      *)
THEOREM DeviceTypeCorrect == DeviceSpec => []DeviceTypeOK
<1>1. /\ CaptureInv => CaptureTypeOK
      /\ ChannelInv => ReceiverTypeOK
      /\ WatchInv => ComparatorTypeOK
      /\ BoardInv => BoardTypeOK
  BY DEF CaptureInv, ChannelInv, WatchInv, BoardInv
<1>2. ExclusionInv => PrioritiesTypeOK
  BY PrioritiesTyped
<1>3. ( /\ BenchChosen /\ LinkTypeOK /\ CaptureTypeOK /\ RepliesTypeOK
        /\ PrioritiesTypeOK /\ BoardTypeOK /\ ReceiverTypeOK /\ BridgeTypeOK
        /\ ComparatorTypeOK /\ WordInRange )
      => DeviceTypeOK
  BY Zenon DEF DeviceTypeOK, BenchChosen, WordInRange
<1> QED
  BY <1>1, <1>2, <1>3, BenchHolds, PartsRun, LinkTypesHold, CaptureHolds,
     RepliesTypesHold, ExclusionHolds, BoardHolds, ChannelHolds, BridgeTypesHold,
     WatchHolds, WordHolds, PTL

=============================================================================
