-------------------------------- MODULE Link --------------------------------
(***************************************************************************)
(* The signal path from the pilot to the throttle: the frame handler         *)
(* (handle_exti_frame, TransferState::process), the main loop that publishes *)
(* the throttle, and the tick that arms at zero throttle.                   *)
(*                                                                         *)
(* Servo pulses come with a stick that the pilot moves, DShot frames with a  *)
(* throttle and with a frame time that a disturbance changes.               *)
(***************************************************************************)
EXTENDS Transfer, Config

CONSTANTS
  Pulses,            \* widths of the servo pulse, in us
  LowBytes,          \* servo_low_threshold of the settings
  HighBytes,         \* servo_high_threshold
  DshotThrottles,    \* values of the DShot throttle
  SteadyTime,        \* ticks that a frame of this transmitter takes
  FrameTimes,        \* ticks that a frame may be measured to take
  MaxMoves,          \* bound: moves of the stick
  Lag,               \* bound: frames between two passes of the main loop
  LinkArmingTicks    \* ARMING_TIMEOUT_TICKS

(* The stick is up, as a pilot holds it for the high end. *)
HeldAbove == 1500

(* What a frame may be measured to take: a u16 of timer ticks. *)
Times == 0 .. 65535

ASSUME LinkAssumption ==
  /\ Pulses \subseteq Nat /\ DshotThrottles \subseteq 0 .. 2047
  /\ LowBytes \subseteq Byte /\ HighBytes \subseteq Byte
  /\ FrameTimes \subseteq Times /\ SteadyTime \in FrameTimes
  /\ MaxMoves \in Nat /\ LinkArmingTicks \in Nat
  /\ Lag \in Nat /\ (Lag + 1) * MaxDeviation < MinThrottle

VARIABLES
  protocol,       \* "servo" or "dshot", as detected
  stick,          \* what the pilot sends: a pulse or a throttle
  moves,          \* how often the stick moved
  transfer,       \* TransferState and the frame window
  disabled,       \* disable_stick_calibration of the settings
  edt_armed,      \* DShot throttle is accepted
  newinput,       \* shared: the throttle of the last frame
  adjusted_input, \* shared: as the main loop published it
  behind,         \* frames since the main loop published
  link_armed,     \* shared: armed
  link_arming,    \* armed_timeout_count
  strayed,        \* history: the stick left the high end while it was measured
  disturbed       \* history: a frame that was averaged was disturbed

linkVars == <<protocol, stick, moves, transfer, disabled, edt_armed, newinput,
              adjusted_input, behind, link_armed, link_arming, strayed,
              disturbed>>

Positions == IF protocol = "servo" THEN Pulses ELSE DshotThrottles

LinkTypeOK ==
  /\ protocol \in {"servo", "dshot"}
  /\ stick \in Positions
  /\ moves \in 0 .. MaxMoves
  /\ TransferTyped(transfer)
  /\ disabled \in BOOLEAN /\ edt_armed \in BOOLEAN
  /\ newinput \in 0 .. 2047 /\ adjusted_input \in 0 .. 2047
  /\ behind \in 0 .. Lag + 1
  /\ link_armed \in BOOLEAN
  /\ link_arming \in 0 .. LinkArmingTicks
  /\ strayed \in BOOLEAN /\ disturbed \in BOOLEAN

LinkInit ==
  /\ protocol \in {"servo", "dshot"}
  /\ stick \in Positions
  /\ moves = 0
  /\ \E c \in [servo_low_threshold : LowBytes, servo_high_threshold : HighBytes] :
       transfer = NewTransfer(ServoLow(c), ServoHigh(c))
  /\ disabled \in BOOLEAN
  /\ edt_armed = FALSE
  /\ newinput = 0
  /\ adjusted_input = 0
  /\ behind = 0
  /\ link_armed = FALSE
  /\ link_arming = 0
  /\ strayed = FALSE
  /\ disturbed = FALSE

-----------------------------------------------------------------------------
(* The pilot moves the stick. *)
MoveStick ==
  /\ moves < MaxMoves
  /\ moves' = moves + 1
  /\ stick' \in Positions \ {stick}
  /\ UNCHANGED <<protocol, transfer, disabled, edt_armed, newinput,
                 adjusted_input, behind, link_armed, link_arming, strayed,
                 disturbed>>

(* Mutant: calibration is entered whether or not the motor is armed. *)
HousekeepingArmed(t, time) == EntryChecked(t, adjusted_input, disabled)

(* The unarmed housekeeping that ends TransferState::process. *)
Housekeeping(t, time) ==
  IF link_armed THEN t
  ELSE EntryChecked(IF protocol = "dshot" THEN Averaged(t, time) ELSE t,
                    adjusted_input, disabled)

MeasuresHighEnd(t) ==
  t.servo.calibration_required /\ ~t.servo.high_calibration_set

(* A servo pulse that is out of range counts as no zero throttle; one that   *)
(* calibrates gives no throttle.                                            *)
ServoFrame ==
  LET s == transfer.servo
      t == IF ~PulseInRange(stick) THEN [transfer EXCEPT !.zero_input_count = 0]
           ELSE IF s.calibration_required
           THEN [transfer EXCEPT !.servo = Calibrate(s, stick)]
           ELSE transfer
  IN  /\ protocol = "servo"
      /\ transfer' = Housekeeping(t, 0)
      /\ newinput' = IF PulseInRange(stick) /\ ~s.calibration_required
                     THEN ServoThrottle(s, stick, newinput) ELSE newinput
      /\ strayed' = (strayed \/ (MeasuresHighEnd(transfer) /\ stick < HeldAbove))
      /\ UNCHANGED disturbed

(* A DShot frame outside the window gives nothing. *)
DshotFrame(time) ==
  /\ protocol = "dshot"
  /\ transfer' = Housekeeping(transfer, time)
  /\ newinput' = IF FrameInWindow(transfer, time) /\ (edt_armed \/ stick = 0)
                 THEN stick ELSE newinput
  /\ disturbed' = (disturbed \/
       (time # SteadyTime
         /\ transfer'.average_count # transfer.average_count))
  /\ UNCHANGED strayed

HearFrame ==
  /\ behind <= Lag
  /\ behind' = behind + 1
  /\ \/ ServoFrame
     \/ \E time \in FrameTimes : DshotFrame(time)
  /\ UNCHANGED <<protocol, stick, moves, disabled, edt_armed, adjusted_input,
                 link_armed, link_arming>>

(* The frames of the commands that make an armed motor accept throttle, the  *)
(* last of them: EDT_ENABLE when extended telemetry is already on.          *)
AcceptThrottle ==
  /\ protocol = "dshot" /\ link_armed /\ ~edt_armed
  /\ edt_armed' = TRUE
  /\ newinput' = 0
  /\ UNCHANGED <<protocol, stick, moves, transfer, disabled, adjusted_input,
                 behind, link_armed, link_arming, strayed, disturbed>>

(* process_input, for a stick that goes one way. *)
PublishThrottle ==
  /\ adjusted_input' = newinput
  /\ behind' = 0
  /\ UNCHANGED <<protocol, stick, moves, transfer, disabled, edt_armed,
                 newinput, link_armed, link_arming, strayed, disturbed>>

(* The arming part of ten_khz_tick. *)
ArmingTick ==
  /\ ~link_armed
  /\ LET count == IF adjusted_input = 0 THEN link_arming + 1 ELSE 0
     IN  /\ link_armed'  = (count > LinkArmingTicks)
         /\ link_arming' = IF count > LinkArmingTicks THEN 0 ELSE count
  /\ UNCHANGED <<protocol, stick, moves, transfer, disabled, edt_armed,
                 newinput, adjusted_input, behind, strayed, disturbed>>

(* The main loop disarms a motor whose signal was lost; the throttle of the  *)
(* last frame stays, and the same transmitter is detected again.            *)
LoseSignal ==
  /\ link_armed
  /\ link_armed' = FALSE
  /\ UNCHANGED <<protocol, stick, moves, transfer, disabled, edt_armed,
                 newinput, adjusted_input, behind, link_arming, strayed,
                 disturbed>>

LinkNext ==
  \/ MoveStick \/ HearFrame \/ AcceptThrottle \/ PublishThrottle
  \/ ArmingTick \/ LoseSignal

(* Frames keep coming, and the main loop keeps running. *)
LinkFairness == WF_linkVars(HearFrame) /\ WF_linkVars(PublishThrottle)

LinkSpec == LinkInit /\ [][LinkNext]_linkVars /\ LinkFairness

-----------------------------------------------------------------------------
(* An armed motor is never calibrated: its throttle would be dead for as     *)
(* long as that takes.  Calibration is entered by an unarmed motor, on a     *)
(* throttle the main loop published up to Lag frames ago, and arming needs   *)
(* zero throttle (transfer.rs:162-183, isr_logic.rs:66-76).                 *)
CalibratesOnlyUnarmed ==
  protocol = "servo" /\ link_armed => ~transfer.servo.calibration_required

(* A calibration during which the stick was up for the high end leaves the   *)
(* ends the right way round, so that more stick is more throttle             *)
(* (servo.rs:153-197).                                                      *)
SpanInOrder ==
  strayed \/ transfer.servo.low_threshold < transfer.servo.high_threshold

(* The frames of an undisturbed transmitter are admitted by the window that  *)
(* was averaged from them: a window too narrow is kept for good              *)
(* (transfer.rs:147-160, dshot.rs:52-56).                                   *)
WindowAdmitsSteady ==
  transfer.average_count = AverageFrames =>
     disturbed \/ FrameInWindow(transfer, SteadyTime)

(* A stick held near the high end that is configured calibrates it in the    *)
(* end, also after attempts that were abandoned: their pulse stays to be     *)
(* compared with, until the counter has gone round (servo.rs:155-165).      *)
HoldsHighEnd ==
  /\ protocol = "servo" /\ ~disabled /\ ~link_armed
  /\ AbsDif(stick, transfer.servo.high_threshold) <= 50
  /\ RawInput(transfer.servo, stick) > MinThrottle
HeldStickCalibrates ==
  <>[]HoldsHighEnd => <>transfer.servo.high_calibration_set

(* Calibration leaves a motor that can be controlled: it spares an armed one, and  *)
(* its ends are the right way round.                                        *)
CalibrationSafe == CalibratesOnlyUnarmed /\ SpanInOrder

=============================================================================
