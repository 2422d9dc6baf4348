------------------------------ MODULE EscProofs ------------------------------
(***************************************************************************)
(* Proofs about Esc, for every value of its constants: type correctness,    *)
(* the safety invariants that the runs check on small instances, and that   *)
(* every behaviour keeps the safety part of MotorLifecycle.                 *)
(***************************************************************************)
EXTENDS Esc, TLAPS

(* A transition of the motor mode yields a motor mode. *)
LEMMA TransitionType ==
  ASSUME NEW m \in Modes, NEW event
  PROVE  Transition(m, event) \in Modes
BY DEF Transition, Modes

(* A counter that saturates stays in its range. *)
LEMMA SaturatingType ==
  ASSUME NEW cap \in Nat, NEW n \in 0 .. cap
  PROVE  Saturating(n, cap) \in 0 .. cap
BY DEF Saturating

(* The tick moves the motor mode within Modes, and the count of ticks that  *)
(* precede arming stays within its limit unless the motor arms.             *)
LEMMA TickTypes ==
  ASSUME TypeOK
  PROVE  /\ ModeAfterTick \in Modes
         /\ ~Arms /\ ~IsArmed(mode) => ArmCount \in 0 .. ArmingTicks
<1>1. ModeAfterTick \in Modes
  BY TransitionType DEF TypeOK, ModeAfterTick
<1>2. ~Arms /\ ~IsArmed(mode) => ArmCount \in 0 .. ArmingTicks
  BY TimeAssumption DEF TypeOK, Arms, ArmCount
<1>. QED
  BY <1>1, <1>2

-----------------------------------------------------------------------------
(* Every variable keeps its type: the u16 counters their width, and every   *)
(* counter the cap that shared_state.rs gives it.                           *)
THEOREM TypeCorrect == Spec => []TypeOK
<1>1. Init => TypeOK
  <2>. SUFFICES ASSUME Init PROVE TypeOK
    OBVIOUS
  <2>1. /\ inputSet \in BOOLEAN
        /\ fast \in BOOLEAN
        /\ propBrake \in BOOLEAN
        /\ zcFound \in BOOLEAN
        /\ edtOn \in BOOLEAN
        /\ edtArmed \in BOOLEAN
        /\ compIrq \in BOOLEAN
        /\ comTimer \in BOOLEAN
        /\ lvCutoff \in BOOLEAN
        /\ cells \in BOOLEAN
        /\ lastArmed \in BOOLEAN
        /\ brake \in BOOLEAN
        /\ link \in BOOLEAN
        /\ free \in BOOLEAN
    BY FlagsAssumption DEF Init
  <2>2. /\ mode \in Modes
        /\ newinput \in Inputs
        /\ adjusted \in Inputs
        /\ output \in {"off", "drive", "brake"}
        /\ pc \in Steps
        /\ raw \in Inputs
        /\ timeout \in {TimeoutStrict, TimeoutLenient}
    BY DEF Init, Modes, Inputs, Steps
  <2>3. /\ signalTimeout \in 0 .. SignalTimeoutMax
        /\ zc \in 0 .. ZcCap
        /\ published \in 0 .. IntervalMax
        /\ armedTimeout \in 0 .. ArmingTicks
        /\ interval \in 0 .. IntervalMax
        /\ zcRead \in 0 .. ZcCap
        /\ happened \in 0 .. Latched
        /\ lvCount \in 0 .. LvcModulus - 1
    BY TimeAssumption, ZeroCrossAssumption, LatchAssumption, LvcAssumption
    DEF Init
  <2>. QED
    BY <2>1, <2>2, <2>3 DEF TypeOK
<1>2. TypeOK /\ [Next]_vars => TypeOK'
  <2>. SUFFICES ASSUME TypeOK, [Next]_vars PROVE TypeOK'
    OBVIOUS
  <2>1. CASE MainLoop
    <3>. USE <2>1 DEF TypeOK, vars, shared, isr, main, env, rotor, lvc, Goto,
                      Steps
    <3>1. CASE ReadInput \/ PublishInput \/ PublishBrake \/ Observe
      BY <3>1 DEF ReadInput, PublishInput, PublishBrake, Observe, Inputs
    <3>2. CASE LatchFault
      <4>1. brake' \in BOOLEAN
        BY <3>2 DEF LatchFault
      <4>. QED
        BY <3>2, <4>1, LatchAssumption DEF LatchFault, Inputs
    <3>3. CASE SetBrake
      <4>1. brake' \in BOOLEAN
        BY <3>3 DEF SetBrake
      <4>2. /\ pc' \in Steps
            /\ UNCHANGED <<shared, isr, raw, zcRead, happened, timeout, lvc,
                           env>>
        BY <3>3 DEF SetBrake
      <4>. QED
        BY <4>1, <4>2
    <3>4. CASE ClearStalls
      BY <3>4, LatchAssumption, ZeroCrossAssumption DEF ClearStalls
    <3>5. CASE SuspectStall \/ StallRetry
      BY <3>5 DEF SuspectStall, StallRetry
    <3>6. CASE StallSlow
      <4>1. fast' \in BOOLEAN
        BY <3>6 DEF StallSlow
      <4>. QED
        BY <3>6, <4>1 DEF StallSlow
    <3>7. CASE NoStall
      BY <3>7 DEF NoStall, TimeoutFor, Inputs
    <3>8. CASE CountStall
      BY <3>8, SaturatingType, LatchAssumption DEF CountStall
    <3>9. CASE StallFallback
      BY <3>9 DEF StallFallback, SetOldRoutine, Modes
    <3>10. CASE StallStop \/ SignalDisarm \/ LvcDisarm
      BY <3>10, TransitionType DEF StallStop, SignalDisarm, LvcDisarm
    <3>11. CASE StallZero
      BY <3>11, ZeroCrossAssumption DEF StallZero, TimeoutFor, Inputs
    <3>12. CASE CheckSignal \/ CheckArmed \/ SkipVoltage
      BY <3>12 DEF CheckSignal, CheckArmed, SkipVoltage
    <3>13. CASE ForgetInput
      <4>1. inputSet' \in BOOLEAN
        BY <3>13 DEF ForgetInput
      <4>. QED
        BY <3>13, <4>1 DEF ForgetInput
    <3>14. ASSUME NEW low \in BOOLEAN, CheckVoltage(low) PROVE TypeOK'
      <4>1. lvCount' \in 0 .. LvcModulus - 1
        BY <3>14, LvcAssumption DEF CheckVoltage, LvCountAfter
      <4>2. lvCutoff' \in BOOLEAN
        BY <3>14 DEF CheckVoltage
      <4>3. pc' \in Steps
        BY <3>14 DEF CheckVoltage
      <4>. QED
        BY <3>14, <4>1, <4>2, <4>3 DEF CheckVoltage
    <3>15. ASSUME NEW found \in BOOLEAN, CountCells(found) PROVE TypeOK'
      BY <3>15 DEF CountCells, IsArmed
    <3>. QED
      BY <2>1, <3>1, <3>2, <3>3, <3>4, <3>5, <3>6, <3>7, <3>8, <3>9, <3>10,
         <3>11, <3>12, <3>13, <3>14, <3>15 DEF MainLoop
  <2>2. ASSUME NEW detected \in BOOLEAN, Tick(detected) PROVE TypeOK'
    <3>1. /\ mode' \in Modes
          /\ armedTimeout' \in 0 .. ArmingTicks
      BY <2>2, TickTypes, TimeAssumption DEF Tick, TypeOK
    <3>2. /\ signalTimeout' \in 0 .. SignalTimeoutMax
          /\ interval' \in 0 .. IntervalMax
          /\ zc' \in 0 .. ZcCap
          /\ published' \in 0 .. IntervalMax
      BY <2>2, SaturatingType, TimeAssumption, ZeroCrossAssumption
      DEF Tick, TypeOK
    <3>3. /\ fast' \in BOOLEAN
          /\ zcFound' \in BOOLEAN
          /\ compIrq' \in BOOLEAN
          /\ comTimer' \in BOOLEAN
          /\ output' \in {"off", "drive", "brake"}
      BY <2>2 DEF Tick, TypeOK, OutputFor
    <3>. QED
      BY <2>2, <3>1, <3>2, <3>3 DEF Tick, TypeOK, main, env
  <2>3. CASE TimerExpired
    <3>1. zc' \in 0 .. ZcCap
      BY <2>3, SaturatingType, ZeroCrossAssumption DEF TimerExpired, TypeOK
    <3>2. mode' \in Modes
      BY <2>3, TransitionType DEF TimerExpired, TypeOK
    <3>3. /\ comTimer' \in BOOLEAN
          /\ compIrq' \in BOOLEAN
          /\ zcFound' \in BOOLEAN
          /\ fast' \in BOOLEAN
      BY <2>3 DEF TimerExpired, TypeOK
    <3>. QED
      BY <2>3, <3>1, <3>2, <3>3 DEF TimerExpired, TypeOK, main, env
  <2>4. CASE ZeroCross
    <3>1. /\ comTimer' \in BOOLEAN
          /\ compIrq' \in BOOLEAN
      BY <2>4 DEF ZeroCross
    <3>. QED
      BY <2>4, <3>1, TimeAssumption DEF ZeroCross, TypeOK, shared, main, env
  <2>5. CASE Frame
    <3>. USE TimeAssumption DEF TypeOK, isr, main, env, rotor
    <3>1. CASE InputDetected \/ ServoCalibrating
      <4>1. inputSet' \in BOOLEAN
        BY <3>1 DEF InputDetected, ServoCalibrating
      <4>. QED
        BY <3>1, <4>1 DEF InputDetected, ServoCalibrating
    <3>2. ASSUME NEW value \in Throttles,
                 DshotThrottle(value) \/ ServoThrottle(value)
          PROVE  TypeOK'
      BY <3>2 DEF DshotThrottle, ServoThrottle, Inputs
    <3>3. ASSUME NEW effect \in {"none", "EDT_ENABLE", "EDT_DISABLE"},
                 DshotCommand(effect)
          PROVE  TypeOK'
      <4>1. /\ edtArmed' \in BOOLEAN
            /\ edtOn' \in BOOLEAN
        BY <3>3 DEF DshotCommand
      <4>2. /\ newinput' \in Inputs
            /\ signalTimeout' \in 0 .. SignalTimeoutMax
            /\ UNCHANGED <<mode, inputSet, adjusted, rotor, propBrake,
                           armedTimeout, zcFound, interval, compIrq, comTimer,
                           output, main, env>>
        BY <3>3 DEF DshotCommand, Inputs
      <4>. QED
        BY <4>1, <4>2
    <3>. QED
      BY <2>5, <3>1, <3>2, <3>3 DEF Frame
  <2>6. CASE LinkDrops \/ RotorSeizes
    <3>1. link' \in BOOLEAN /\ free' \in BOOLEAN
      BY <2>6 DEF LinkDrops, RotorSeizes, TypeOK
    <3>. QED
      BY <2>6, <3>1 DEF LinkDrops, RotorSeizes, TypeOK, shared, isr, main
  <2>7. CASE UNCHANGED vars
    BY <2>7 DEF TypeOK, vars, shared, isr, main, env, rotor, lvc
  <2>. QED
    BY <2>1, <2>2, <2>3, <2>4, <2>5, <2>6, <2>7 DEF Next
<1>. QED
  BY <1>1, <1>2, PTL DEF Spec

-----------------------------------------------------------------------------
(* The commutation never runs dry: an interrupt-driven motor has its next   *)
(* step under way, and a consumed zero-cross has the timer running.  The    *)
(* invariant is inductive as it stands, given the types.                    *)
THEOREM CommutationCorrect == Spec => []CommutationUnderWay
<1>1. Init => CommutationUnderWay
  BY DEF Init, CommutationUnderWay
<1>2. TypeOK /\ CommutationUnderWay /\ [Next]_vars => CommutationUnderWay'
  <2>. SUFFICES ASSUME TypeOK, CommutationUnderWay, [Next]_vars
                PROVE  CommutationUnderWay'
    OBVIOUS
  <2>1. ASSUME UNCHANGED <<compIrq, comTimer, zcFound>>,
               mode' = mode \/ mode' # "Running"
        PROVE  CommutationUnderWay'
    BY <2>1 DEF CommutationUnderWay
  <2>2. CASE MainLoop
    <3>1. UNCHANGED isr
      BY <2>2 DEF MainLoop, ReadInput, PublishInput, LatchFault, SetBrake,
         PublishBrake, Observe, ClearStalls, SuspectStall, NoStall, CountStall,
         StallFallback, StallStop, StallRetry, StallSlow, StallZero,
         CheckSignal, CheckArmed, SignalDisarm, ForgetInput, CheckVoltage,
         LvcDisarm, CountCells, SkipVoltage, shared
    <3>2. mode' = mode \/ mode' # "Running"
      BY <2>2 DEF MainLoop, ReadInput, PublishInput, LatchFault, SetBrake,
         PublishBrake, Observe, ClearStalls, SuspectStall, NoStall, CountStall,
         StallFallback, StallStop, StallRetry, StallSlow, StallZero,
         CheckSignal, CheckArmed, SignalDisarm, ForgetInput, CheckVoltage,
         LvcDisarm, CountCells, SkipVoltage, shared, SetOldRoutine, Transition,
         IsRunning
    <3>. QED
      BY <2>1, <3>1, <3>2 DEF isr
  <2>3. ASSUME NEW detected \in BOOLEAN, Tick(detected)
        PROVE  CommutationUnderWay'
    <3>1. mode' = "Running" => mode = "Running" /\ ~Polls
      BY <2>3 DEF Tick, ModeAfterTick, Polls, Starts, Arms, Transition,
                  IsArmed, IsRunning, IsOldRoutine
    <3>2. comTimer => comTimer'
      BY <2>3 DEF Tick
    <3>3. ~Polls => compIrq' = compIrq
      BY <2>3 DEF Tick, TypeOK
    <3>4. zcFound' => comTimer'
      BY <2>3 DEF Tick, CommutationUnderWay
    <3>. QED
      BY <3>1, <3>2, <3>3, <3>4 DEF CommutationUnderWay
  <2>4. CASE TimerExpired
    BY <2>4 DEF TimerExpired, CommutationUnderWay
  <2>5. CASE ZeroCross
    BY <2>5 DEF ZeroCross, CommutationUnderWay
  <2>6. CASE Frame
    <3>1. UNCHANGED <<mode, compIrq, comTimer, zcFound>>
      BY <2>6 DEF Frame, InputDetected, DshotThrottle, DshotCommand,
                  ServoThrottle, ServoCalibrating, isr
    <3>. QED
      BY <2>1, <3>1
  <2>7. CASE LinkDrops \/ RotorSeizes \/ UNCHANGED vars
    <3>1. UNCHANGED <<mode, compIrq, comTimer, zcFound>>
      BY <2>7 DEF LinkDrops, RotorSeizes, vars, shared, isr
    <3>. QED
      BY <2>1, <3>1
  <2>. QED
    BY <2>2, <2>3, <2>4, <2>5, <2>6, <2>7 DEF Next
<1>. QED
  BY <1>1, <1>2, TypeCorrect, PTL DEF Spec

-----------------------------------------------------------------------------
(***************************************************************************)
(* The latch of a stuck rotor.  LatchHoldsInput is not inductive: a count   *)
(* of stalls must not creep up to Latched, and process_input must find the  *)
(* count above its limit whenever it is Latched.  Between the latch and the *)
(* next stall the count is at most the lenient limit, one stall adds one,   *)
(* and BEMF_FAULT_LATCHED lies beyond (LatchAssumption).                    *)
(***************************************************************************)
Counted == {"publish_brake", "observe", "clear", "stall", "stall_running"}

StallsBounded ==
  \/ happened = Latched
  \/ happened <= TimeoutLenient
  \/ pc \notin Counted /\ happened = TimeoutLenient + 1

LatchInv == StuckRotorProtection => StallsBounded /\ LatchHoldsInput

(* Stalls alone never latch the fault, only process_input does: no stall    *)
(* makes the count of a protected motor BEMF_FAULT_LATCHED.                 *)
LEMMA OneMoreStall ==
  ASSUME TypeOK, StallsBounded, CountStall
  PROVE  /\ StallsBounded'
         /\ happened' = Latched => happened = Latched
BY LatchAssumption
DEF TypeOK, StallsBounded, CountStall, Counted, Saturating, Goto

(* Once latched, the input is zero from one pass of process_input to the    *)
(* next, whatever the stick and the interrupts do.                          *)
THEOREM LatchCorrect == Spec => []LatchHoldsInput
<1>1. Init => LatchInv
  BY LatchAssumption DEF Init, LatchInv, StallsBounded, LatchHoldsInput
<1>2. TypeOK /\ LatchInv /\ [Next]_vars => LatchInv'
  <2>. SUFFICES ASSUME TypeOK, LatchInv, [Next]_vars, StuckRotorProtection
                PROVE  StallsBounded' /\ LatchHoldsInput'
    BY DEF LatchInv
  <2>1. StallsBounded /\ LatchHoldsInput
    BY DEF LatchInv
  <2>2. ASSUME UNCHANGED <<happened, pc, adjusted>>
        PROVE  StallsBounded' /\ LatchHoldsInput'
    BY <2>1, <2>2 DEF StallsBounded, LatchHoldsInput
  <2>3. CASE MainLoop
    <3>. USE DEF StallsBounded, LatchHoldsInput, Counted, Goto
    <3>1. CASE PublishInput
      BY <2>1, <3>1 DEF PublishInput
    <3>2. CASE LatchFault
      BY <3>2 DEF LatchFault
    <3>3. CASE SetBrake
      <4>1. happened <= timeout /\ happened # Latched
        BY <3>3, LatchAssumption DEF SetBrake, StuckRotor, TypeOK
      <4>2. happened' <= TimeoutLenient /\ happened' # Latched
        BY <3>3, <4>1, LatchAssumption DEF SetBrake, TypeOK
      <4>. QED
        BY <4>2
    <3>4. CASE ClearStalls
      <4>1. /\ pc = "clear"
            /\ happened' \in {0, happened}
            /\ adjusted' = adjusted
        BY <3>4 DEF ClearStalls, shared
      <4>. QED
        BY <2>1, <4>1, LatchAssumption
    <3>5. CASE CountStall
      <4>1. /\ pc = "stall_running"
            /\ adjusted' = adjusted
        BY <3>5 DEF CountStall, shared
      <4>. QED
        BY <2>1, <3>5, <4>1, OneMoreStall
    <3>6. ASSUME UNCHANGED <<happened, adjusted>>,
                 pc # "latch",
                 pc' \in Counted => pc \in Counted
          PROVE  StallsBounded' /\ LatchHoldsInput'
      BY <2>1, <3>6
    <3>7. CASE \/ ReadInput \/ PublishBrake \/ Observe \/ SuspectStall
               \/ NoStall \/ StallFallback \/ StallStop \/ StallRetry
               \/ StallSlow \/ StallZero
      <4>1. /\ UNCHANGED <<happened, adjusted>>
            /\ pc # "latch"
            /\ pc' \in Counted => pc \in Counted
        BY <3>7 DEF ReadInput, PublishBrake, Observe, SuspectStall, NoStall,
           StallFallback, StallStop, StallRetry, StallSlow, StallZero, shared
      <4>. QED
        BY <3>6, <4>1
    <3>8. CASE \/ CheckSignal \/ CheckArmed \/ SignalDisarm \/ ForgetInput
               \/ \E low \in BOOLEAN : CheckVoltage(low)
               \/ LvcDisarm
               \/ \E found \in BOOLEAN : CountCells(found)
               \/ SkipVoltage
      <4>1. /\ UNCHANGED <<happened, adjusted>>
            /\ pc # "latch"
            /\ pc' \in Counted => pc \in Counted
        BY <3>8 DEF CheckSignal, CheckArmed, SignalDisarm, ForgetInput,
           CheckVoltage, LvcDisarm, CountCells, SkipVoltage, shared
      <4>. QED
        BY <3>6, <4>1
    <3>. QED
      BY <2>3, <3>1, <3>2, <3>3, <3>4, <3>5, <3>7, <3>8 DEF MainLoop
  <2>4. ASSUME NEW detected \in BOOLEAN, Tick(detected)
        PROVE  StallsBounded' /\ LatchHoldsInput'
    BY <2>2, <2>4 DEF Tick, main
  <2>5. CASE TimerExpired \/ ZeroCross \/ Frame
    <3>1. UNCHANGED <<happened, pc, adjusted>>
      BY <2>5 DEF TimerExpired, ZeroCross, Frame, InputDetected, DshotThrottle,
         DshotCommand, ServoThrottle, ServoCalibrating, main, shared
    <3>. QED
      BY <2>2, <3>1
  <2>6. CASE LinkDrops \/ RotorSeizes \/ UNCHANGED vars
    <3>1. UNCHANGED <<happened, pc, adjusted>>
      BY <2>6 DEF LinkDrops, RotorSeizes, vars, main, shared
    <3>. QED
      BY <2>2, <3>1
  <2>. QED
    BY <2>3, <2>4, <2>5, <2>6 DEF Next
<1>3. LatchInv => LatchHoldsInput
  BY DEF LatchInv, LatchHoldsInput
<1>. QED
  BY <1>1, <1>2, <1>3, TypeCorrect, PTL DEF Spec

-----------------------------------------------------------------------------
(***************************************************************************)
(* The refinement.  Under the mapping phase <- mode, driven <- (output =    *)
(* "drive") every step of the controller is a step of MotorLifecycle or a   *)
(* stutter.  The lifecycle has no sinusoidal phase, so the mapping needs    *)
(* that the firmware never enters it.                                       *)
(***************************************************************************)
NoSine == mode # "StepperSine"

(* The bridge is touched by the control tick only. *)
LEMMA OnlyTickSwitches ==
  ASSUME TypeOK, MainLoop \/ TimerExpired \/ ZeroCross \/ Frame \/ LinkDrops
                   \/ RotorSeizes
  PROVE  output' = output
BY DEF MainLoop, ReadInput, PublishInput, LatchFault, SetBrake, PublishBrake,
   Observe, ClearStalls, SuspectStall, NoStall, CountStall, StallFallback,
   StallStop, StallRetry, StallSlow, StallZero, CheckSignal, CheckArmed,
   SignalDisarm, ForgetInput, CheckVoltage, LvcDisarm, CountCells, SkipVoltage,
   TimerExpired, ZeroCross, Frame, InputDetected, DshotThrottle, DshotCommand,
   ServoThrottle, ServoCalibrating, LinkDrops, RotorSeizes, isr

(* What the main loop does to the motor mode: fall back, stop or disarm.    *)
LEMMA MainLoopMode ==
  ASSUME MainLoop
  PROVE  mode' \in {mode, SetOldRoutine(mode), Transition(mode, "StopMotor"),
                    "Disarmed"}
BY DEF MainLoop, ReadInput, PublishInput, LatchFault, SetBrake, PublishBrake,
   Observe, ClearStalls, SuspectStall, NoStall, CountStall, StallFallback,
   StallStop, StallRetry, StallSlow, StallZero, CheckSignal, CheckArmed,
   SignalDisarm, ForgetInput, CheckVoltage, LvcDisarm, CountCells, SkipVoltage,
   Transition, shared

(* The timer only ever locks a polled motor; the comparator, the frames and *)
(* the environment leave the mode alone.                                    *)
LEMMA OtherMode ==
  ASSUME TimerExpired \/ ZeroCross \/ Frame \/ LinkDrops \/ RotorSeizes
  PROVE  \/ mode' = mode
         \/ mode = "OldRoutine" /\ mode' = "Running"
BY DEF TimerExpired, Locks, IsOldRoutine, Transition, ZeroCross, Frame,
   InputDetected, DshotThrottle, DshotCommand, ServoThrottle, ServoCalibrating,
   LinkDrops, RotorSeizes, shared

(* What the control tick does to the mode: it starts an armed motor, arms a *)
(* disarmed one, or leaves it.                                              *)
LEMMA TickMode ==
  ASSUME TypeOK, NoSine
  PROVE  \/ mode = "Armed" /\ ModeAfterTick = "OldRoutine"
         \/ mode = "Disarmed" /\ ModeAfterTick = "Armed"
         \/ ModeAfterTick = mode
BY DEF TypeOK, NoSine, Modes, ModeAfterTick, Starts, Arms, IsArmed, IsRunning,
       IsStepperSine, Transition

(* Sinusoidal startup is unreachable: nothing in the controller enters it.  *)
THEOREM SineUnreachable == Spec => []NoSine
<1>1. Init => NoSine
  BY DEF Init, NoSine
<1>2. TypeOK /\ NoSine /\ [Next]_vars => NoSine'
  <2>. SUFFICES ASSUME TypeOK, NoSine, [Next]_vars PROVE NoSine'
    OBVIOUS
  <2>1. CASE MainLoop
    BY <2>1, MainLoopMode DEF NoSine, SetOldRoutine, Transition, IsRunning
  <2>2. ASSUME NEW detected \in BOOLEAN, Tick(detected) PROVE NoSine'
    <3>1. mode' = ModeAfterTick
      BY <2>2 DEF Tick
    <3>. QED
      BY <3>1, TickMode DEF NoSine
  <2>3. CASE TimerExpired \/ ZeroCross \/ Frame \/ LinkDrops \/ RotorSeizes
    BY <2>3, OtherMode DEF NoSine
  <2>4. CASE UNCHANGED vars
    BY <2>4 DEF NoSine, vars, shared
  <2>. QED
    BY <2>1, <2>2, <2>3, <2>4 DEF Next
<1>. QED
  BY <1>1, <1>2, TypeCorrect, PTL DEF Spec

(* The controller keeps the safety contract of MotorLifecycle: power is     *)
(* applied by the step that starts an armed motor and no other, the motor   *)
(* locks and falls back only while it spins, and after a stop or a disarm   *)
(* the next control tick takes the power away.                              *)
THEOREM LifecycleKept == Spec => Lifecycle!Safety
<1>1. Init => Lifecycle!Init
  BY DEF Init, Lifecycle!Init
<1>2. TypeOK /\ NoSine /\ [Next]_vars => [Lifecycle!Next]_(Lifecycle!avars)
  <2>. DEFINE Stutter == /\ mode' = mode
                         /\ (output' = "drive") = (output = "drive")
  <2>. SUFFICES ASSUME TypeOK, NoSine, [Next]_vars
                PROVE  Lifecycle!Next \/ Stutter
    BY DEF Lifecycle!avars
  <2>1. CASE MainLoop
    <3>1. output' = output
      BY <2>1, OnlyTickSwitches
    <3>2. mode' \in {mode, SetOldRoutine(mode), Transition(mode, "StopMotor"),
                     "Disarmed"}
      BY <2>1, MainLoopMode
    <3>. QED
      BY <3>1, <3>2 DEF SetOldRoutine, Transition, IsRunning, Lifecycle!Next,
         Lifecycle!Fallback, Lifecycle!Stop, Lifecycle!Disarm, Lifecycle!Spins
  <2>2. ASSUME NEW detected \in BOOLEAN, Tick(detected)
        PROVE  Lifecycle!Next \/ Stutter
    <3>1. mode' = ModeAfterTick /\ output' = OutputFor(mode')
      BY <2>2 DEF Tick
    <3>2. (output' = "drive") <=> mode' \in {"OldRoutine", "Running"}
      BY <3>1 DEF OutputFor, IsArmed, IsRunning
    <3>. QED
      BY <3>1, <3>2, TickMode DEF Lifecycle!Next, Lifecycle!Start,
         Lifecycle!Arm, Lifecycle!Refresh, Lifecycle!Spins
  <2>3. CASE TimerExpired \/ ZeroCross \/ Frame \/ LinkDrops \/ RotorSeizes
    <3>1. output' = output
      BY <2>3, OnlyTickSwitches
    <3>. QED
      BY <2>3, <3>1, OtherMode DEF Lifecycle!Next, Lifecycle!Lock
  <2>4. CASE UNCHANGED vars
    BY <2>4 DEF vars, shared, isr
  <2>. QED
    BY <2>1, <2>2, <2>3, <2>4 DEF Next
<1>. QED
  BY <1>1, <1>2, TypeCorrect, SineUnreachable, PTL
  DEF Spec, Lifecycle!Safety

=============================================================================
