-------------------------- MODULE DirectionProofs ---------------------------
(***************************************************************************)
(* Proofs about module Direction, for every set of sticks and every dead    *)
(* band: the throttle mappings stay in range, the brake cuts the throttle,  *)
(* and the published throttle is in the direction of the motor.             *)
(***************************************************************************)
EXTENDS Direction, TLAPS

-----------------------------------------------------------------------------
(* Arithmetic of the interpolation. *)

(* A factor that grows makes the product grow. *)
LEMMA ProductInRange ==
  ASSUME NEW a \in Nat, NEW s \in Nat, NEW d \in Nat, a <= s
  PROVE  a * d \in 0 .. s * d
<1>1. PICK k \in Nat : s = a + k
  <2>1. s - a \in Nat /\ s = a + (s - a)
    OBVIOUS
  <2> QED BY <2>1
<1>2. s * d = a * d + k * d
  BY <1>1, Z3
<1>3. a * d \in Nat /\ k * d \in Nat
  OBVIOUS
<1> QED BY <1>2, <1>3

(* A quotient is bounded by what the dividend is bounded by. *)
LEMMA QuotientInRange ==
  ASSUME NEW n \in Nat, NEW s \in Nat \ {0}, NEW d \in Nat, n <= s * d
  PROVE  n \div s \in 0 .. d
<1>1. n \div s \in Int /\ n = s * (n \div s) + (n % s) /\ n % s \in 0 .. s - 1
  BY Z3
<1>2. n \div s >= 0
  BY <1>1, Z3
<1>3. n \div s <= d
  BY <1>1, Z3
<1> QED BY <1>1, <1>2, <1>3

(* functions::map stays between the ends of an ascending output range. *)
LEMMA InterpolateUp ==
  ASSUME NEW x \in Int, NEW inMin \in Int, NEW inMax \in Int, inMin < inMax,
         NEW outMin \in Int, NEW outMax \in Int, outMin <= outMax
  PROVE  Interpolate(x, inMin, inMax, outMin, outMax) \in outMin .. outMax
<1> DEFINE clamped == IF x < inMin THEN inMin ELSE IF x > inMax THEN inMax ELSE x
           a       == clamped - inMin
           span    == inMax - inMin
           d       == outMax - outMin
<1>1. a \in Nat /\ span \in Nat \ {0} /\ d \in Nat /\ a <= span
  OBVIOUS
<1> HIDE DEF a, span, d
<1>2. a * d \in 0 .. span * d
  BY <1>1, ProductInRange
<1>3. (a * d) \div span \in 0 .. d
  BY <1>1, <1>2, QuotientInRange
<1>4. a * d >= 0
  BY <1>2
<1>5. Interpolate(x, inMin, inMax, outMin, outMax) = outMin + (a * d) \div span
  BY <1>4 DEF Interpolate, a, span, d
<1>6. outMin + d = outMax
  BY DEF d
<1> QED BY <1>1, <1>3, <1>5, <1>6

(* ... and of a descending one, where the code divides a negative number. *)
LEMMA InterpolateDown ==
  ASSUME NEW x \in Int, NEW inMin \in Int, NEW inMax \in Int, inMin < inMax,
         NEW outMin \in Int, NEW outMax \in Int, outMax <= outMin
  PROVE  Interpolate(x, inMin, inMax, outMin, outMax) \in outMax .. outMin
<1> DEFINE clamped == IF x < inMin THEN inMin ELSE IF x > inMax THEN inMax ELSE x
           a       == clamped - inMin
           span    == inMax - inMin
           d       == outMin - outMax
           scaled  == a * (outMax - outMin)
<1>1. a \in Nat /\ span \in Nat \ {0} /\ d \in Nat /\ a <= span
  OBVIOUS
<1>2. outMax - outMin = -d /\ outMin - d = outMax
  OBVIOUS
<1> HIDE DEF a, span, d
<1>3. a * d \in 0 .. span * d
  BY <1>1, ProductInRange
<1>4. (a * d) \div span \in 0 .. d
  BY <1>1, <1>3, QuotientInRange
<1>5. scaled = -(a * d)
  BY <1>1, <1>2, Z3
<1> HIDE DEF scaled
<1>6. Interpolate(x, inMin, inMax, outMin, outMax) =
        outMin + IF scaled >= 0 THEN scaled \div span
                                ELSE -((-scaled) \div span)
  BY DEF Interpolate, a, span, scaled
<1>7. CASE scaled >= 0
  <2>1. scaled = 0
    BY <1>3, <1>5, <1>7
  <2>2. 0 \div span = 0
    BY <1>1, Z3
  <2>3. Interpolate(x, inMin, inMax, outMin, outMax) = outMin
    BY <1>6, <1>7, <2>1, <2>2
  <2> QED BY <2>3
<1>8. CASE ~(scaled >= 0)
  <2>1. -scaled = a * d
    BY <1>3, <1>5
  <2> QED BY <1>1, <1>2, <1>4, <1>6, <1>8, <2>1
<1> QED BY <1>7, <1>8

(* Off the centre, either decoding yields a throttle the motor can have.    *)
LEMMA DshotInRange ==
  ASSUME NEW stick \in 0 .. DSHOT_MAX_THROTTLE, DshotHalf(stick) # "centre"
  PROVE  DshotAmount(stick) \in 0 .. DSHOT_MAX_THROTTLE
BY DEF DshotAmount, DshotHalf, DSHOT_BIDIR_BRAKE_LIMIT, BIDIR_MIDPOINT,
       THROTTLE_MIN_SIGNAL, DSHOT_MAX_THROTTLE

LEMMA ServoInRange ==
  ASSUME NEW stick \in 0 .. DSHOT_MAX_THROTTLE
  PROVE  ServoAmount(stick, DeadBand) \in 0 .. DSHOT_MAX_THROTTLE
<1> DEFINE above == SERVO_CENTER + 2 * DeadBand
           below == SERVO_CENTER - 2 * DeadBand
           least == 0
           most  == 2000
<1>1. /\ above \in Int /\ most \in Int /\ above < most
      /\ below \in Int /\ least \in Int /\ least < below
  BY StickAssumption DEF SERVO_CENTER
<1>2. /\ stick \in Int
      /\ THROTTLE_MIN_SIGNAL \in Int
      /\ DSHOT_MAX_THROTTLE \in Int
      /\ THROTTLE_MIN_SIGNAL <= DSHOT_MAX_THROTTLE
      /\ THROTTLE_MIN_SIGNAL .. DSHOT_MAX_THROTTLE
           \subseteq 0 .. DSHOT_MAX_THROTTLE
  <2>1. stick \in Int
    BY DEF DSHOT_MAX_THROTTLE
  <2>2. /\ THROTTLE_MIN_SIGNAL \in Int
        /\ DSHOT_MAX_THROTTLE \in Int
        /\ THROTTLE_MIN_SIGNAL <= DSHOT_MAX_THROTTLE
    BY DEF THROTTLE_MIN_SIGNAL, DSHOT_MAX_THROTTLE
  <2>3. \A n \in THROTTLE_MIN_SIGNAL .. DSHOT_MAX_THROTTLE : n \in 0 .. DSHOT_MAX_THROTTLE
    BY DEF THROTTLE_MIN_SIGNAL, DSHOT_MAX_THROTTLE
  <2> QED BY <2>1, <2>2, <2>3
<1>3. \/ ServoAmount(stick, DeadBand) =
           Interpolate(stick, above, most, THROTTLE_MIN_SIGNAL,
                       DSHOT_MAX_THROTTLE)
      \/ ServoAmount(stick, DeadBand) =
           Interpolate(stick, least, below, DSHOT_MAX_THROTTLE,
                       THROTTLE_MIN_SIGNAL)
  BY DEF ServoAmount
<1> HIDE DEF above, below, least, most
<1>4. Interpolate(stick, above, most, THROTTLE_MIN_SIGNAL, DSHOT_MAX_THROTTLE)
        \in THROTTLE_MIN_SIGNAL .. DSHOT_MAX_THROTTLE
  BY <1>1, <1>2, InterpolateUp
<1>5. Interpolate(stick, least, below, DSHOT_MAX_THROTTLE, THROTTLE_MIN_SIGNAL)
        \in THROTTLE_MIN_SIGNAL .. DSHOT_MAX_THROTTLE
  BY <1>1, <1>2, InterpolateDown
<1> QED BY <1>2, <1>3, <1>4, <1>5

(* The two policies yield a result in range when the amount is.             *)
LEMMA MappingResult ==
  ASSUME NEW half, NEW amount, NEW fwd \in BOOLEAN, NEW reversed \in BOOLEAN,
         NEW p \in BOOLEAN, NEW q \in BOOLEAN,
         half # "centre" => amount \in 0 .. DSHOT_MAX_THROTTLE
  PROVE  /\ SpeedGated(half, amount, fwd, reversed, p) \in Results
         /\ RcCar(half, amount, fwd, reversed, p, q) \in Results
BY DEF SpeedGated, RcCar, Results, Result, Nothing, DSHOT_MAX_THROTTLE

-----------------------------------------------------------------------------
(* Types. *)

(* The pass of process_input keeps the types.                               *)
LEMMA MainLoopTypes ==
  ASSUME TypeOK, MainLoop
  PROVE  TypeOK'
<1> USE DEF TypeOK, Goto, Steps, isr, shared
<1>1. CASE ReadMode
  BY <1>1 DEF ReadMode
<1>2. CASE ReadInput
  BY <1>2 DEF ReadInput
<1>3. CASE ReadForward
  BY <1>3 DEF ReadForward
<1>4. CASE ReadInterval
  BY <1>4 DEF ReadInterval
<1>5. CASE MapInput
  <2>1. raw \in 0 .. DSHOT_MAX_THROTTLE
    BY StickAssumption DEF Sticks, DSHOT_MAX_THROTTLE
  <2>2. StickHalf # "centre" => StickAmount \in 0 .. DSHOT_MAX_THROTTLE
    BY <2>1, DshotInRange, ServoInRange DEF StickHalf, StickAmount
  <2>3. (seenSlow /\ lowDuty) \in BOOLEAN /\ config.dirReversed \in BOOLEAN
    BY DEF Configs
  <2>4. result' \in Results
    <3>1. CASE config.rcCar
      <4>1. RcCar(StickHalf, StickAmount, seenForward, config.dirReversed,
                  brake, returnToCenter) \in Results
        BY <2>2, <2>3, MappingResult
      <4> QED BY <1>5, <3>1, <4>1 DEF MapInput
    <3>2. CASE ~config.rcCar
      <4>1. SpeedGated(StickHalf, StickAmount, seenForward, config.dirReversed,
                       seenSlow /\ lowDuty) \in Results
        BY <2>2, <2>3, MappingResult
      <4> QED BY <1>5, <3>2, <4>1 DEF MapInput
    <3> QED BY <3>1, <3>2
  <2>5. seenForward' \in BOOLEAN /\ seenSlow' \in BOOLEAN
    BY <1>5 DEF MapInput
  <2> QED BY <1>5, <2>4, <2>5 DEF MapInput
<1>6. CASE PublishInput
  BY <1>6 DEF PublishInput, Results
<1>7. CASE FlipRead
  BY <1>7 DEF FlipRead
<1>8. CASE Flip
  <2>1. forward' \in BOOLEAN /\ seenForward' \in BOOLEAN
    BY <1>8 DEF Flip
  <2> QED BY <1>8, <2>1 DEF Flip
<1>9. CASE Restart
  BY <1>9 DEF Restart, SetOldRoutine, Modes
<1>10. CASE PublishBrake
  <2>1. brake' \in BOOLEAN /\ returnToCenter' \in BOOLEAN /\ braked' \in BOOLEAN
    BY <1>10 DEF PublishBrake
  <2>2. propBrake' \in BOOLEAN
    BY <1>10, <2>1 DEF PublishBrake
  <2>3. result' \in Results
    BY <1>10 DEF PublishBrake, Nothing, Result, Results, DSHOT_MAX_THROTTLE
  <2>4. pc' \in Steps
    BY <1>10 DEF PublishBrake
  <2> QED BY <1>10, <2>1, <2>2, <2>3, <2>4 DEF PublishBrake
<1>11. ASSUME NEW outcome \in {"none", "fallback", "stop", "disarm"},
              FinishPass(outcome)
       PROVE  TypeOK'
  <2>1. mode' \in Modes
    BY <1>11 DEF FinishPass, SetOldRoutine, Transition, Modes
  <2>2. slow' \in BOOLEAN /\ asDshot' \in BOOLEAN
    BY <1>11 DEF FinishPass
  <2>3. inputSet' \in BOOLEAN /\ raw' \in Sticks
    BY <1>11 DEF FinishPass, Sticks
  <2> QED BY <1>11, <2>1, <2>2, <2>3 DEF FinishPass
<1> QED
  BY <1>1, <1>2, <1>3, <1>4, <1>5, <1>6, <1>7, <1>8, <1>9, <1>10, <1>11
     DEF MainLoop

(* So do the handlers.                                                      *)
LEMMA HandlerTypes ==
  ASSUME TypeOK, Next, ~MainLoop
  PROVE  TypeOK'
<1> USE DEF TypeOK, isr, shared, main
<1>1. ASSUME NEW arms \in BOOLEAN, Tick(arms)
      PROVE  TypeOK'
  <2>1. mode' \in Modes
    BY <1>1 DEF Tick, Transition, Modes
  <2>2. slow' \in BOOLEAN /\ lowDuty' \in BOOLEAN
    BY <1>1 DEF Tick
  <2>3. stepForward' \in BOOLEAN /\ forward' \in BOOLEAN
    BY <1>1 DEF Tick
  <2> QED BY <1>1, <2>1, <2>2, <2>3 DEF Tick
<1>2. ASSUME NEW locks \in BOOLEAN, TimerExpired(locks)
      PROVE  TypeOK'
  <2>1. mode' \in Modes
    BY <1>2 DEF TimerExpired, Transition, Modes
  <2>2. slow' \in BOOLEAN
    BY <1>2 DEF TimerExpired
  <2> QED BY <1>2, <2>1, <2>2 DEF TimerExpired
<1>3. CASE InputDetected
  <2>1. inputSet' \in BOOLEAN /\ dshot' \in BOOLEAN
    BY <1>3 DEF InputDetected
  <2> QED BY <1>3, <2>1 DEF InputDetected
<1>4. ASSUME NEW stick \in Sticks, Throttle(stick)
      PROVE  TypeOK'
  BY <1>4 DEF Throttle
<1>5. ASSUME NEW direction \in BOOLEAN, DshotCommand(direction)
      PROVE  TypeOK'
  BY <1>5 DEF DshotCommand, Sticks
<1> QED BY <1>1, <1>2, <1>3, <1>4, <1>5 DEF Next

(* What follows from the first state and the steps, whatever is fair. *)
LEMMA TypesHold == Init /\ [][Next]_vars => []TypeOK
<1>1. Init => TypeOK
  <2> SUFFICES ASSUME Init
               PROVE  TypeOK
    OBVIOUS
  <2>1. isrForward \in BOOLEAN
    BY DEF Init
  <2>2. result \in Results
    BY DEF Init, Nothing, Result, Results, DSHOT_MAX_THROTTLE
  <2>3. adjusted \in 0 .. DSHOT_MAX_THROTTLE
    BY DEF Init, DSHOT_MAX_THROTTLE
  <2> QED BY <2>1, <2>2, <2>3 DEF Init, TypeOK, Modes, Steps, Sticks
<1>2. TypeOK /\ [Next]_vars => TypeOK'
  <2> SUFFICES ASSUME TypeOK, [Next]_vars
               PROVE  TypeOK'
    OBVIOUS
  <2>1. CASE MainLoop
    BY <2>1, MainLoopTypes
  <2>2. CASE Next /\ ~MainLoop
    BY <2>2, HandlerTypes
  <2>3. CASE UNCHANGED vars
    BY <2>3 DEF TypeOK, vars, shared, isr, main
  <2> QED BY <2>1, <2>2, <2>3
<1> QED BY <1>1, <1>2, PTL

(* Every variable keeps its type, for every set of sticks and dead band:    *)
(* the throttle that the four mappings of input_mapping.rs publish is one   *)
(* the duty ramp takes.                                                     *)
THEOREM TypeCorrect == Spec => []TypeOK
BY TypesHold, PTL DEF Spec

-----------------------------------------------------------------------------
(* The brake. *)

(* The steps between the publication of the throttle and the next pass.     *)
Published == {"flip_read", "flip", "restart", "brake"}

(* Why the brake cuts the throttle.  The brake and the grant of a reversal  *)
(* exclude each other, so while the brake is on the mapping finds neither   *)
(* a released brake nor a grant and yields no throttle; and its result,     *)
(* once published, is the throttle that the brake is published beside.      *)
BrakeInv ==
  /\ propBrake = brake
  /\ brake => ~returnToCenter /\ adjusted = 0 /\ result.adjusted = 0
  /\ result.brake => ~returnToCenter /\ result.adjusted = 0
  /\ pc \in Published => adjusted = result.adjusted
  /\ brake => config.rcCar

(* Only three steps touch what BrakeInv is about.                           *)
LEMMA BrakeUntouched ==
  ASSUME TypeOK, BrakeInv, MainLoop,
         ~MapInput, ~PublishInput, ~PublishBrake
  PROVE  BrakeInv'
<1> USE DEF BrakeInv, Goto, isr, shared, Published
<1>1. CASE ReadMode \/ ReadInput \/ ReadForward \/ ReadInterval
  BY <1>1 DEF ReadMode, ReadInput, ReadForward, ReadInterval
<1>2. CASE FlipRead \/ Flip \/ Restart
  BY <1>2 DEF FlipRead, Flip, Restart
<1>3. ASSUME NEW outcome, FinishPass(outcome)
      PROVE  BrakeInv'
  BY <1>3 DEF FinishPass
<1> QED BY <1>1, <1>2, <1>3 DEF MainLoop

LEMMA BrakeKept ==
  ASSUME TypeOK, BrakeInv, [Next]_vars
  PROVE  BrakeInv'
<1>1. CASE MapInput
  <2>1. CASE config.rcCar
    <3>1. result' = RcCar(StickHalf, StickAmount, seenForward,
                          config.dirReversed, brake, returnToCenter)
      BY <1>1, <2>1 DEF MapInput
    <3>2. brake => result'.adjusted = 0
      BY <3>1 DEF RcCar, Result, Nothing, BrakeInv
    <3>3. result'.brake => ~returnToCenter /\ result'.adjusted = 0
      BY <3>1 DEF RcCar, Result, Nothing, BrakeInv
    <3> QED
      BY <1>1, <3>2, <3>3 DEF MapInput, Goto, BrakeInv, Published, isr, shared
  <2>2. CASE ~config.rcCar
    <3>1. ~result'.brake
      BY <1>1, <2>2 DEF MapInput, SpeedGated, Result, Nothing
    <3> QED
      BY <1>1, <2>2, <3>1 DEF MapInput, Goto, BrakeInv, Published, isr, shared
  <2> QED BY <2>1, <2>2
<1>2. CASE PublishInput
  BY <1>2 DEF PublishInput, Goto, BrakeInv, Published, isr
<1>3. CASE PublishBrake
  <2>1. result'.adjusted = 0 /\ ~result'.brake
    BY <1>3 DEF PublishBrake, Nothing, Result
  <2>2. brake' => ~returnToCenter' /\ adjusted = 0 /\ config.rcCar
    <3>1. brake' => BrakeHeld /\ ~Released /\ config.rcCar
      BY <1>3 DEF PublishBrake
    <3>2. BrakeHeld => ~returnToCenter /\ adjusted = 0
      BY <1>3 DEF PublishBrake, Goto, BrakeHeld, BrakeInv, Published
    <3>3. returnToCenter' => Released \/ returnToCenter
      BY <1>3 DEF PublishBrake
    <3> QED BY <3>1, <3>2, <3>3
  <2>3. propBrake' = brake' /\ pc' = "rest" /\ UNCHANGED <<adjusted, config>>
    BY <1>3 DEF PublishBrake, Goto
  <2> QED BY <2>1, <2>2, <2>3 DEF BrakeInv, Published
<1>4. CASE MainLoop /\ ~MapInput /\ ~PublishInput /\ ~PublishBrake
  BY <1>4, BrakeUntouched
<1>5. ASSUME NEW arms \in BOOLEAN, Tick(arms)
      PROVE  BrakeInv'
  BY <1>5 DEF Tick, BrakeInv, main
<1>6. ASSUME NEW locks \in BOOLEAN, TimerExpired(locks)
      PROVE  BrakeInv'
  BY <1>6 DEF TimerExpired, BrakeInv, main
<1>7. CASE InputDetected
  BY <1>7 DEF InputDetected, BrakeInv, main
<1>8. ASSUME NEW stick \in Sticks, Throttle(stick)
      PROVE  BrakeInv'
  BY <1>8 DEF Throttle, BrakeInv, main
<1>9. ASSUME NEW direction \in BOOLEAN, DshotCommand(direction)
      PROVE  BrakeInv'
  BY <1>9 DEF DshotCommand, BrakeInv, main
<1>10. CASE UNCHANGED vars
  BY <1>10 DEF BrakeInv, vars, shared, main
<1> QED
  BY <1>1, <1>2, <1>3, <1>4, <1>5, <1>6, <1>7, <1>8, <1>9, <1>10 DEF Next

LEMMA BrakeHolds == Init /\ [][Next]_vars => []BrakeCutsThrottle
<1>1. Init => BrakeInv
  <2> SUFFICES ASSUME Init
               PROVE  BrakeInv
    OBVIOUS
  <2>1. ~brake /\ propBrake = brake /\ pc \notin Published
    BY DEF Init, Published
  <2>2. ~result.brake
    BY DEF Init, Nothing, Result
  <2> QED BY <2>1, <2>2 DEF BrakeInv
<1>2. TypeOK /\ BrakeInv /\ [Next]_vars => BrakeInv'
  BY BrakeKept
<1>3. BrakeInv => BrakeCutsThrottle
  BY DEF BrakeInv, BrakeCutsThrottle
<1> QED BY <1>1, <1>2, <1>3, TypesHold, PTL

(* Throttle is never published while the brake is, whatever sticks the      *)
(* transmitter sends and whenever the protocol is detected: the handshake   *)
(* of apply_rc_car_result and the mappings exclude it together.             *)
THEOREM BrakeCutsThrottleAlways == Spec => []BrakeCutsThrottle
BY BrakeHolds, PTL DEF Spec

-----------------------------------------------------------------------------
(* The direction. *)

(* The pass has mapped the stick, and not yet finished the flip.            *)
Mapped == {"publish", "flip_read", "flip", "restart", "brake"}

Aligned == forward = Wanted(StickHalf, config.dirReversed)

FlipDue == result.reverse /\ pc \in {"publish", "flip_read", "flip"}

(* Why the published throttle fits the direction.  Without commands only    *)
(* the pass itself changes the direction, so what it read of it stays true; *)
(* throttle is mapped for a stick off the centre, whose side the motor has  *)
(* exactly when no flip is due; and when the pass rests, none is.           *)
DriveInv ==
  ~config.commands =>
    /\ pc \in {"read_interval", "map", "flip"} => seenForward = forward
    /\ pc \in Mapped /\ result.adjusted > 0
         => StickHalf # "centre" /\ (Aligned <=> ~FlipDue)
    /\ pc \in {"flip_read", "flip"} => result.reverse
    /\ pc \in Published => adjusted = result.adjusted
    /\ pc = "rest" /\ adjusted > 0 => StickHalf # "centre" /\ Aligned

(* The mappings agree on the direction that their result is for.            *)
LEMMA SpeedGatedAligned ==
  ASSUME NEW half \in {"forward", "reverse", "centre"},
         NEW amount, NEW fwd \in BOOLEAN, NEW reversed \in BOOLEAN,
         NEW p \in BOOLEAN,
         NEW r, r = SpeedGated(half, amount, fwd, reversed, p),
         r.adjusted > 0
  PROVE  half # "centre" /\ (fwd = Wanted(half, reversed) <=> ~r.reverse)
BY DEF SpeedGated, Result, Nothing

LEMMA RcCarAligned ==
  ASSUME NEW half \in {"forward", "reverse", "centre"},
         NEW amount, NEW fwd \in BOOLEAN, NEW reversed \in BOOLEAN,
         NEW p \in BOOLEAN, NEW q \in BOOLEAN,
         NEW r, r = RcCar(half, amount, fwd, reversed, p, q),
         r.adjusted > 0
  PROVE  half # "centre" /\ (fwd = Wanted(half, reversed) <=> ~r.reverse)
BY DEF RcCar, Result, Nothing

LEMMA DriveKeptByPass ==
  ASSUME TypeOK, DriveInv, MainLoop, ~config.commands
  PROVE  DriveInv'
<1> USE DEF Goto
<1>1. CASE ReadMode \/ ReadInput \/ ReadForward \/ ReadInterval
  BY <1>1 DEF ReadMode, ReadInput, ReadForward, ReadInterval, DriveInv, Mapped,
              Published, shared
<1>2. CASE MapInput
  <2>1. pc' = "publish" /\ seenForward = forward
    BY <1>2 DEF MapInput, DriveInv
  <2>2. UNCHANGED <<config, forward, adjusted, raw, asDshot>>
    BY <1>2 DEF MapInput, shared
  <2>3. StickHalf \in {"forward", "reverse", "centre"}
    BY DEF StickHalf, DshotHalf, ServoHalf
  <2> DEFINE canReverse == seenSlow /\ lowDuty
  <2>4. canReverse \in BOOLEAN
    OBVIOUS
  <2>5. SUFFICES ASSUME result'.adjusted > 0
                 PROVE  StickHalf # "centre" /\ (Aligned <=> ~result'.reverse)
    BY <2>1, <2>2 DEF DriveInv, Mapped, Published, FlipDue, Aligned, StickHalf
  <2>6. config.dirReversed \in BOOLEAN /\ seenForward \in BOOLEAN
          /\ brake \in BOOLEAN /\ returnToCenter \in BOOLEAN
    BY DEF TypeOK, Configs
  <2>7. CASE config.rcCar
    <3>1. result' = RcCar(StickHalf, StickAmount, seenForward,
                          config.dirReversed, brake, returnToCenter)
      BY <1>2, <2>7 DEF MapInput
    <3> QED BY <2>1, <2>3, <2>5, <2>6, <3>1, RcCarAligned DEF Aligned
  <2>8. CASE ~config.rcCar
    <3>1. result' = SpeedGated(StickHalf, StickAmount, seenForward,
                               config.dirReversed, canReverse)
      BY <1>2, <2>8 DEF MapInput
    <3> HIDE DEF canReverse
    <3> DEFINE r == result'
    <3>2. r = SpeedGated(StickHalf, StickAmount, seenForward,
                         config.dirReversed, canReverse) /\ r.adjusted > 0
      BY <2>5, <3>1
    <3> HIDE DEF r
    <3>3. StickHalf # "centre"
            /\ (seenForward = Wanted(StickHalf, config.dirReversed) <=> ~r.reverse)
      BY <2>3, <2>4, <2>6, <3>2, SpeedGatedAligned
    <3> USE DEF r
    <3> QED BY <2>1, <3>3 DEF Aligned
  <2> QED BY <2>7, <2>8
<1>3. CASE PublishInput
  BY <1>3 DEF PublishInput, DriveInv, Mapped, Published, FlipDue, Aligned,
              StickHalf, isr
<1>4. CASE FlipRead
  BY <1>4 DEF FlipRead, DriveInv, Mapped, Published, FlipDue, Aligned,
              StickHalf, isr, shared
<1>5. CASE Flip
  <2>1. pc = "flip" /\ seenForward = forward /\ result.reverse
    BY <1>5 DEF Flip, DriveInv
  <2>2. pc' \in {"restart", "brake"} /\ forward' = ~forward
    BY <1>5, <2>1 DEF Flip
  <2>3. UNCHANGED <<config, raw, asDshot, result, adjusted>>
    BY <1>5 DEF Flip
  <2>4. result.adjusted > 0 => StickHalf # "centre" /\ ~Aligned
    BY <2>1 DEF DriveInv, Mapped, FlipDue
  <2>5. ~Aligned => Aligned'
    BY <2>2, <2>3 DEF Aligned, Wanted, StickHalf, TypeOK, Configs
  <2>6. ~FlipDue' /\ StickHalf' = StickHalf
    BY <2>2, <2>3 DEF FlipDue, StickHalf
  <2>7. adjusted = result.adjusted
    BY <2>1 DEF DriveInv, Published
  <2> QED
    BY <2>2, <2>3, <2>4, <2>5, <2>6, <2>7 DEF DriveInv, Mapped, Published
<1>6. CASE Restart
  BY <1>6 DEF Restart, DriveInv, Mapped, Published, FlipDue, Aligned,
              StickHalf, isr
<1>7. CASE PublishBrake
  <2>1. pc = "brake" /\ pc' = "rest" /\ ~FlipDue
    BY <1>7 DEF PublishBrake, FlipDue
  <2>2. UNCHANGED <<config, forward, raw, asDshot, adjusted>>
    BY <1>7 DEF PublishBrake, isr
  <2>3. adjusted > 0 => StickHalf # "centre" /\ Aligned
    BY <2>1 DEF DriveInv, Mapped, Published
  <2>4. StickHalf' = StickHalf /\ Aligned' = Aligned
    BY <2>2 DEF StickHalf, Aligned
  <2> QED BY <2>1, <2>2, <2>3, <2>4 DEF DriveInv, Mapped, Published
<1>8. ASSUME NEW outcome, FinishPass(outcome)
      PROVE  DriveInv'
  BY <1>8 DEF FinishPass, DriveInv, Mapped, Published
<1> QED
  BY <1>1, <1>2, <1>3, <1>4, <1>5, <1>6, <1>7, <1>8 DEF MainLoop

(* Without commands the handlers leave alone all that DriveInv is about.    *)
LEMMA DriveKeptByHandlers ==
  ASSUME TypeOK, DriveInv, Next, ~MainLoop, ~config.commands
  PROVE  DriveInv'
<1>1. UNCHANGED <<config, forward, adjusted, pc, raw, asDshot, seenForward,
                  result>>
  BY DEF Next, Tick, TimerExpired, InputDetected, Throttle, DshotCommand, main
<1> QED
  BY <1>1 DEF DriveInv, FlipDue, Aligned, StickHalf, Mapped, Published

LEMMA DriveHolds == Init /\ [][Next]_vars => []DrivesTowardsStick
<1>1. Init => DriveInv
  BY DEF Init, DriveInv, Mapped, Published
<1>2. TypeOK /\ DriveInv /\ [Next]_vars => DriveInv'
  <2> SUFFICES ASSUME TypeOK, DriveInv, [Next]_vars
               PROVE  DriveInv'
    OBVIOUS
  <2>1. config' = config
    BY DEF Next, MainLoop, ReadMode, ReadInput, ReadForward, ReadInterval,
           MapInput, PublishInput, FlipRead, Flip, Restart, PublishBrake,
           FinishPass, Tick, TimerExpired, InputDetected, Throttle,
           DshotCommand, vars
  <2>2. CASE config.commands
    BY <2>1, <2>2 DEF DriveInv
  <2>3. CASE MainLoop /\ ~config.commands
    BY <2>3, DriveKeptByPass
  <2>4. CASE Next /\ ~MainLoop /\ ~config.commands
    BY <2>4, DriveKeptByHandlers
  <2>5. CASE UNCHANGED vars
    BY <2>5 DEF vars, shared, isr, main, DriveInv, FlipDue, Aligned, StickHalf,
                Mapped, Published
  <2> QED BY <2>2, <2>3, <2>4, <2>5
<1>3. DriveInv => DrivesTowardsStick
  BY DEF DriveInv, DrivesTowardsStick, Aligned
<1> QED BY <1>1, <1>2, <1>3, TypesHold, PTL

(* Without commands, published throttle is in the direction the motor now   *)
(* has, with every interleaving of the pass and the handlers, for every     *)
(* set of sticks and every dead band.                                       *)
THEOREM DrivesTowardsStickAlways == Spec => []DrivesTowardsStick
BY DriveHolds, PTL DEF Spec

-----------------------------------------------------------------------------
(* The throttle that is published goes with the direction and the brake, for all  *)
(* sticks and every dead band (input.rs:60-199).                               *)
THEOREM StickAlwaysObeyed == Spec => []StickObeyed
BY DrivesTowardsStickAlways, BrakeCutsThrottleAlways, PTL DEF StickObeyed

=============================================================================
