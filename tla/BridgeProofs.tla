----------------------------- MODULE BridgeProofs -----------------------------
(***************************************************************************)
(* That the bridge never shorts for longer than a jump takes, leaves one       *)
(* phase to the comparator, and is opened by a panic, for every board and       *)
(* every order of steps, brakes, duties and panics.                          *)
(*                                                                         *)
(* The argument looks ahead: BridgeInv says what the pins will be after any     *)
(* number of the register writes that are still to be made.  A write only       *)
(* moves these statements nearer by one, so that no place in a script needs a    *)
(* case of its own; only the handler that hands out a new script has to be       *)
(* looked at.                                                               *)
(***************************************************************************)
EXTENDS Bridge, TLAPS

LEMMA SixSteps ==
  ASSUME NEW step \in 1 .. 6
  PROVE  step \in {1, 2, 3, 4, 5, 6}
BY SMT

LEMMA StepsGoRound ==
  ASSUME NEW step \in 1 .. 6, NEW forward \in BOOLEAN
  PROVE  NextStep(step, forward) \in 1 .. 6
BY SMT DEF NextStep

-----------------------------------------------------------------------------
(***************************************************************************)
(* The types of pins and writes.                                            *)
(***************************************************************************)

Writes == [pin : Pins, mode : {"same", "output", "alternate"},
           bit : {"same", "set", "reset"}]

LEMMA WritesTyped ==
  ASSUME NEW phase \in Phases, NEW side \in {"high", "low"}
  PROVE  /\ Mode(phase, side, "output") \in Writes
         /\ Mode(phase, side, "alternate") \in Writes
         /\ High(phase, side) \in Writes /\ Low(phase, side) \in Writes
<1>1. <<phase, side>> \in Pins
  BY DEF Pins
<1> QED BY <1>1 DEF Mode, High, Low, Writes

LEMMA PhasesTyped ==
  ASSUME NEW p \in Phases
  PROVE  /\ PhaseFloat(p) \in Seq(Writes) /\ PhaseLow(p) \in Seq(Writes)
         /\ PhasePwm(p) \in Seq(Writes)
<1>1. /\ Mode(p, "low", "output") \in Writes /\ Mode(p, "high", "output") \in Writes
      /\ Mode(p, "high", "alternate") \in Writes
      /\ Low(p, "low") \in Writes /\ Low(p, "high") \in Writes /\ High(p, "low") \in Writes
  BY WritesTyped
<1>2. PhaseFloat(p) \in Seq(Writes)
  BY <1>1 DEF PhaseFloat
<1>3. PhaseLow(p) \in Seq(Writes)
  BY <1>1 DEF PhaseLow
<1>4. PhasePwm(p) \in Seq(Writes)
  <2>1. <<Mode(p, "low", "output"), Low(p, "low")>> \in Seq(Writes)
        /\ <<Mode(p, "high", "alternate")>> \in Seq(Writes)
        /\ <<>> \in Seq(Writes)
    BY <1>1
  <2> QED BY <2>1 DEF PhasePwm
<1> QED BY <1>2, <1>3, <1>4

LEMMA ComStepTyped ==
  ASSUME NEW step \in 1 .. 6
  PROVE  ComStep(step) \in Seq(Writes)
<1>1. /\ StepPhases[step][1] \in Phases /\ StepPhases[step][2] \in Phases
      /\ StepPhases[step][3] \in Phases
  <2>1. CASE step = 1 BY <2>1 DEF StepPhases, Phases
  <2>2. CASE step = 2 BY <2>2 DEF StepPhases, Phases
  <2>3. CASE step = 3 BY <2>3 DEF StepPhases, Phases
  <2>4. CASE step = 4 BY <2>4 DEF StepPhases, Phases
  <2>5. CASE step = 5 BY <2>5 DEF StepPhases, Phases
  <2>6. CASE step = 6 BY <2>6 DEF StepPhases, Phases
  <2> QED BY <2>1, <2>2, <2>3, <2>4, <2>5, <2>6, SixSteps
<1> QED BY <1>1, PhasesTyped DEF ComStep

LEMMA TuneTyped == Tune \in Seq(Writes)
<1>1. ComStep(3) \in Seq(Writes) /\ ComStep(5) \in Seq(Writes) /\ ComStep(6) \in Seq(Writes)
  BY ComStepTyped
<1>2. AllOff \in Seq(Writes)
  BY PhasesTyped DEF AllOff, Phases
<1> QED BY <1>1, <1>2 DEF Tune

LEMMA WrittenTyped ==
  ASSUME NEW old \in PinStates, NEW w \in Writes
  PROVE  Written(old, w) \in PinStates
<1>1. (IF w.mode = "same" THEN old.mode ELSE w.mode) \in {"analog", "output", "alternate"}
  BY DEF PinStates, Writes
<1>2. (IF w.bit = "same" THEN old.set ELSE w.bit = "set") \in BOOLEAN
  BY DEF PinStates
<1> QED BY <1>1, <1>2, Zenon DEF Written, PinStates

LEMMA PinsAtResetTyped == PinsAtReset \in [Pins -> PinStates]
<1>1. \A p \in Pins : [mode |-> IF p[2] = "high" THEN "alternate" ELSE "analog",
                       set |-> FALSE] \in PinStates
  BY DEF PinStates
<1> QED BY <1>1 DEF PinsAtReset

LEMMA ResetTyped ==
  ASSUME pins \in [Pins -> PinStates], NEW S
  PROVE  Reset(S) \in [Pins -> PinStates]
<1>1. \A p \in Pins : [pins[p] EXCEPT !.set = FALSE] \in PinStates
  BY DEF PinStates
<1> QED BY <1>1 DEF Reset

LEMMA BridgeTypesInitial == BridgeInit => BridgeTypeOK
<1>1. 1 \in 1 .. 6 /\ "tune" \in Stages
  BY DEF Stages
<1>2. Tune \in Seq([pin : Pins, mode : {"same", "output", "alternate"},
                    bit : {"same", "set", "reset"}])
  BY TuneTyped DEF Writes
<1> QED BY <1>1, <1>2, PinsAtResetTyped, Zenon DEF BridgeInit, BridgeTypeOK

LEMMA BridgeTypesKept ==
  ASSUME BridgeTypeOK, [BridgeNext]_bridgeVars
  PROVE  BridgeTypeOK'
<1>0. /\ bridge_enable \in Enables /\ step_brakes \in BrakesOnStop
      /\ pins \in [Pins -> PinStates] /\ todo \in Seq(Writes)
      /\ pwm_on \in BOOLEAN /\ applied \in BOOLEAN /\ com_step \in 1 .. 6
      /\ stage \in Stages /\ in_handler \in BOOLEAN /\ stepped_late \in BOOLEAN
  BY DEF BridgeTypeOK, Writes
<1> USE DEF BridgeTypeOK, boardVars, panicVars
<1>1. CASE EndTune
  BY <1>0, <1>1 DEF EndTune, Stages, Writes
<1>2. CASE WriteRegister
  <2>1. Head(todo) \in Writes /\ Tail(todo) \in Seq(Writes)
    BY <1>0, <1>2 DEF WriteRegister
  <2>2. Head(todo).pin \in Pins
    BY <2>1 DEF Writes
  <2>3. Written(pins[Head(todo).pin], Head(todo)) \in PinStates
    BY <1>0, <2>1, <2>2, WrittenTyped
  <2>4. pins' \in [Pins -> PinStates]
    BY <1>0, <1>2, <2>2, <2>3 DEF WriteRegister
  <2> QED BY <1>0, <1>2, <2>1, <2>4 DEF WriteRegister, Writes
<1>3. CASE Commutate
  <2>1. com_step' \in 1 .. 6
    BY <1>0, <1>3, StepsGoRound DEF Commutate
  <2>2. todo' \in Seq(Writes)
    BY <1>3, <2>1, ComStepTyped DEF Commutate
  <2>3. stepped_late' \in BOOLEAN /\ applied' \in BOOLEAN
    BY <1>3 DEF Commutate
  <2> QED BY <1>0, <1>3, <2>1, <2>2, <2>3 DEF Commutate, Writes
<1>4. CASE BrakeOnStep
  <2>1. todo' \in Seq(Writes)
    BY <1>4, ComStepTyped DEF BrakeOnStep
  <2>2. stepped_late' \in BOOLEAN /\ applied' \in BOOLEAN
    BY <1>4 DEF BrakeOnStep
  <2> QED BY <1>0, <1>4, <2>1, <2>2 DEF BrakeOnStep, Writes
<1>5. CASE SetDuty
  BY <1>0, <1>5 DEF SetDuty, Writes
<1>6. CASE PanicPortA
  BY <1>0, <1>6, ResetTyped DEF PanicPortA, Writes, Stages
<1>7. CASE PanicPortB
  BY <1>0, <1>7, ResetTyped DEF PanicPortB, Writes, Stages
<1>8. CASE Halt
  BY <1>0, <1>8 DEF Halt, Writes, Stages
<1>9. CASE WatchdogBarks
  <2>1. 1 \in 1 .. 6 /\ "tune" \in Stages
    BY DEF Stages
  <2>2. Tune \in Seq([pin : Pins, mode : {"same", "output", "alternate"},
                      bit : {"same", "set", "reset"}])
    BY TuneTyped DEF Writes
  <2> QED BY <1>0, <1>9, <2>1, <2>2, PinsAtResetTyped, Zenon DEF WatchdogBarks
<1>10. CASE UNCHANGED bridgeVars
  BY <1>0, <1>10 DEF bridgeVars, Writes
<1> QED
  BY <1>1, <1>2, <1>3, <1>4, <1>5, <1>6, <1>7, <1>8, <1>9, <1>10 DEF BridgeNext

LEMMA BridgeTypesHold == BridgeInit /\ [][BridgeNext]_bridgeVars => []BridgeTypeOK
BY BridgeTypesInitial, BridgeTypesKept, PTL

-----------------------------------------------------------------------------
(***************************************************************************)
(* What the pins ps come to by the first k of the writes ws.                  *)
(***************************************************************************)

(* A value that begins as old and is written as es says, "same" leaving it.      *)
ComesTo(old, es, value, k) ==
  \/ \E i \in 1 .. k : es[i] = value /\ \A j \in i + 1 .. k : es[j] = "same"
  \/ old = value /\ \A j \in 1 .. k : es[j] = "same"

Modes(ws, x) == [i \in 1 .. Len(ws) |-> IF ws[i].pin = x THEN ws[i].mode ELSE "same"]
Bits(ws, x)  == [i \in 1 .. Len(ws) |-> IF ws[i].pin = x THEN ws[i].bit ELSE "same"]

ModeBy(ps, ws, x, mode, k) == ComesTo(ps[x].mode, Modes(ws, x), mode, k)

BitOf(pin) == IF pin.set THEN "set" ELSE "reset"

SetBy(ps, ws, x, k) == ComesTo(BitOf(ps[x]), Bits(ws, x), "set", k)

(* No phase has its high side at the timer and its low side on.                *)
ApartBy(ps, ws, k) ==
  \A p \in Phases : ~(ModeBy(ps, ws, <<p, "high">>, "alternate", k)
                        /\ SetBy(ps, ws, <<p, "low">>, k))

(* When all is written, all pins are off ... *)
OffAtEnd(ps, ws) ==
  \A x \in Pins : /\ ModeBy(ps, ws, x, "output", Len(ws))
                  /\ ~SetBy(ps, ws, x, Len(ws))

(* ... or the pins are a step's, p floating, q low and r with PWM ... *)
SteppedAtEnd(ps, ws, p, q, r) ==
  /\ ModeBy(ps, ws, <<r, "high">>, "alternate", Len(ws))
  /\ ~SetBy(ps, ws, <<r, "low">>, Len(ws))
  /\ \A x \in {p, q} : /\ ModeBy(ps, ws, <<x, "high">>, "output", Len(ws))
                       /\ ~SetBy(ps, ws, <<x, "high">>, Len(ws))
  /\ ModeBy(ps, ws, <<q, "low">>, "output", Len(ws))
  /\ SetBy(ps, ws, <<q, "low">>, Len(ws))
  /\ ~SetBy(ps, ws, <<p, "low">>, Len(ws))

(* ... or what a reset of bits leaves of these.                              *)
RestAtEnd(ps, ws, p, q, r) ==
  /\ \A x \in {p, q} : ~ModeBy(ps, ws, <<x, "high">>, "alternate", Len(ws))
  /\ \A x \in {p, r} : ~SetBy(ps, ws, <<x, "low">>, Len(ws))

Stepped(step) ==
  SteppedAtEnd(pins, todo, StepPhases[step][1], StepPhases[step][2], StepPhases[step][3])

Resting(step) ==
  RestAtEnd(pins, todo, StepPhases[step][1], StepPhases[step][2], StepPhases[step][3])

(* Until the tune is over it is going to switch everything off; a panic that no  *)
(* step followed has reset what it has come to; and of a bridge without enable   *)
(* pin a jump leaves the phases of some step, and no jump comes without          *)
(* brake_on_stop = 2, so that there no write makes a short.                   *)
BridgeInv ==
  /\ BridgeTypeOK
  /\ stage \in {"tune", "run"} => ~stepped_late
  /\ stage = "tune" => com_step = 1 /\ ~applied /\ OffAtEnd(pins, todo)
  /\ stage = "portA" /\ ~stepped_late =>
       todo = <<>> /\ \A x \in Pins \ PortB : ~pins[x].set
  /\ stage \in {"portB", "halted"} /\ ~stepped_late =>
       todo = <<>> /\ \A x \in Pins : ~pins[x].set
  /\ ~bridge_enable /\ stage # "tune" =>
       /\ \E step \in 1 .. 6 : Resting(step)
       /\ ~step_brakes =>
            /\ Resting(com_step)
            /\ \A k \in 0 .. Len(todo) : ApartBy(pins, todo, k)
       /\ stage = "run" /\ applied => \E step \in 1 .. 6 : Stepped(step)

-----------------------------------------------------------------------------
(* What is written next is written: what is known of the rest moves nearer.      *)
LEMMA ComesNearer ==
  ASSUME NEW old, NEW es, NEW rest, NEW value, value # "same", NEW k \in Nat,
         \A i \in 1 .. k : rest[i] = es[i + 1]
  PROVE  ComesTo(IF es[1] = "same" THEN old ELSE es[1], rest, value, k)
           <=> ComesTo(old, es, value, k + 1)
<1> DEFINE next == IF es[1] = "same" THEN old ELSE es[1]
<1>1. ASSUME NEW i \in 1 .. k, rest[i] = value, \A j \in i + 1 .. k : rest[j] = "same"
      PROVE  ComesTo(old, es, value, k + 1)
  <2>1. i + 1 \in 1 .. k + 1 /\ es[i + 1] = value
    BY <1>1, SMT
  <2>2. ASSUME NEW j \in (i + 1) + 1 .. k + 1
        PROVE  es[j] = "same"
    <3>1. j - 1 \in i + 1 .. k /\ j - 1 \in 1 .. k /\ (j - 1) + 1 = j
      BY SMT
    <3> QED BY <1>1, <3>1
  <2> QED BY <2>1, <2>2 DEF ComesTo
<1>2. ASSUME next = value, \A j \in 1 .. k : rest[j] = "same"
      PROVE  ComesTo(old, es, value, k + 1)
  <2>1. ASSUME NEW j \in 1 + 1 .. k + 1
        PROVE  es[j] = "same"
    <3>1. j - 1 \in 1 .. k /\ (j - 1) + 1 = j
      BY SMT
    <3> QED BY <1>2, <3>1
  <2>2. CASE es[1] = "same"
    <3>1. \A j \in 1 .. k + 1 : es[j] = "same"
      <4> TAKE j \in 1 .. k + 1
      <4>1. j = 1 \/ j \in 1 + 1 .. k + 1
        BY SMT
      <4> QED BY <2>1, <2>2, <4>1
    <3> QED BY <1>2, <2>2, <3>1 DEF ComesTo
  <2>3. CASE es[1] # "same"
    <3>1. 1 \in 1 .. k + 1 /\ es[1] = value
      BY <1>2, <2>3, SMT
    <3> QED BY <2>1, <3>1 DEF ComesTo
  <2> QED BY <2>2, <2>3
<1>3. ASSUME NEW i \in 1 .. k + 1, es[i] = value, \A j \in i + 1 .. k + 1 : es[j] = "same"
      PROVE  ComesTo(next, rest, value, k)
  <2>1. CASE i = 1
    <3>1. ASSUME NEW j \in 1 .. k
          PROVE  rest[j] = "same"
      <4>1. j + 1 \in i + 1 .. k + 1
        BY <2>1, SMT
      <4> QED BY <1>3, <4>1
    <3>2. next = value
      BY <1>3, <2>1
    <3> QED BY <3>1, <3>2 DEF ComesTo
  <2>2. CASE i # 1
    <3>1. i - 1 \in 1 .. k /\ (i - 1) + 1 = i
      BY <2>2, SMT
    <3>2. rest[i - 1] = value
      BY <1>3, <3>1
    <3>3. ASSUME NEW j \in (i - 1) + 1 .. k
          PROVE  rest[j] = "same"
      <4>1. j + 1 \in i + 1 .. k + 1 /\ j \in 1 .. k
        BY SMT
      <4> QED BY <1>3, <4>1
    <3> QED BY <3>1, <3>2, <3>3 DEF ComesTo
  <2> QED BY <2>1, <2>2
<1>4. ASSUME old = value, \A j \in 1 .. k + 1 : es[j] = "same"
      PROVE  ComesTo(next, rest, value, k)
  <2>1. es[1] = "same"
    BY <1>4, SMT
  <2>2. ASSUME NEW j \in 1 .. k
        PROVE  rest[j] = "same"
    <3>1. j + 1 \in 1 .. k + 1
      BY SMT
    <3> QED BY <1>4, <3>1
  <2> QED BY <1>4, <2>1, <2>2 DEF ComesTo
<1>5. ComesTo(next, rest, value, k) => ComesTo(old, es, value, k + 1)
  <2> HIDE DEF next
  <2> QED BY <1>1, <1>2 DEF ComesTo
<1>6. ComesTo(old, es, value, k + 1) => ComesTo(next, rest, value, k)
  <2> HIDE DEF next
  <2> QED BY <1>3, <1>4 DEF ComesTo
<1> QED BY <1>5, <1>6

LEMMA NextWritten ==
  ASSUME NEW ws \in Seq(Writes), ws # <<>>
  PROVE  /\ Tail(ws) \in Seq(Writes) /\ Head(ws) = ws[1] /\ ws[1] \in Writes
         /\ Len(ws) \in Nat /\ Len(ws) >= 1 /\ Len(Tail(ws)) = Len(ws) - 1
         /\ \A i \in 1 .. Len(ws) - 1 : Tail(ws)[i] = ws[i + 1]
BY SMT

LEMMA BitWritten ==
  ASSUME NEW pin \in PinStates, NEW w \in Writes
  PROVE  BitOf(Written(pin, w)) = IF w.bit = "same" THEN BitOf(pin) ELSE w.bit
<1>1. pin.set \in BOOLEAN
  BY DEF PinStates
<1>2. CASE w.bit = "same"
  BY <1>2 DEF Written, BitOf
<1>3. CASE w.bit = "set"
  BY <1>3 DEF Written, BitOf
<1>4. CASE w.bit = "reset"
  BY <1>4 DEF Written, BitOf
<1> QED BY <1>2, <1>3, <1>4 DEF Writes

After(ps, w) == [ps EXCEPT ![w.pin] = Written(@, w)]

LEMMA PinMovesNearer ==
  ASSUME NEW ps \in [Pins -> PinStates], NEW ws \in Seq(Writes), ws # <<>>,
         NEW x \in Pins, NEW k \in 0 .. Len(ws) - 1
  PROVE  /\ \A mode \in {"analog", "output", "alternate"} :
              ModeBy(After(ps, Head(ws)), Tail(ws), x, mode, k)
                <=> ModeBy(ps, ws, x, mode, k + 1)
         /\ SetBy(After(ps, Head(ws)), Tail(ws), x, k) <=> SetBy(ps, ws, x, k + 1)
<1> DEFINE first == ws[1]
           rest == Tail(ws)
           new == After(ps, first)
<1>1. /\ rest \in Seq(Writes) /\ first \in Writes /\ Head(ws) = first
      /\ Len(ws) \in Nat /\ k \in Nat /\ k + 1 \in 1 .. Len(ws)
      /\ Len(rest) = Len(ws) - 1
      /\ \A i \in 1 .. k : rest[i] = ws[i + 1] /\ i \in 1 .. Len(rest)
                             /\ i + 1 \in 1 .. Len(ws)
      /\ 1 \in 1 .. Len(ws)
  BY NextWritten, SMT
<1> HIDE DEF rest
<1>2. /\ \A i \in 1 .. k : Modes(rest, x)[i] = Modes(ws, x)[i + 1]
      /\ \A i \in 1 .. k : Bits(rest, x)[i] = Bits(ws, x)[i + 1]
      /\ Modes(ws, x)[1] = IF first.pin = x THEN first.mode ELSE "same"
      /\ Bits(ws, x)[1] = IF first.pin = x THEN first.bit ELSE "same"
  BY <1>1 DEF Modes, Bits
<1> HIDE DEF first
<1>3. /\ first.pin \in Pins
      /\ first.mode \in {"same", "output", "alternate"}
      /\ first.bit \in {"same", "set", "reset"}
      /\ ps[x].set \in BOOLEAN
  BY <1>1 DEF Writes, PinStates
<1>4. new[x] = IF first.pin = x THEN Written(ps[x], first) ELSE ps[x]
  BY <1>3 DEF After
<1>5. new[x].mode = IF Modes(ws, x)[1] = "same" THEN ps[x].mode ELSE Modes(ws, x)[1]
  BY <1>2, <1>4 DEF Written
<1>6. BitOf(new[x]) = IF Bits(ws, x)[1] = "same" THEN BitOf(ps[x]) ELSE Bits(ws, x)[1]
  <2>1. ps[x] \in PinStates
    OBVIOUS
  <2>2. CASE first.pin = x
    BY <1>1, <1>2, <1>4, <2>1, <2>2, BitWritten
  <2>3. CASE first.pin # x
    BY <1>2, <1>4, <2>3
  <2> QED BY <2>2, <2>3
<1> HIDE DEF new
<1>7. ASSUME NEW mode \in {"analog", "output", "alternate"}
      PROVE  ModeBy(new, rest, x, mode, k) <=> ModeBy(ps, ws, x, mode, k + 1)
  <2>1. mode # "same"
    OBVIOUS
  <2> QED BY <1>1, <1>2, <1>5, <2>1, ComesNearer DEF ModeBy
<1>8. SetBy(new, rest, x, k) <=> SetBy(ps, ws, x, k + 1)
  <2> DEFINE old == BitOf(ps[x])
             bits == Bits(ws, x)
             later == Bits(rest, x)
  <2>1. "set" # "same" /\ \A i \in 1 .. k : later[i] = bits[i + 1]
    BY <1>2
  <2> HIDE DEF old, bits, later
  <2>2. ComesTo(IF bits[1] = "same" THEN old ELSE bits[1], later, "set", k)
          <=> ComesTo(old, bits, "set", k + 1)
    BY <1>1, <2>1, ComesNearer
  <2> QED BY <1>6, <2>2 DEF SetBy, old, bits, later
<1> QED BY <1>1, <1>7, <1>8 DEF new, rest

-----------------------------------------------------------------------------
(* The writes of a step.                                                    *)
LEMMA StepsApart ==
  ASSUME NEW step \in 1 .. 6
  PROVE  /\ StepPhases[step][1] \in Phases /\ StepPhases[step][2] \in Phases
         /\ StepPhases[step][3] \in Phases
         /\ StepPhases[step][1] # StepPhases[step][2]
         /\ StepPhases[step][2] # StepPhases[step][3]
         /\ StepPhases[step][3] # StepPhases[step][1]
<1>1. CASE step = 1 BY <1>1 DEF StepPhases, Phases
<1>2. CASE step = 2 BY <1>2 DEF StepPhases, Phases
<1>3. CASE step = 3 BY <1>3 DEF StepPhases, Phases
<1>4. CASE step = 4 BY <1>4 DEF StepPhases, Phases
<1>5. CASE step = 5 BY <1>5 DEF StepPhases, Phases
<1>6. CASE step = 6 BY <1>6 DEF StepPhases, Phases
<1> QED BY <1>1, <1>2, <1>3, <1>4, <1>5, <1>6, SixSteps

OnlyAt(es, n, at) ==
  /\ n \in Nat /\ at \in 1 .. n /\ es[at] # "same"
  /\ \A i \in 1 .. n : i # at => es[i] = "same"

LEMMA WrittenOnce ==
  ASSUME NEW old, NEW es, NEW n, NEW at, OnlyAt(es, n, at),
         NEW k \in 0 .. n, NEW value, value # "same"
  PROVE  ComesTo(old, es, value, k) <=> IF k < at THEN old = value ELSE es[at] = value
<1> USE DEF OnlyAt
<1>1. CASE k < at
  <2>1. \A i \in 1 .. k : es[i] = "same"
    BY <1>1, SMT
  <2> QED BY <1>1, <2>1 DEF ComesTo
<1>2. CASE k >= at
  <2>1. at \in 1 .. k /\ \A i \in at + 1 .. k : es[i] = "same"
    BY <1>2, SMT
  <2>2. \A i \in 1 .. k : es[i] = value => i = at
    BY SMT
  <2> QED BY <1>2, <2>1, <2>2 DEF ComesTo
<1> QED BY <1>1, <1>2

StepWrites(ws, p, q, r) ==
  /\ ws \in Seq(Writes) /\ Len(ws) = 11
  /\ ws[1] = Mode(p, "low", "output") /\ ws[2] = Low(p, "low")
  /\ ws[3] = Mode(p, "high", "output") /\ ws[4] = Low(p, "high")
  /\ ws[5] = Mode(q, "low", "output") /\ ws[6] = High(q, "low")
  /\ ws[7] = Mode(q, "high", "output") /\ ws[8] = Low(q, "high")
  /\ ws[9] = Mode(r, "low", "output") /\ ws[10] = Low(r, "low")
  /\ ws[11] = Mode(r, "high", "alternate")

LEMMA ScriptsJoined ==
  ASSUME NEW S, NEW a \in Seq(S), NEW b \in Seq(S)
  PROVE  /\ a \o b \in Seq(S) /\ Len(a \o b) = Len(a) + Len(b)
         /\ \A i \in 1 .. Len(a) + Len(b) :
              (a \o b)[i] = IF i <= Len(a) THEN a[i] ELSE b[i - Len(a)]
BY SMT

LEMMA StepScript ==
  ASSUME ~bridge_enable, NEW step \in 1 .. 6
  PROVE  StepWrites(ComStep(step), StepPhases[step][1], StepPhases[step][2],
                    StepPhases[step][3])
<1> DEFINE p == StepPhases[step][1]
           q == StepPhases[step][2]
           r == StepPhases[step][3]
           a == PhaseFloat(p)
           b == PhaseLow(q)
           c == << Mode(r, "low", "output"), Low(r, "low") >>
           d == << Mode(r, "high", "alternate") >>
<1>1. p \in Phases /\ q \in Phases /\ r \in Phases
  BY StepsApart
<1>2. ComStep(step) = (a \o b) \o (c \o d)
  BY DEF ComStep, PhasePwm
<1> HIDE DEF p, q, r
<1>3. /\ a \in Seq(Writes) /\ b \in Seq(Writes) /\ c \in Seq(Writes) /\ d \in Seq(Writes)
  <2>1. PhaseFloat(p) \in Seq(Writes) /\ PhaseLow(q) \in Seq(Writes)
    BY <1>1, PhasesTyped
  <2>2. /\ Mode(r, "low", "output") \in Writes /\ Low(r, "low") \in Writes
        /\ Mode(r, "high", "alternate") \in Writes
    BY <1>1, WritesTyped
  <2> QED BY <2>1, <2>2
<1>4. /\ Len(a) = 4 /\ Len(b) = 4 /\ Len(c) = 2 /\ Len(d) = 1
      /\ a[1] = Mode(p, "low", "output") /\ a[2] = Low(p, "low")
      /\ a[3] = Mode(p, "high", "output") /\ a[4] = Low(p, "high")
      /\ b[1] = Mode(q, "low", "output") /\ b[2] = High(q, "low")
      /\ b[3] = Mode(q, "high", "output") /\ b[4] = Low(q, "high")
      /\ c[1] = Mode(r, "low", "output") /\ c[2] = Low(r, "low")
      /\ d[1] = Mode(r, "high", "alternate")
  BY DEF PhaseFloat, PhaseLow
<1> HIDE DEF a, b, c, d
<1>5. /\ c \o d \in Seq(Writes) /\ Len(c \o d) = 3
      /\ (c \o d)[1] = c[1] /\ (c \o d)[2] = c[2] /\ (c \o d)[3] = d[1]
  <2> DEFINE all == c \o d
  <2>0. /\ all \in Seq(Writes) /\ Len(all) = Len(c) + Len(d)
        /\ \A i \in 1 .. Len(c) + Len(d) :
             all[i] = IF i <= Len(c) THEN c[i] ELSE d[i - Len(c)]
    BY <1>3, ScriptsJoined, Zenon
  <2>1. /\ all \in Seq(Writes) /\ Len(all) = 3
        /\ \A i \in 1 .. 3 : all[i] = IF i <= 2 THEN c[i] ELSE d[i - 2]
    <3> HIDE DEF all
    <3> QED BY <1>4, <2>0
  <2> HIDE DEF all
  <2>2. all[1] = c[1] /\ all[2] = c[2] /\ all[3] = d[1]
    BY <2>1
  <2> QED BY <2>1, <2>2 DEF all
<1>6. /\ a \o b \in Seq(Writes) /\ Len(a \o b) = 8
      /\ (a \o b)[1] = a[1] /\ (a \o b)[2] = a[2] /\ (a \o b)[3] = a[3]
      /\ (a \o b)[4] = a[4] /\ (a \o b)[5] = b[1] /\ (a \o b)[6] = b[2]
      /\ (a \o b)[7] = b[3] /\ (a \o b)[8] = b[4]
  <2> DEFINE all == a \o b
  <2>0. /\ all \in Seq(Writes) /\ Len(all) = Len(a) + Len(b)
        /\ \A i \in 1 .. Len(a) + Len(b) :
             all[i] = IF i <= Len(a) THEN a[i] ELSE b[i - Len(a)]
    BY <1>3, ScriptsJoined, Zenon
  <2>1. /\ all \in Seq(Writes) /\ Len(all) = 8
        /\ \A i \in 1 .. 8 : all[i] = IF i <= 4 THEN a[i] ELSE b[i - 4]
    <3> HIDE DEF all
    <3> QED BY <1>4, <2>0
  <2> HIDE DEF all
  <2>2. /\ all[1] = a[1] /\ all[2] = a[2] /\ all[3] = a[3] /\ all[4] = a[4]
        /\ all[5] = b[1] /\ all[6] = b[2] /\ all[7] = b[3] /\ all[8] = b[4]
    BY <2>1
  <2> QED BY <2>1, <2>2 DEF all
<1> DEFINE ab == a \o b
           cd == c \o d
           ws == ab \o cd
<1>7. /\ ws \in Seq(Writes) /\ Len(ws) = 11
      /\ \A i \in 1 .. 8 : ws[i] = ab[i]
      /\ ws[9] = cd[1] /\ ws[10] = cd[2] /\ ws[11] = cd[3]
  <2> HIDE DEF ab, cd
  <2>1. ab \in Seq(Writes) /\ cd \in Seq(Writes) /\ Len(ab) = 8 /\ Len(cd) = 3
    BY <1>5, <1>6 DEF ab, cd
  <2>3. /\ ws \in Seq(Writes) /\ Len(ws) = Len(ab) + Len(cd)
        /\ \A i \in 1 .. Len(ab) + Len(cd) :
             ws[i] = IF i <= Len(ab) THEN ab[i] ELSE cd[i - Len(ab)]
    BY <2>1, ScriptsJoined, Zenon
  <2>2. /\ ws \in Seq(Writes) /\ Len(ws) = 11
        /\ \A i \in 1 .. 11 : ws[i] = IF i <= 8 THEN ab[i] ELSE cd[i - 8]
    <3> HIDE DEF ws
    <3> QED BY <2>1, <2>3
  <2> HIDE DEF ws
  <2> QED BY <2>2
<1>8. StepWrites(ws, p, q, r)
  <2> HIDE DEF ws
  <2> QED BY <1>4, <1>5, <1>6, <1>7 DEF StepWrites
<1> QED BY <1>2, <1>8 DEF p, q, r

(* Each pin is written once.                                                *)
EachOnce(ws, p, q, r) ==
  /\ OnlyAt(Modes(ws, <<p, "high">>), 11, 3)
  /\ OnlyAt(Bits(ws, <<p, "high">>), 11, 4)
  /\ OnlyAt(Bits(ws, <<p, "low">>), 11, 2)
  /\ OnlyAt(Modes(ws, <<q, "high">>), 11, 7)
  /\ OnlyAt(Bits(ws, <<q, "high">>), 11, 8)
  /\ OnlyAt(Modes(ws, <<q, "low">>), 11, 5)
  /\ OnlyAt(Bits(ws, <<q, "low">>), 11, 6)
  /\ OnlyAt(Modes(ws, <<r, "high">>), 11, 11)
  /\ OnlyAt(Bits(ws, <<r, "low">>), 11, 10)
  /\ Modes(ws, <<p, "high">>)[3] = "output" /\ Bits(ws, <<p, "high">>)[4] = "reset"
  /\ Bits(ws, <<p, "low">>)[2] = "reset" /\ Modes(ws, <<q, "high">>)[7] = "output"
  /\ Bits(ws, <<q, "high">>)[8] = "reset" /\ Modes(ws, <<q, "low">>)[5] = "output"
  /\ Bits(ws, <<q, "low">>)[6] = "set" /\ Modes(ws, <<r, "high">>)[11] = "alternate"
  /\ Bits(ws, <<r, "low">>)[10] = "reset"

LEMMA ScriptRead ==
  ASSUME NEW p \in Phases, NEW q \in Phases, NEW r \in Phases, p # q, q # r, r # p,
         NEW ws, StepWrites(ws, p, q, r)
  PROVE  EachOnce(ws, p, q, r)
<1>1. \A i \in 1 .. 11 : i \in {1, 2, 3, 4, 5, 6, 7, 8, 9, 10, 11}
  BY SMT
<1>2. \A x, i : i \in 1 .. 11 =>
          /\ Modes(ws, x)[i] = IF ws[i].pin = x THEN ws[i].mode ELSE "same"
          /\ Bits(ws, x)[i] = IF ws[i].pin = x THEN ws[i].bit ELSE "same"
  BY DEF Modes, Bits, StepWrites
<1>0. /\ ws[1].pin = <<p, "low">> /\ ws[1].mode = "output" /\ ws[1].bit = "same"
      /\ ws[2].pin = <<p, "low">> /\ ws[2].mode = "same" /\ ws[2].bit = "reset"
      /\ ws[3].pin = <<p, "high">> /\ ws[3].mode = "output" /\ ws[3].bit = "same"
      /\ ws[4].pin = <<p, "high">> /\ ws[4].mode = "same" /\ ws[4].bit = "reset"
      /\ ws[5].pin = <<q, "low">> /\ ws[5].mode = "output" /\ ws[5].bit = "same"
      /\ ws[6].pin = <<q, "low">> /\ ws[6].mode = "same" /\ ws[6].bit = "set"
      /\ ws[7].pin = <<q, "high">> /\ ws[7].mode = "output" /\ ws[7].bit = "same"
      /\ ws[8].pin = <<q, "high">> /\ ws[8].mode = "same" /\ ws[8].bit = "reset"
      /\ ws[9].pin = <<r, "low">> /\ ws[9].mode = "output" /\ ws[9].bit = "same"
      /\ ws[10].pin = <<r, "low">> /\ ws[10].mode = "same" /\ ws[10].bit = "reset"
      /\ ws[11].pin = <<r, "high">> /\ ws[11].mode = "alternate" /\ ws[11].bit = "same"
  BY DEF StepWrites, Mode, Low, High
<1>3. /\ Modes(ws, <<p, "high">>)[3] = "output" /\ Bits(ws, <<p, "high">>)[4] = "reset"
      /\ Bits(ws, <<p, "low">>)[2] = "reset" /\ Modes(ws, <<q, "high">>)[7] = "output"
      /\ Bits(ws, <<q, "high">>)[8] = "reset" /\ Modes(ws, <<q, "low">>)[5] = "output"
      /\ Bits(ws, <<q, "low">>)[6] = "set" /\ Modes(ws, <<r, "high">>)[11] = "alternate"
      /\ Bits(ws, <<r, "low">>)[10] = "reset"
  BY <1>0, <1>2
<1>4. ASSUME NEW i \in 1 .. 11
      PROVE  /\ i # 3 => Modes(ws, <<p, "high">>)[i] = "same"
             /\ i # 4 => Bits(ws, <<p, "high">>)[i] = "same"
             /\ i # 2 => Bits(ws, <<p, "low">>)[i] = "same"
  BY <1>0, <1>1, <1>2
<1>5. ASSUME NEW i \in 1 .. 11
      PROVE  /\ i # 7 => Modes(ws, <<q, "high">>)[i] = "same"
             /\ i # 8 => Bits(ws, <<q, "high">>)[i] = "same"
             /\ i # 5 => Modes(ws, <<q, "low">>)[i] = "same"
             /\ i # 6 => Bits(ws, <<q, "low">>)[i] = "same"
  BY <1>0, <1>1, <1>2
<1>6. ASSUME NEW i \in 1 .. 11
      PROVE  /\ i # 11 => Modes(ws, <<r, "high">>)[i] = "same"
             /\ i # 10 => Bits(ws, <<r, "low">>)[i] = "same"
  BY <1>0, <1>1, <1>2
<1> QED BY <1>3, <1>4, <1>5, <1>6 DEF OnlyAt, EachOnce

(* What is known of its pins while a step is written, and when it is.           *)
LEMMA ScriptEffect ==
  ASSUME NEW p \in Phases, NEW q \in Phases, NEW r \in Phases, p # q, q # r, r # p,
         NEW ps \in [Pins -> PinStates], NEW ws, StepWrites(ws, p, q, r)
  PROVE  /\ RestAtEnd(ps, ws, p, q, r) /\ SteppedAtEnd(ps, ws, p, q, r)
         /\ (/\ ~(ps[<<p, "high">>].mode = "alternate" /\ ps[<<p, "low">>].set)
             /\ ps[<<q, "high">>].mode # "alternate" /\ ~ps[<<r, "low">>].set)
            => \A k \in 0 .. Len(ws) : ApartBy(ps, ws, k)
<1>0. EachOnce(ws, p, q, r)
  BY ScriptRead, Zenon
<1>1. Len(ws) = 11
  BY DEF StepWrites
<1>2. ASSUME NEW k \in 0 .. 11, NEW mode \in {"output", "alternate"}
      PROVE  /\ ModeBy(ps, ws, <<p, "high">>, mode, k) <=>
                  IF k < 3 THEN ps[<<p, "high">>].mode = mode ELSE "output" = mode
             /\ ModeBy(ps, ws, <<q, "high">>, mode, k) <=>
                  IF k < 7 THEN ps[<<q, "high">>].mode = mode ELSE "output" = mode
             /\ ModeBy(ps, ws, <<q, "low">>, mode, k) <=>
                  IF k < 5 THEN ps[<<q, "low">>].mode = mode ELSE "output" = mode
             /\ ModeBy(ps, ws, <<r, "high">>, mode, k) <=>
                  IF k < 11 THEN ps[<<r, "high">>].mode = mode ELSE "alternate" = mode
  <2>1. mode # "same" /\ "output" # "same" /\ "alternate" # "same"
        /\ 3 \in 1 .. 11 /\ 7 \in 1 .. 11 /\ 5 \in 1 .. 11 /\ 11 \in 1 .. 11 /\ 11 \in Nat
    OBVIOUS
  <2>2. ModeBy(ps, ws, <<p, "high">>, mode, k) <=>
          IF k < 3 THEN ps[<<p, "high">>].mode = mode ELSE "output" = mode
    <3> DEFINE es == Modes(ws, <<p, "high">>)
    <3>1. OnlyAt(es, 11, 3) /\ es[3] = "output"
      BY <1>0 DEF EachOnce
    <3> HIDE DEF es
    <3>2. ComesTo(ps[<<p, "high">>].mode, es, mode, k) <=>
            IF k < 3 THEN ps[<<p, "high">>].mode = mode ELSE es[3] = mode
      BY <2>1, <3>1, WrittenOnce
    <3> QED BY <3>1, <3>2 DEF ModeBy, es
  <2>3. ModeBy(ps, ws, <<q, "high">>, mode, k) <=>
          IF k < 7 THEN ps[<<q, "high">>].mode = mode ELSE "output" = mode
    <3> DEFINE es == Modes(ws, <<q, "high">>)
    <3>1. OnlyAt(es, 11, 7) /\ es[7] = "output"
      BY <1>0 DEF EachOnce
    <3> HIDE DEF es
    <3>2. ComesTo(ps[<<q, "high">>].mode, es, mode, k) <=>
            IF k < 7 THEN ps[<<q, "high">>].mode = mode ELSE es[7] = mode
      BY <2>1, <3>1, WrittenOnce
    <3> QED BY <3>1, <3>2 DEF ModeBy, es
  <2>4. ModeBy(ps, ws, <<q, "low">>, mode, k) <=>
          IF k < 5 THEN ps[<<q, "low">>].mode = mode ELSE "output" = mode
    <3> DEFINE es == Modes(ws, <<q, "low">>)
    <3>1. OnlyAt(es, 11, 5) /\ es[5] = "output"
      BY <1>0 DEF EachOnce
    <3> HIDE DEF es
    <3>2. ComesTo(ps[<<q, "low">>].mode, es, mode, k) <=>
            IF k < 5 THEN ps[<<q, "low">>].mode = mode ELSE es[5] = mode
      BY <2>1, <3>1, WrittenOnce
    <3> QED BY <3>1, <3>2 DEF ModeBy, es
  <2>5. ModeBy(ps, ws, <<r, "high">>, mode, k) <=>
          IF k < 11 THEN ps[<<r, "high">>].mode = mode ELSE "alternate" = mode
    <3> DEFINE es == Modes(ws, <<r, "high">>)
    <3>1. OnlyAt(es, 11, 11) /\ es[11] = "alternate"
      BY <1>0 DEF EachOnce
    <3> HIDE DEF es
    <3>2. ComesTo(ps[<<r, "high">>].mode, es, mode, k) <=>
            IF k < 11 THEN ps[<<r, "high">>].mode = mode ELSE es[11] = mode
      BY <2>1, <3>1, WrittenOnce
    <3> QED BY <3>1, <3>2 DEF ModeBy, es
  <2> QED BY <2>2, <2>3, <2>4, <2>5
<1>3. ASSUME NEW x \in Pins
      PROVE  BitOf(ps[x]) = "set" <=> ps[x].set
  BY DEF BitOf, PinStates
<1>4. /\ <<p, "high">> \in Pins /\ <<p, "low">> \in Pins /\ <<q, "high">> \in Pins
      /\ <<q, "low">> \in Pins /\ <<r, "high">> \in Pins /\ <<r, "low">> \in Pins
  BY DEF Pins
<1>5. ASSUME NEW k \in 0 .. 11
      PROVE  /\ SetBy(ps, ws, <<p, "high">>, k) <=> k < 4 /\ ps[<<p, "high">>].set
             /\ SetBy(ps, ws, <<p, "low">>, k) <=> k < 2 /\ ps[<<p, "low">>].set
             /\ SetBy(ps, ws, <<q, "high">>, k) <=> k < 8 /\ ps[<<q, "high">>].set
             /\ SetBy(ps, ws, <<q, "low">>, k) <=> k >= 6 \/ ps[<<q, "low">>].set
             /\ SetBy(ps, ws, <<r, "low">>, k) <=> k < 10 /\ ps[<<r, "low">>].set
  <2>1. "set" # "same" /\ "reset" # "same" /\ "reset" # "set"
        /\ 4 \in 1 .. 11 /\ 2 \in 1 .. 11 /\ 8 \in 1 .. 11 /\ 6 \in 1 .. 11
        /\ 10 \in 1 .. 11 /\ 11 \in Nat
    OBVIOUS
  <2>2. SetBy(ps, ws, <<p, "high">>, k) <=> k < 4 /\ ps[<<p, "high">>].set
    <3> DEFINE es == Bits(ws, <<p, "high">>)
    <3>1. OnlyAt(es, 11, 4) /\ es[4] = "reset"
      BY <1>0 DEF EachOnce
    <3> HIDE DEF es
    <3>2. ComesTo(BitOf(ps[<<p, "high">>]), es, "set", k) <=>
            IF k < 4 THEN BitOf(ps[<<p, "high">>]) = "set" ELSE es[4] = "set"
      BY <2>1, <3>1, WrittenOnce
    <3> QED BY <1>3, <1>4, <2>1, <3>1, <3>2 DEF SetBy, es
  <2>3. SetBy(ps, ws, <<p, "low">>, k) <=> k < 2 /\ ps[<<p, "low">>].set
    <3> DEFINE es == Bits(ws, <<p, "low">>)
    <3>1. OnlyAt(es, 11, 2) /\ es[2] = "reset"
      BY <1>0 DEF EachOnce
    <3> HIDE DEF es
    <3>2. ComesTo(BitOf(ps[<<p, "low">>]), es, "set", k) <=>
            IF k < 2 THEN BitOf(ps[<<p, "low">>]) = "set" ELSE es[2] = "set"
      BY <2>1, <3>1, WrittenOnce
    <3> QED BY <1>3, <1>4, <2>1, <3>1, <3>2 DEF SetBy, es
  <2>4. SetBy(ps, ws, <<q, "high">>, k) <=> k < 8 /\ ps[<<q, "high">>].set
    <3> DEFINE es == Bits(ws, <<q, "high">>)
    <3>1. OnlyAt(es, 11, 8) /\ es[8] = "reset"
      BY <1>0 DEF EachOnce
    <3> HIDE DEF es
    <3>2. ComesTo(BitOf(ps[<<q, "high">>]), es, "set", k) <=>
            IF k < 8 THEN BitOf(ps[<<q, "high">>]) = "set" ELSE es[8] = "set"
      BY <2>1, <3>1, WrittenOnce
    <3> QED BY <1>3, <1>4, <2>1, <3>1, <3>2 DEF SetBy, es
  <2>5. SetBy(ps, ws, <<q, "low">>, k) <=> k >= 6 \/ ps[<<q, "low">>].set
    <3> DEFINE es == Bits(ws, <<q, "low">>)
    <3>1. OnlyAt(es, 11, 6) /\ es[6] = "set"
      BY <1>0 DEF EachOnce
    <3> HIDE DEF es
    <3>2. ComesTo(BitOf(ps[<<q, "low">>]), es, "set", k) <=>
            IF k < 6 THEN BitOf(ps[<<q, "low">>]) = "set" ELSE es[6] = "set"
      BY <2>1, <3>1, WrittenOnce
    <3>3. k < 6 <=> ~(k >= 6)
      BY SMT
    <3> QED BY <1>3, <1>4, <2>1, <3>1, <3>2, <3>3 DEF SetBy, es
  <2>6. SetBy(ps, ws, <<r, "low">>, k) <=> k < 10 /\ ps[<<r, "low">>].set
    <3> DEFINE es == Bits(ws, <<r, "low">>)
    <3>1. OnlyAt(es, 11, 10) /\ es[10] = "reset"
      BY <1>0 DEF EachOnce
    <3> HIDE DEF es
    <3>2. ComesTo(BitOf(ps[<<r, "low">>]), es, "set", k) <=>
            IF k < 10 THEN BitOf(ps[<<r, "low">>]) = "set" ELSE es[10] = "set"
      BY <2>1, <3>1, WrittenOnce
    <3> QED BY <1>3, <1>4, <2>1, <3>1, <3>2 DEF SetBy, es
  <2> QED BY <2>2, <2>3, <2>4, <2>5, <2>6
<1>6. 11 \in 0 .. 11 /\ "output" # "alternate"
  OBVIOUS
<1>7. RestAtEnd(ps, ws, p, q, r)
  BY <1>1, <1>2, <1>5, <1>6 DEF RestAtEnd
<1>8. SteppedAtEnd(ps, ws, p, q, r)
  BY <1>1, <1>2, <1>5, <1>6 DEF SteppedAtEnd
<1>9. ASSUME ~(ps[<<p, "high">>].mode = "alternate" /\ ps[<<p, "low">>].set),
             ps[<<q, "high">>].mode # "alternate", ~ps[<<r, "low">>].set,
             NEW k \in 0 .. 11
      PROVE  ApartBy(ps, ws, k)
  <2>1. \A x \in Phases : x = p \/ x = q \/ x = r
    BY DEF Phases
  <2>2. ~(ModeBy(ps, ws, <<p, "high">>, "alternate", k) /\ SetBy(ps, ws, <<p, "low">>, k))
    BY <1>2, <1>5, <1>6, <1>9, SMT
  <2>3. ~ModeBy(ps, ws, <<q, "high">>, "alternate", k)
    BY <1>2, <1>6, <1>9
  <2>4. ~SetBy(ps, ws, <<r, "low">>, k)
    BY <1>5, <1>9
  <2> QED BY <2>1, <2>2, <2>3, <2>4 DEF ApartBy
<1> QED BY <1>1, <1>7, <1>8, <1>9

-----------------------------------------------------------------------------
(* The end of the tune.                                                      *)
LastAt(es, n, at) ==
  /\ n \in Nat /\ at \in 1 .. n /\ es[at] # "same"
  /\ \A i \in at + 1 .. n : es[i] = "same"

LEMMA LastWritten ==
  ASSUME NEW old, NEW es, NEW n, NEW at, LastAt(es, n, at), NEW value, value # "same"
  PROVE  ComesTo(old, es, value, n) <=> es[at] = value
<1> USE DEF LastAt
<1>1. ~\A i \in 1 .. n : es[i] = "same"
  OBVIOUS
<1>2. ASSUME NEW i \in 1 .. n, es[i] = value, \A j \in i + 1 .. n : es[j] = "same"
      PROVE  i = at
  <2>1. CASE i < at
    <3>1. at \in i + 1 .. n
      BY <2>1, SMT
    <3> QED BY <1>2, <3>1
  <2>2. CASE i > at
    <3>1. i \in at + 1 .. n
      BY <2>2, SMT
    <3> QED BY <1>2, <3>1
  <2> QED BY <2>1, <2>2, SMT
<1> QED BY <1>1, <1>2, Zenon DEF ComesTo

FloatWrites(ws, p) ==
  /\ ws \in Seq(Writes) /\ Len(ws) = 4
  /\ ws[1] = Mode(p, "low", "output") /\ ws[2] = Low(p, "low")
  /\ ws[3] = Mode(p, "high", "output") /\ ws[4] = Low(p, "high")

LEMMA PhaseOff ==
  ASSUME NEW p \in Phases, NEW ws, FloatWrites(ws, p), NEW x \in Pins, x[1] = p
  PROVE  /\ \E at \in 1 .. 4 :
              /\ ws[at].pin = x /\ ws[at].mode = "output"
              /\ \A i \in at + 1 .. 4 : ws[i].pin = x => ws[i].mode = "same"
         /\ \E at \in 1 .. 4 :
              /\ ws[at].pin = x /\ ws[at].bit = "reset"
              /\ \A i \in at + 1 .. 4 : ws[i].pin = x => ws[i].bit = "same"
<1>1. /\ ws[1].pin = <<p, "low">> /\ ws[1].mode = "output" /\ ws[1].bit = "same"
      /\ ws[2].pin = <<p, "low">> /\ ws[2].mode = "same" /\ ws[2].bit = "reset"
      /\ ws[3].pin = <<p, "high">> /\ ws[3].mode = "output" /\ ws[3].bit = "same"
      /\ ws[4].pin = <<p, "high">> /\ ws[4].mode = "same" /\ ws[4].bit = "reset"
  BY DEF FloatWrites, Mode, Low, High
<1>2. x = <<p, "low">> \/ x = <<p, "high">>
  BY DEF Pins
<1>3. /\ \A i \in 1 + 1 .. 4 : i \in {2, 3, 4}
      /\ \A i \in 2 + 1 .. 4 : i \in {3, 4}
      /\ \A i \in 3 + 1 .. 4 : i = 4
      /\ \A i \in 4 + 1 .. 4 : FALSE
      /\ 1 \in 1 .. 4 /\ 2 \in 1 .. 4 /\ 3 \in 1 .. 4 /\ 4 \in 1 .. 4
  BY SMT
<1>4. CASE x = <<p, "low">>
  <2>1. /\ ws[1].pin = x /\ ws[1].mode = "output"
        /\ \A i \in 1 + 1 .. 4 : ws[i].pin = x => ws[i].mode = "same"
    BY <1>1, <1>3, <1>4
  <2>2. /\ ws[2].pin = x /\ ws[2].bit = "reset"
        /\ \A i \in 2 + 1 .. 4 : ws[i].pin = x => ws[i].bit = "same"
    BY <1>1, <1>3, <1>4
  <2> QED BY <1>3, <2>1, <2>2
<1>5. CASE x = <<p, "high">>
  <2>1. /\ ws[3].pin = x /\ ws[3].mode = "output"
        /\ \A i \in 3 + 1 .. 4 : ws[i].pin = x => ws[i].mode = "same"
    BY <1>1, <1>3, <1>5
  <2>2. /\ ws[4].pin = x /\ ws[4].bit = "reset"
        /\ \A i \in 4 + 1 .. 4 : ws[i].pin = x => ws[i].bit = "same"
    BY <1>1, <1>3, <1>5
  <2> QED BY <1>3, <2>1, <2>2
<1> QED BY <1>2, <1>4, <1>5

(* What comes before and what comes after but does not touch the pin is the same.  *)
SwitchesOff(ws, x) ==
  /\ \E at \in 1 .. Len(ws) :
       /\ ws[at].pin = x /\ ws[at].mode = "output"
       /\ \A i \in at + 1 .. Len(ws) : ws[i].pin = x => ws[i].mode = "same"
  /\ \E at \in 1 .. Len(ws) :
       /\ ws[at].pin = x /\ ws[at].bit = "reset"
       /\ \A i \in at + 1 .. Len(ws) : ws[i].pin = x => ws[i].bit = "same"

LEMMA Joining ==
  ASSUME NEW a \in Seq(Writes), NEW b \in Seq(Writes)
  PROVE  /\ a \o b \in Seq(Writes) /\ Len(a) \in Nat /\ Len(b) \in Nat
         /\ Len(a \o b) = Len(a) + Len(b)
         /\ \A i \in 1 .. Len(a) + Len(b) :
              (a \o b)[i] = IF i <= Len(a) THEN a[i] ELSE b[i - Len(a)]
BY ScriptsJoined

LEMMA OffAfterward ==
  ASSUME NEW a \in Seq(Writes), NEW b \in Seq(Writes), NEW x, SwitchesOff(b, x)
  PROVE  SwitchesOff(a \o b, x)
<1> DEFINE ws == a \o b
           m == Len(a)
           n == Len(b)
<1>1. /\ ws \in Seq(Writes) /\ m \in Nat /\ n \in Nat /\ Len(ws) = m + n
      /\ \A i \in 1 .. m + n : ws[i] = IF i <= m THEN a[i] ELSE b[i - m]
  BY Joining, Zenon
<1> HIDE DEF ws, m
<1>2. \A i \in 1 .. n : m + i \in 1 .. Len(ws) /\ ws[m + i] = b[i]
  BY <1>1
<1>3. \A i \in 1 .. n : \A j \in (m + i) + 1 .. Len(ws) :
        j - m \in i + 1 .. n /\ ws[j] = b[j - m]
  BY <1>1
<1>4. \E at \in 1 .. Len(ws) :
        /\ ws[at].pin = x /\ ws[at].mode = "output"
        /\ \A i \in at + 1 .. Len(ws) : ws[i].pin = x => ws[i].mode = "same"
  <2>1. PICK at \in 1 .. n : /\ b[at].pin = x /\ b[at].mode = "output"
                             /\ \A i \in at + 1 .. n : b[i].pin = x => b[i].mode = "same"
    BY DEF SwitchesOff
  <2> QED BY <1>2, <1>3, <2>1
<1>5. \E at \in 1 .. Len(ws) :
        /\ ws[at].pin = x /\ ws[at].bit = "reset"
        /\ \A i \in at + 1 .. Len(ws) : ws[i].pin = x => ws[i].bit = "same"
  <2>1. PICK at \in 1 .. n : /\ b[at].pin = x /\ b[at].bit = "reset"
                             /\ \A i \in at + 1 .. n : b[i].pin = x => b[i].bit = "same"
    BY DEF SwitchesOff
  <2> QED BY <1>2, <1>3, <2>1
<1> QED BY <1>4, <1>5 DEF SwitchesOff, ws

LEMMA OffBeforehand ==
  ASSUME NEW a \in Seq(Writes), NEW b \in Seq(Writes), NEW x, SwitchesOff(a, x),
         \A i \in 1 .. Len(b) : b[i].pin # x
  PROVE  SwitchesOff(a \o b, x)
<1> DEFINE ws == a \o b
           m == Len(a)
           n == Len(b)
<1>1. /\ ws \in Seq(Writes) /\ m \in Nat /\ n \in Nat /\ Len(ws) = m + n
      /\ \A i \in 1 .. m + n : ws[i] = IF i <= m THEN a[i] ELSE b[i - m]
  BY Joining, Zenon
<1> HIDE DEF ws, m
<1>2. \A i \in 1 .. m : i \in 1 .. Len(ws) /\ ws[i] = a[i]
  BY <1>1
<1>3. ASSUME NEW i \in 1 .. m, NEW j \in i + 1 .. Len(ws), ws[j].pin = x
      PROVE  j \in i + 1 .. m /\ ws[j] = a[j]
  <2>1. j \in 1 .. m + n
    BY <1>1, <1>3
  <2>2. CASE j <= m
    BY <1>1, <2>1, <2>2
  <2>3. CASE j > m
    <3>1. j - m \in 1 .. n /\ ws[j] = b[j - m]
      BY <1>1, <2>1, <2>3
    <3> QED BY <1>3, <3>1
  <2> QED BY <1>1, <2>1, <2>2, <2>3
<1>4. \E at \in 1 .. Len(ws) :
        /\ ws[at].pin = x /\ ws[at].mode = "output"
        /\ \A i \in at + 1 .. Len(ws) : ws[i].pin = x => ws[i].mode = "same"
  <2>1. PICK at \in 1 .. m : /\ a[at].pin = x /\ a[at].mode = "output"
                             /\ \A i \in at + 1 .. m : a[i].pin = x => a[i].mode = "same"
    BY DEF SwitchesOff, m
  <2>2. \A i \in at + 1 .. Len(ws) : ws[i].pin = x => ws[i].mode = "same"
    BY <1>3, <2>1
  <2> QED BY <1>2, <2>1, <2>2
<1>5. \E at \in 1 .. Len(ws) :
        /\ ws[at].pin = x /\ ws[at].bit = "reset"
        /\ \A i \in at + 1 .. Len(ws) : ws[i].pin = x => ws[i].bit = "same"
  <2>1. PICK at \in 1 .. m : /\ a[at].pin = x /\ a[at].bit = "reset"
                             /\ \A i \in at + 1 .. m : a[i].pin = x => a[i].bit = "same"
    BY DEF SwitchesOff, m
  <2>2. \A i \in at + 1 .. Len(ws) : ws[i].pin = x => ws[i].bit = "same"
    BY <1>3, <2>1
  <2> QED BY <1>2, <2>1, <2>2
<1> QED BY <1>4, <1>5 DEF SwitchesOff, ws

LEMMA TuneEndsOff ==
  ASSUME NEW ps \in [Pins -> PinStates]
  PROVE  OffAtEnd(ps, Tune)
<1> DEFINE a == PhaseFloat("A")
           b == PhaseFloat("B")
           c == PhaseFloat("C")
           notes == (ComStep(3) \o ComStep(5)) \o ComStep(6)
<1>1. FloatWrites(a, "A") /\ FloatWrites(b, "B") /\ FloatWrites(c, "C")
  <2>1. ASSUME NEW p \in Phases
        PROVE  FloatWrites(PhaseFloat(p), p)
    <3>1. PhaseFloat(p) \in Seq(Writes)
      BY PhasesTyped
    <3>2. /\ Len(PhaseFloat(p)) = 4
          /\ PhaseFloat(p)[1] = Mode(p, "low", "output")
          /\ PhaseFloat(p)[2] = Low(p, "low")
          /\ PhaseFloat(p)[3] = Mode(p, "high", "output")
          /\ PhaseFloat(p)[4] = Low(p, "high")
      BY DEF PhaseFloat
    <3> QED BY <3>1, <3>2 DEF FloatWrites
  <2> QED BY <2>1 DEF Phases
<1>2. notes \in Seq(Writes)
  BY ComStepTyped
<1>3. Tune = notes \o ((a \o b) \o c)
  <2>1. ComStep(3) \in Seq(Writes) /\ ComStep(5) \in Seq(Writes) /\ ComStep(6) \in Seq(Writes)
    BY ComStepTyped
  <2> QED BY <2>1, <1>1 DEF Tune, AllOff, FloatWrites
<1> HIDE DEF a, b, c, notes
<1>4. a \in Seq(Writes) /\ b \in Seq(Writes) /\ c \in Seq(Writes)
      /\ a \o b \in Seq(Writes) /\ (a \o b) \o c \in Seq(Writes)
      /\ Len(a) = 4 /\ Len(b) = 4 /\ Len(c) = 4
  BY <1>1 DEF FloatWrites
<1>5. ASSUME NEW p \in Phases, NEW ws, FloatWrites(ws, p)
      PROVE  /\ \A x \in Pins : x[1] = p => SwitchesOff(ws, x)
             /\ \A i \in 1 .. 4 : ws[i].pin[1] = p
  <2>1. \A x \in Pins : x[1] = p => SwitchesOff(ws, x)
    BY <1>5, PhaseOff DEF SwitchesOff, FloatWrites
  <2>2. ASSUME NEW i \in 1 .. 4 PROVE ws[i].pin[1] = p
    <3>1. i = 1 \/ i = 2 \/ i = 3 \/ i = 4
      BY SMT
    <3>2. ws[1].pin = <<p, "low">> /\ ws[2].pin = <<p, "low">>
          /\ ws[3].pin = <<p, "high">> /\ ws[4].pin = <<p, "high">>
      BY <1>5 DEF FloatWrites, Mode, Low
    <3>3. <<p, "low">>[1] = p /\ <<p, "high">>[1] = p
      OBVIOUS
    <3> QED BY <3>1, <3>2, <3>3
  <2> QED BY <2>1, <2>2
<1>6. "A" \in Phases /\ "B" \in Phases /\ "C" \in Phases /\ "A" # "B" /\ "B" # "C" /\ "A" # "C"
  BY DEF Phases
<1>7. ASSUME NEW x \in Pins
      PROVE  SwitchesOff((a \o b) \o c, x)
  <2>1. x[1] = "A" \/ x[1] = "B" \/ x[1] = "C"
    BY DEF Pins, Phases
  <2>2. CASE x[1] = "A"
    <3>1. /\ SwitchesOff(a, x)
          /\ \A i \in 1 .. Len(b) : b[i].pin # x
          /\ \A i \in 1 .. Len(c) : c[i].pin # x
      BY <1>1, <1>4, <1>5, <1>6, <2>2
    <3> QED BY <1>4, <3>1, OffBeforehand
  <2>3. CASE x[1] = "B"
    <3>1. SwitchesOff(b, x) /\ \A i \in 1 .. Len(c) : c[i].pin # x
      BY <1>1, <1>4, <1>5, <1>6, <2>3
    <3>2. SwitchesOff(a \o b, x)
      BY <1>4, <3>1, OffAfterward
    <3> QED BY <1>4, <3>1, <3>2, OffBeforehand
  <2>4. CASE x[1] = "C"
    <3>1. SwitchesOff(c, x)
      BY <1>1, <1>5, <1>6, <2>4
    <3> QED BY <1>4, <3>1, OffAfterward
  <2> QED BY <2>1, <2>2, <2>3, <2>4
<1>8. ASSUME NEW x \in Pins
      PROVE  SwitchesOff(Tune, x)
  BY <1>2, <1>3, <1>4, <1>7, OffAfterward
<1>9. ASSUME NEW x \in Pins
      PROVE  ModeBy(ps, Tune, x, "output", Len(Tune)) /\ ~SetBy(ps, Tune, x, Len(Tune))
  <2> DEFINE ws == Tune
             n == Len(ws)
  <2>1. n \in Nat
    BY TuneTyped
  <2>2. SwitchesOff(ws, x)
    BY <1>8
  <2> HIDE DEF ws
  <2>3. /\ \A i \in 1 .. n :
             /\ Modes(ws, x)[i] = IF ws[i].pin = x THEN ws[i].mode ELSE "same"
             /\ Bits(ws, x)[i] = IF ws[i].pin = x THEN ws[i].bit ELSE "same"
    BY DEF Modes, Bits
  <2>4. ModeBy(ps, ws, x, "output", n)
    <3>1. PICK at \in 1 .. n :
            /\ ws[at].pin = x /\ ws[at].mode = "output"
            /\ \A i \in at + 1 .. n : ws[i].pin = x => ws[i].mode = "same"
      BY <2>2 DEF SwitchesOff
    <3> DEFINE es == Modes(ws, x)
    <3>2. LastAt(es, n, at) /\ es[at] = "output"
      BY <2>1, <2>3, <3>1 DEF LastAt
    <3> HIDE DEF es
    <3>3. ComesTo(ps[x].mode, es, "output", n)
      BY <3>2, LastWritten
    <3> QED BY <3>3 DEF ModeBy, es
  <2>5. ~SetBy(ps, ws, x, n)
    <3>1. PICK at \in 1 .. n :
            /\ ws[at].pin = x /\ ws[at].bit = "reset"
            /\ \A i \in at + 1 .. n : ws[i].pin = x => ws[i].bit = "same"
      BY <2>2 DEF SwitchesOff
    <3> DEFINE es == Bits(ws, x)
    <3>2. LastAt(es, n, at) /\ es[at] = "reset"
      BY <2>1, <2>3, <3>1 DEF LastAt
    <3> HIDE DEF es
    <3>3. ~ComesTo(BitOf(ps[x]), es, "set", n)
      BY <3>2, LastWritten
    <3> QED BY <3>3 DEF SetBy, es
  <2> QED BY <2>4, <2>5 DEF ws
<1> QED BY <1>9 DEF OffAtEnd

-----------------------------------------------------------------------------
(* A write moves every statement nearer by one.                              *)
LEMMA WriteMovesNearer ==
  ASSUME NEW ps \in [Pins -> PinStates], NEW ws \in Seq(Writes), ws # <<>>
  PROVE  /\ OffAtEnd(After(ps, Head(ws)), Tail(ws)) <=> OffAtEnd(ps, ws)
         /\ \A p \in Phases, q \in Phases, r \in Phases :
              /\ SteppedAtEnd(After(ps, Head(ws)), Tail(ws), p, q, r)
                   <=> SteppedAtEnd(ps, ws, p, q, r)
              /\ RestAtEnd(After(ps, Head(ws)), Tail(ws), p, q, r)
                   <=> RestAtEnd(ps, ws, p, q, r)
         /\ (\A k \in 0 .. Len(ws) : ApartBy(ps, ws, k))
              => \A k \in 0 .. Len(Tail(ws)) : ApartBy(After(ps, Head(ws)), Tail(ws), k)
<1> DEFINE new == After(ps, Head(ws))
           rest == Tail(ws)
           n == Len(rest)
<1>1. n \in Nat /\ Len(ws) = n + 1 /\ n \in 0 .. Len(ws) - 1 /\ n = Len(ws) - 1
  BY NextWritten, SMT
<1>2. ASSUME NEW x \in Pins, NEW k \in 0 .. n
      PROVE  /\ ModeBy(new, rest, x, "output", k) <=> ModeBy(ps, ws, x, "output", k + 1)
             /\ ModeBy(new, rest, x, "alternate", k) <=> ModeBy(ps, ws, x, "alternate", k + 1)
             /\ SetBy(new, rest, x, k) <=> SetBy(ps, ws, x, k + 1)
  <2>1. k \in 0 .. Len(ws) - 1
    BY <1>1
  <2> QED BY <2>1, PinMovesNearer, Zenon
<1> HIDE DEF new, rest
<1>3. ASSUME NEW x \in Pins
      PROVE  /\ ModeBy(new, rest, x, "output", n) <=> ModeBy(ps, ws, x, "output", Len(ws))
             /\ ModeBy(new, rest, x, "alternate", n) <=> ModeBy(ps, ws, x, "alternate", Len(ws))
             /\ SetBy(new, rest, x, n) <=> SetBy(ps, ws, x, Len(ws))
  <2>1. n \in 0 .. n /\ n + 1 = Len(ws)
    BY <1>1
  <2> HIDE DEF n
  <2> QED BY <1>2, <2>1
<1>4. \A p \in Phases : <<p, "high">> \in Pins /\ <<p, "low">> \in Pins
  BY DEF Pins
<1>5. OffAtEnd(new, rest) <=> OffAtEnd(ps, ws)
  BY <1>3 DEF OffAtEnd
<1>6. ASSUME NEW p \in Phases, NEW q \in Phases, NEW r \in Phases
      PROVE  /\ SteppedAtEnd(new, rest, p, q, r) <=> SteppedAtEnd(ps, ws, p, q, r)
             /\ RestAtEnd(new, rest, p, q, r) <=> RestAtEnd(ps, ws, p, q, r)
  <2>1. /\ ModeBy(new, rest, <<p, "high">>, "alternate", n)
             <=> ModeBy(ps, ws, <<p, "high">>, "alternate", Len(ws))
        /\ ModeBy(new, rest, <<q, "high">>, "alternate", n)
             <=> ModeBy(ps, ws, <<q, "high">>, "alternate", Len(ws))
        /\ ModeBy(new, rest, <<r, "high">>, "alternate", n)
             <=> ModeBy(ps, ws, <<r, "high">>, "alternate", Len(ws))
        /\ ModeBy(new, rest, <<p, "high">>, "output", n)
             <=> ModeBy(ps, ws, <<p, "high">>, "output", Len(ws))
        /\ ModeBy(new, rest, <<q, "high">>, "output", n)
             <=> ModeBy(ps, ws, <<q, "high">>, "output", Len(ws))
        /\ ModeBy(new, rest, <<q, "low">>, "output", n)
             <=> ModeBy(ps, ws, <<q, "low">>, "output", Len(ws))
    BY <1>3, <1>4, Zenon
  <2>2. /\ SetBy(new, rest, <<p, "high">>, n) <=> SetBy(ps, ws, <<p, "high">>, Len(ws))
        /\ SetBy(new, rest, <<q, "high">>, n) <=> SetBy(ps, ws, <<q, "high">>, Len(ws))
        /\ SetBy(new, rest, <<p, "low">>, n) <=> SetBy(ps, ws, <<p, "low">>, Len(ws))
        /\ SetBy(new, rest, <<q, "low">>, n) <=> SetBy(ps, ws, <<q, "low">>, Len(ws))
        /\ SetBy(new, rest, <<r, "low">>, n) <=> SetBy(ps, ws, <<r, "low">>, Len(ws))
    BY <1>3, <1>4, Zenon
  <2>3. SteppedAtEnd(new, rest, p, q, r) <=> SteppedAtEnd(ps, ws, p, q, r)
    BY <2>1, <2>2 DEF SteppedAtEnd
  <2>4. RestAtEnd(new, rest, p, q, r) <=> RestAtEnd(ps, ws, p, q, r)
    BY <2>1, <2>2 DEF RestAtEnd
  <2> QED BY <2>3, <2>4
<1>7. ASSUME \A k \in 0 .. Len(ws) : ApartBy(ps, ws, k), NEW k \in 0 .. n
      PROVE  ApartBy(new, rest, k)
  <2>1. k + 1 \in 0 .. Len(ws)
    BY <1>1
  <2>2. ApartBy(ps, ws, k + 1)
    BY <1>7, <2>1
  <2> QED BY <1>2, <1>4, <2>2 DEF ApartBy
<1> QED BY <1>5, <1>6, <1>7 DEF new, rest

(* With nothing to write, the pins are what they come to.                      *)
LEMMA NothingToWrite ==
  ASSUME NEW ps \in [Pins -> PinStates], NEW x \in Pins
  PROVE  /\ \A mode : ModeBy(ps, <<>>, x, mode, 0) <=> ps[x].mode = mode
         /\ SetBy(ps, <<>>, x, 0) <=> ps[x].set
         /\ Len(<<>>) = 0
<1>1. ~\E i \in 1 .. 0 : TRUE
  BY SMT
<1>2. ASSUME NEW old, NEW es, NEW value
      PROVE  ComesTo(old, es, value, 0) <=> old = value
  BY <1>1, Zenon DEF ComesTo
<1>3. BitOf(ps[x]) = "set" <=> ps[x].set
  BY DEF BitOf, PinStates
<1>4. SetBy(ps, <<>>, x, 0) <=> ps[x].set
  BY <1>2, <1>3, Zenon DEF SetBy
<1>5. \A mode : ModeBy(ps, <<>>, x, mode, 0) <=> ps[x].mode = mode
  BY <1>2, Zenon DEF ModeBy
<1>6. Len(<<>>) = 0
  BY SMT
<1> QED BY <1>4, <1>5, <1>6

Apart(ps) ==
  \A p \in Phases : ~(ps[<<p, "high">>].mode = "alternate" /\ ps[<<p, "low">>].set)

Rests(ps, p, q, r) ==
  /\ \A x \in {p, q} : ps[<<x, "high">>].mode # "alternate"
  /\ \A x \in {p, r} : ~ps[<<x, "low">>].set

LEMMA PinsAtRest ==
  ASSUME NEW ps \in [Pins -> PinStates]
  PROVE  /\ \A p \in Phases, q \in Phases, r \in Phases :
              RestAtEnd(ps, <<>>, p, q, r) <=> Rests(ps, p, q, r)
         /\ (\A k \in 0 .. Len(<<>>) : ApartBy(ps, <<>>, k)) <=> Apart(ps)
<1>1. \A x \in Pins : /\ ModeBy(ps, <<>>, x, "alternate", 0) <=> ps[x].mode = "alternate"
                      /\ SetBy(ps, <<>>, x, 0) <=> ps[x].set
  BY NothingToWrite, Zenon
<1>2. \A p \in Phases : <<p, "high">> \in Pins /\ <<p, "low">> \in Pins
  BY DEF Pins
<1>3. Len(<<>>) = 0 /\ \A k : k \in 0 .. 0 <=> k = 0
  BY SMT
<1>4. ASSUME NEW p \in Phases, NEW q \in Phases, NEW r \in Phases
      PROVE  RestAtEnd(ps, <<>>, p, q, r) <=> Rests(ps, p, q, r)
  <2>1. /\ ModeBy(ps, <<>>, <<p, "high">>, "alternate", 0) <=> ps[<<p, "high">>].mode = "alternate"
        /\ ModeBy(ps, <<>>, <<q, "high">>, "alternate", 0) <=> ps[<<q, "high">>].mode = "alternate"
        /\ SetBy(ps, <<>>, <<p, "low">>, 0) <=> ps[<<p, "low">>].set
        /\ SetBy(ps, <<>>, <<r, "low">>, 0) <=> ps[<<r, "low">>].set
    BY <1>1, <1>2, Zenon
  <2> QED BY <1>3, <2>1 DEF RestAtEnd, Rests
<1>5. ApartBy(ps, <<>>, 0) <=> Apart(ps)
  BY <1>1, <1>2, Zenon DEF ApartBy, Apart
<1> QED BY <1>3, <1>4, <1>5

(* A reset of bits leaves a bridge at rest so.                               *)
LEMMA ResetAtRest ==
  ASSUME pins \in [Pins -> PinStates], NEW S
  PROVE  /\ Reset(S) \in [Pins -> PinStates]
         /\ \A x \in Pins : /\ Reset(S)[x].mode = pins[x].mode
                            /\ Reset(S)[x].set => pins[x].set
                            /\ x \in S => ~Reset(S)[x].set
         /\ Apart(pins) => Apart(Reset(S))
         /\ \A p \in Phases, q \in Phases, r \in Phases :
              Rests(pins, p, q, r) => Rests(Reset(S), p, q, r)
<1> DEFINE new == Reset(S)
<1>1. new \in [Pins -> PinStates]
  BY ResetTyped
<1>2. ASSUME NEW x \in Pins
      PROVE  /\ new[x].mode = pins[x].mode /\ (new[x].set => pins[x].set)
             /\ (x \in S => ~new[x].set)
  <2>1. pins[x] \in PinStates
    OBVIOUS
  <2>2. new[x] = IF x \in S THEN [pins[x] EXCEPT !.set = FALSE] ELSE pins[x]
    BY DEF Reset
  <2> HIDE DEF new
  <2>3. CASE x \in S
    BY <2>1, <2>2, <2>3 DEF PinStates
  <2>4. CASE x \notin S
    BY <2>2, <2>4
  <2> QED BY <2>3, <2>4
<1> HIDE DEF new
<1>3. \A p \in Phases : <<p, "high">> \in Pins /\ <<p, "low">> \in Pins
  BY DEF Pins
<1>4. Apart(pins) => Apart(new)
  BY <1>2, <1>3 DEF Apart
<1>5. ASSUME NEW p \in Phases, NEW q \in Phases, NEW r \in Phases, Rests(pins, p, q, r)
      PROVE  Rests(new, p, q, r)
  BY <1>2, <1>3, <1>5 DEF Rests
<1> QED BY <1>1, <1>2, <1>4, <1>5 DEF new

(* The next step floats what was low, or drives what floated: the phase that     *)
(* comes under PWM was not low, and the one that goes low was not under PWM.      *)
LEMMA NeighboursFit ==
  ASSUME NEW step \in 1 .. 6, NEW forward \in BOOLEAN, NEW ps,
         Rests(ps, StepPhases[step][1], StepPhases[step][2], StepPhases[step][3])
  PROVE  LET next == StepPhases[NextStep(step, forward)]
         IN  ps[<<next[2], "high">>].mode # "alternate" /\ ~ps[<<next[3], "low">>].set
<1>1. CASE step = 1
  <2>1. NextStep(step, forward) \in {2, 6}
    BY <1>1, SMT DEF NextStep
  <2> QED BY <1>1, <2>1 DEF StepPhases, Rests
<1>2. CASE step = 2
  <2>1. NextStep(step, forward) \in {1, 3}
    BY <1>2, SMT DEF NextStep
  <2> QED BY <1>2, <2>1 DEF StepPhases, Rests
<1>3. CASE step = 3
  <2>1. NextStep(step, forward) \in {2, 4}
    BY <1>3, SMT DEF NextStep
  <2> QED BY <1>3, <2>1 DEF StepPhases, Rests
<1>4. CASE step = 4
  <2>1. NextStep(step, forward) \in {3, 5}
    BY <1>4, SMT DEF NextStep
  <2> QED BY <1>4, <2>1 DEF StepPhases, Rests
<1>5. CASE step = 5
  <2>1. NextStep(step, forward) \in {4, 6}
    BY <1>5, SMT DEF NextStep
  <2> QED BY <1>5, <2>1 DEF StepPhases, Rests
<1>6. CASE step = 6
  <2>1. NextStep(step, forward) \in {5, 1}
    BY <1>6, SMT DEF NextStep
  <2> QED BY <1>6, <2>1 DEF StepPhases, Rests
<1> QED BY <1>1, <1>2, <1>3, <1>4, <1>5, <1>6, SixSteps

-----------------------------------------------------------------------------
(* BridgeInv is inductive.  Its part about a bridge without enable pin has a     *)
(* name of its own.                                                         *)
NoEnablePin ==
  ~bridge_enable /\ stage # "tune" =>
    /\ \E step \in 1 .. 6 : Resting(step)
    /\ ~step_brakes =>
         /\ Resting(com_step)
         /\ \A k \in 0 .. Len(todo) : ApartBy(pins, todo, k)
    /\ stage = "run" /\ applied => \E step \in 1 .. 6 : Stepped(step)

PanicOpens ==
  /\ stage = "portA" /\ ~stepped_late =>
       todo = <<>> /\ \A x \in Pins \ PortB : ~pins[x].set
  /\ stage \in {"portB", "halted"} /\ ~stepped_late =>
       todo = <<>> /\ \A x \in Pins : ~pins[x].set

TuneOff ==
  /\ stage \in {"tune", "run"} => ~stepped_late
  /\ stage = "tune" => com_step = 1 /\ ~applied /\ OffAtEnd(pins, todo)

LEMMA InvInParts ==
  BridgeInv <=> BridgeTypeOK /\ TuneOff /\ PanicOpens /\ NoEnablePin
BY Zenon DEF BridgeInv, TuneOff, PanicOpens, NoEnablePin

LEMMA BridgeInitial == BridgeInit => BridgeInv
<1> SUFFICES ASSUME BridgeInit PROVE BridgeInv
  OBVIOUS
<1>1. BridgeTypeOK
  BY BridgeTypesInitial
<1>2. TuneOff /\ PanicOpens /\ NoEnablePin
  BY TuneEndsOff, PinsAtResetTyped DEF BridgeInit, TuneOff, PanicOpens, NoEnablePin
<1> QED BY <1>1, <1>2, InvInParts

(* A bridge that is all off rests as after any step.                          *)
LEMMA OffRests ==
  ASSUME NEW ps \in [Pins -> PinStates], OffAtEnd(ps, <<>>)
  PROVE  /\ \A x \in Pins : ps[x].mode = "output" /\ ~ps[x].set
         /\ \A step \in 1 .. 6 :
              RestAtEnd(ps, <<>>, StepPhases[step][1], StepPhases[step][2],
                        StepPhases[step][3])
         /\ \A k \in 0 .. Len(<<>>) : ApartBy(ps, <<>>, k)
<1>1. \A x \in Pins : ps[x].mode = "output" /\ ~ps[x].set
  <2> TAKE x \in Pins
  <2>1. ModeBy(ps, <<>>, x, "output", Len(<<>>)) /\ ~SetBy(ps, <<>>, x, Len(<<>>))
    BY Zenon DEF OffAtEnd
  <2>2. ModeBy(ps, <<>>, x, "output", 0) /\ ~SetBy(ps, <<>>, x, 0)
    BY <2>1, NothingToWrite
  <2> QED BY <2>2, NothingToWrite, Zenon
<1>2. \A p \in Phases : <<p, "high">> \in Pins /\ <<p, "low">> \in Pins
  BY DEF Pins
<1>3. ASSUME NEW p \in Phases, NEW q \in Phases, NEW r \in Phases
      PROVE  RestAtEnd(ps, <<>>, p, q, r)
  <2>1. Rests(ps, p, q, r)
    BY <1>1, <1>2 DEF Rests
  <2> QED BY <2>1, PinsAtRest, Zenon
<1>4. Apart(ps)
  BY <1>1, <1>2 DEF Apart
<1>5. \A k \in 0 .. Len(<<>>) : ApartBy(ps, <<>>, k)
  BY <1>4, PinsAtRest, Zenon
<1> QED BY <1>1, <1>3, <1>5, StepsApart

LEMMA EndTuneKeeps ==
  ASSUME BridgeInv, EndTune, BridgeTypeOK'
  PROVE  BridgeInv'
<1>1. pins \in [Pins -> PinStates] /\ com_step \in 1 .. 6 /\ 1 \in 1 .. 6
  BY DEF BridgeInv, BridgeTypeOK
<1>2. stage = "tune" /\ todo = <<>> /\ stage' = "run" /\ pins' = pins /\ todo' = todo
      /\ com_step' = com_step /\ applied' = applied /\ stepped_late' = stepped_late
      /\ bridge_enable' = bridge_enable /\ step_brakes' = step_brakes
  BY DEF EndTune, boardVars
<1>3. OffAtEnd(pins, <<>>) /\ ~stepped_late /\ ~applied
  BY <1>2 DEF BridgeInv
<1>4. /\ \A step \in 1 .. 6 : RestAtEnd(pins, <<>>, StepPhases[step][1],
                                        StepPhases[step][2], StepPhases[step][3])
      /\ \A k \in 0 .. Len(<<>>) : ApartBy(pins, <<>>, k)
  BY <1>1, <1>3, OffRests
<1>5. NoEnablePin'
  BY <1>1, <1>2, <1>3, <1>4, Zenon DEF NoEnablePin, Resting
<1>6. TuneOff' /\ PanicOpens'
  BY <1>2, <1>3 DEF TuneOff, PanicOpens
<1> QED BY <1>5, <1>6, InvInParts DEF BridgeInv, TuneOff, PanicOpens, NoEnablePin

LEMMA WriteKeeps ==
  ASSUME BridgeInv, WriteRegister, BridgeTypeOK'
  PROVE  BridgeInv'
<1>1. pins \in [Pins -> PinStates] /\ todo \in Seq(Writes) /\ todo # <<>>
  BY DEF BridgeInv, BridgeTypeOK, WriteRegister, Writes
<1>2. pins' = After(pins, Head(todo)) /\ todo' = Tail(todo)
      /\ stage' = stage /\ com_step' = com_step /\ applied' = applied
      /\ stepped_late' = stepped_late /\ bridge_enable' = bridge_enable
      /\ step_brakes' = step_brakes
  BY DEF WriteRegister, After, panicVars, boardVars
<1>3. /\ OffAtEnd(pins', todo') <=> OffAtEnd(pins, todo)
      /\ \A p \in Phases, q \in Phases, r \in Phases :
           /\ SteppedAtEnd(pins', todo', p, q, r) <=> SteppedAtEnd(pins, todo, p, q, r)
           /\ RestAtEnd(pins', todo', p, q, r) <=> RestAtEnd(pins, todo, p, q, r)
      /\ (\A k \in 0 .. Len(todo) : ApartBy(pins, todo, k))
           => \A k \in 0 .. Len(todo') : ApartBy(pins', todo', k)
  BY <1>1, <1>2, WriteMovesNearer, Zenon
<1>4. ASSUME NEW step \in 1 .. 6
      PROVE  (Stepped(step))' <=> Stepped(step)
  <2>1. SteppedAtEnd(pins', todo', StepPhases[step][1], StepPhases[step][2], StepPhases[step][3])
          <=> SteppedAtEnd(pins, todo, StepPhases[step][1], StepPhases[step][2], StepPhases[step][3])
    BY <1>3, StepsApart, Zenon
  <2> QED BY <2>1, Zenon DEF Stepped
<1>5. ASSUME NEW step \in 1 .. 6
      PROVE  (Resting(step))' <=> Resting(step)
  <2>1. RestAtEnd(pins', todo', StepPhases[step][1], StepPhases[step][2], StepPhases[step][3])
          <=> RestAtEnd(pins, todo, StepPhases[step][1], StepPhases[step][2], StepPhases[step][3])
    BY <1>3, StepsApart, Zenon
  <2> QED BY <2>1, Zenon DEF Resting
<1>6. Resting(com_step) => (Resting(com_step))'
  BY <1>2, <1>5, Zenon DEF BridgeInv, BridgeTypeOK
<1>7. NoEnablePin'
  BY <1>2, <1>3, <1>4, <1>5, <1>6, Zenon DEF BridgeInv, NoEnablePin
<1>8. TuneOff'
  BY <1>2, <1>3, Zenon DEF BridgeInv, TuneOff
<1>9. PanicOpens'
  BY <1>1, <1>2 DEF BridgeInv, PanicOpens
<1> QED BY <1>7, <1>8, <1>9, InvInParts DEF TuneOff, PanicOpens, NoEnablePin, BridgeInv

(* A handler that hands out a step's script: what the step leaves is known, and   *)
(* what it makes on the way if the pins fit it.                              *)
LEMMA StepHandedOut ==
  ASSUME BridgeTypeOK, ~bridge_enable, NEW step \in 1 .. 6
  PROVE  /\ RestAtEnd(pins, ComStep(step), StepPhases[step][1], StepPhases[step][2],
                      StepPhases[step][3])
         /\ SteppedAtEnd(pins, ComStep(step), StepPhases[step][1], StepPhases[step][2],
                         StepPhases[step][3])
         /\ (/\ Apart(pins)
             /\ pins[<<StepPhases[step][2], "high">>].mode # "alternate"
             /\ ~pins[<<StepPhases[step][3], "low">>].set)
            => \A k \in 0 .. Len(ComStep(step)) : ApartBy(pins, ComStep(step), k)
<1> DEFINE p == StepPhases[step][1]
           q == StepPhases[step][2]
           r == StepPhases[step][3]
           ws == ComStep(step)
<1>1. /\ p \in Phases /\ q \in Phases /\ r \in Phases
      /\ p # q /\ q # r /\ r # p
  BY StepsApart
<1>2. StepWrites(ws, p, q, r)
  BY StepScript
<1>3. pins \in [Pins -> PinStates]
  BY DEF BridgeTypeOK
<1> HIDE DEF p, q, r, ws
<1>4. /\ RestAtEnd(pins, ws, p, q, r) /\ SteppedAtEnd(pins, ws, p, q, r)
      /\ (/\ ~(pins[<<p, "high">>].mode = "alternate" /\ pins[<<p, "low">>].set)
          /\ pins[<<q, "high">>].mode # "alternate" /\ ~pins[<<r, "low">>].set)
         => \A k \in 0 .. Len(ws) : ApartBy(pins, ws, k)
  BY <1>1, <1>2, <1>3, ScriptEffect
<1>5. Apart(pins) => ~(pins[<<p, "high">>].mode = "alternate" /\ pins[<<p, "low">>].set)
  BY <1>1 DEF Apart
<1> QED BY <1>4, <1>5, Zenon DEF p, q, r, ws

LEMMA CommutateKeeps ==
  ASSUME BridgeInv, Commutate, BridgeTypeOK'
  PROVE  BridgeInv'
<1>1. BridgeTypeOK /\ pins \in [Pins -> PinStates] /\ com_step \in 1 .. 6
      /\ com_step' \in 1 .. 6
  BY DEF BridgeInv, BridgeTypeOK
<1>2. /\ todo = <<>> /\ stage \in {"run", "portA", "portB"}
      /\ stage' = stage /\ pins' = pins /\ todo' = ComStep(com_step')
      /\ applied' = TRUE /\ stepped_late' = (stage # "run")
      /\ bridge_enable' = bridge_enable /\ step_brakes' = step_brakes
  BY DEF Commutate, HandlersRun, boardVars
<1>3. PICK forward \in BOOLEAN : com_step' = NextStep(com_step, forward)
  BY DEF Commutate
<1>4. ASSUME ~bridge_enable
      PROVE  /\ (Resting(com_step))' /\ (Stepped(com_step))'
             /\ ~step_brakes => \A k \in 0 .. Len(todo') : ApartBy(pins, todo', k)
  <2> DEFINE step == com_step'
  <2>1. /\ RestAtEnd(pins, ComStep(step), StepPhases[step][1], StepPhases[step][2],
                     StepPhases[step][3])
        /\ SteppedAtEnd(pins, ComStep(step), StepPhases[step][1], StepPhases[step][2],
                        StepPhases[step][3])
        /\ (/\ Apart(pins)
            /\ pins[<<StepPhases[step][2], "high">>].mode # "alternate"
            /\ ~pins[<<StepPhases[step][3], "low">>].set)
           => \A k \in 0 .. Len(ComStep(step)) : ApartBy(pins, ComStep(step), k)
    BY <1>1, <1>4, StepHandedOut
  <2>2. (Resting(com_step))' /\ (Stepped(com_step))'
    BY <1>2, <2>1, Zenon DEF Resting, Stepped
  <2>3. ASSUME ~step_brakes
        PROVE  \A k \in 0 .. Len(todo') : ApartBy(pins, todo', k)
    <3>1. Resting(com_step) /\ \A k \in 0 .. Len(todo) : ApartBy(pins, todo, k)
      BY <1>2, <1>4, <2>3 DEF BridgeInv
    <3>2. Apart(pins)
      BY <1>1, <1>2, <3>1, PinsAtRest, Zenon
    <3>3. Rests(pins, StepPhases[com_step][1], StepPhases[com_step][2],
                StepPhases[com_step][3])
      <4>1. RestAtEnd(pins, <<>>, StepPhases[com_step][1], StepPhases[com_step][2],
                      StepPhases[com_step][3])
        BY <1>2, <3>1, Zenon DEF Resting
      <4> QED BY <1>1, <4>1, PinsAtRest, StepsApart, Zenon
    <3>4. /\ pins[<<StepPhases[step][2], "high">>].mode # "alternate"
          /\ ~pins[<<StepPhases[step][3], "low">>].set
      BY <1>1, <1>3, <3>3, NeighboursFit
    <3> QED BY <1>2, <2>1, <3>2, <3>4, Zenon
  <2> QED BY <2>2, <2>3
<1>5. NoEnablePin'
  BY <1>1, <1>2, <1>4, Zenon DEF NoEnablePin
<1>6. TuneOff' /\ PanicOpens'
  BY <1>2 DEF TuneOff, PanicOpens
<1> QED BY <1>5, <1>6, InvInParts DEF BridgeInv, TuneOff, PanicOpens, NoEnablePin

LEMMA BrakeKeeps ==
  ASSUME BridgeInv, BrakeOnStep, BridgeTypeOK'
  PROVE  BridgeInv'
<1>1. BridgeTypeOK /\ 2 \in 1 .. 6
  BY DEF BridgeInv
<1>2. /\ step_brakes /\ stage \in {"run", "portA", "portB"}
      /\ stage' = stage /\ pins' = pins /\ todo' = ComStep(2)
      /\ applied' = TRUE /\ stepped_late' = (stage # "run")
      /\ bridge_enable' = bridge_enable /\ step_brakes' = step_brakes
  BY DEF BrakeOnStep, HandlersRun, boardVars
<1>3. ASSUME ~bridge_enable
      PROVE  (Resting(2))' /\ (Stepped(2))'
  <2>1. /\ RestAtEnd(pins, ComStep(2), StepPhases[2][1], StepPhases[2][2], StepPhases[2][3])
        /\ SteppedAtEnd(pins, ComStep(2), StepPhases[2][1], StepPhases[2][2], StepPhases[2][3])
    BY <1>1, <1>3, StepHandedOut, Zenon
  <2> QED BY <1>2, <2>1, Zenon DEF Resting, Stepped
<1>4. NoEnablePin'
  BY <1>1, <1>2, <1>3, Zenon DEF NoEnablePin
<1>5. TuneOff' /\ PanicOpens'
  BY <1>2 DEF TuneOff, PanicOpens
<1> QED BY <1>4, <1>5, InvInParts DEF BridgeInv, TuneOff, PanicOpens, NoEnablePin

(* A panic's reset of bits, of a bridge at rest.                              *)
LEMMA ResetKeepsApart ==
  ASSUME BridgeInv, todo = <<>>, stage \in {"run", "portA"}, NEW S, pins' = Reset(S),
         UNCHANGED <<boardVars, todo, com_step>>, stage' \in {"portA", "portB"}
  PROVE  NoEnablePin'
<1>1. pins \in [Pins -> PinStates] /\ com_step \in 1 .. 6
  BY DEF BridgeInv, BridgeTypeOK
<1>2. /\ Reset(S) \in [Pins -> PinStates]
      /\ Apart(pins) => Apart(Reset(S))
      /\ \A p \in Phases, q \in Phases, r \in Phases :
           Rests(pins, p, q, r) => Rests(Reset(S), p, q, r)
  BY <1>1, ResetAtRest, Zenon
<1>3. ASSUME NEW step \in 1 .. 6, Resting(step)
      PROVE  (Resting(step))'
  <2>1. RestAtEnd(pins, <<>>, StepPhases[step][1], StepPhases[step][2], StepPhases[step][3])
    BY <1>3, Zenon DEF Resting
  <2>2. RestAtEnd(Reset(S), <<>>, StepPhases[step][1], StepPhases[step][2], StepPhases[step][3])
    BY <1>1, <1>2, <2>1, PinsAtRest, StepsApart, Zenon
  <2> QED BY <2>2, Zenon DEF Resting
<1>4. ASSUME \A k \in 0 .. Len(todo) : ApartBy(pins, todo, k)
      PROVE  (\A k \in 0 .. Len(todo) : ApartBy(pins, todo, k))'
  <2>1. Apart(Reset(S))
    BY <1>1, <1>2, <1>4, PinsAtRest, Zenon
  <2>2. \A k \in 0 .. Len(<<>>) : ApartBy(Reset(S), <<>>, k)
    BY <1>2, <2>1, PinsAtRest, Zenon
  <2> QED BY <2>2, Zenon
<1>5. ASSUME Resting(com_step)
      PROVE  (Resting(com_step))'
  BY <1>1, <1>3, <1>5, Zenon
<1>6. stage # "tune" /\ stage' # "tune" /\ stage' # "run"
  OBVIOUS
<1>7. bridge_enable' = bridge_enable /\ step_brakes' = step_brakes
  BY DEF boardVars
<1> QED BY <1>3, <1>4, <1>5, <1>6, <1>7, Zenon DEF BridgeInv, NoEnablePin

LEMMA PortAKeeps ==
  ASSUME BridgeInv, PanicPortA, BridgeTypeOK'
  PROVE  BridgeInv'
<1>1. pins \in [Pins -> PinStates]
  BY DEF BridgeInv, BridgeTypeOK
<1>2. /\ stage = "run" /\ todo = <<>> /\ stage' = "portA"
      /\ pins' = Reset(Pins \ PortB) /\ todo' = todo /\ stepped_late' = stepped_late
      /\ UNCHANGED <<boardVars, todo, com_step>>
  BY DEF PanicPortA
<1>3. NoEnablePin'
  BY <1>2, ResetKeepsApart
<1>4. \A x \in Pins \ PortB : ~Reset(Pins \ PortB)[x].set
  BY <1>1, ResetAtRest, Zenon
<1>5. TuneOff' /\ PanicOpens'
  BY <1>2, <1>4 DEF TuneOff, PanicOpens
<1> QED BY <1>3, <1>5, InvInParts DEF BridgeInv, TuneOff, PanicOpens, NoEnablePin

LEMMA PortBKeeps ==
  ASSUME BridgeInv, PanicPortB, BridgeTypeOK'
  PROVE  BridgeInv'
<1>1. pins \in [Pins -> PinStates]
  BY DEF BridgeInv, BridgeTypeOK
<1>2. /\ stage = "portA" /\ todo = <<>> /\ stage' = "portB"
      /\ pins' = Reset(PortB) /\ todo' = todo /\ stepped_late' = stepped_late
      /\ UNCHANGED <<boardVars, todo, com_step>>
  BY DEF PanicPortB
<1>3. NoEnablePin'
  BY <1>2, ResetKeepsApart
<1>4. ASSUME ~stepped_late, NEW x \in Pins
      PROVE  ~Reset(PortB)[x].set
  <2>1. x \in Pins \ PortB => ~pins[x].set
    BY <1>2, <1>4 DEF BridgeInv
  <2>2. Reset(PortB)[x].set => pins[x].set
    BY <1>1, ResetAtRest, Zenon
  <2>3. x \in PortB => ~Reset(PortB)[x].set
    BY <1>1, ResetAtRest, Zenon
  <2> QED BY <2>1, <2>2, <2>3
<1>5. TuneOff' /\ PanicOpens'
  BY <1>2, <1>4 DEF TuneOff, PanicOpens
<1> QED BY <1>3, <1>5, InvInParts DEF BridgeInv, TuneOff, PanicOpens, NoEnablePin

(* The duty and the mask change none of what it speaks of but the stage.        *)
PinsStay == UNCHANGED <<boardVars, pins, todo, com_step, applied, stepped_late>>

LEMMA PinsStayKeeps ==
  ASSUME BridgeInv, BridgeTypeOK', stage # "tune",
         PinsStay, stage' = stage \/ (stage = "portB" /\ stage' = "halted")
  PROVE  BridgeInv'
<1>1. /\ bridge_enable' = bridge_enable /\ step_brakes' = step_brakes /\ pins' = pins
      /\ todo' = todo /\ com_step' = com_step /\ applied' = applied
      /\ stepped_late' = stepped_late
  BY DEF PinsStay, boardVars
<1>2. NoEnablePin'
  <2>1. \A step \in 1 .. 6 : (Resting(step))' <=> Resting(step)
    BY <1>1, Zenon DEF Resting
  <2>2. \A step \in 1 .. 6 : (Stepped(step))' <=> Stepped(step)
    BY <1>1, Zenon DEF Stepped
  <2>3. (Resting(com_step))' <=> Resting(com_step)
    BY <1>1, Zenon DEF Resting
  <2>4. stage' = "run" => stage = "run"
    OBVIOUS
  <2> QED BY <1>1, <2>1, <2>2, <2>3, <2>4, Zenon DEF BridgeInv, NoEnablePin
<1>3. TuneOff'
  BY <1>1 DEF BridgeInv, TuneOff
<1>4. PanicOpens'
  BY <1>1 DEF BridgeInv, PanicOpens
<1> QED BY <1>2, <1>3, <1>4, InvInParts DEF BridgeInv, TuneOff, PanicOpens, NoEnablePin

LEMMA DogKeeps ==
  ASSUME BridgeInv, WatchdogBarks, BridgeTypeOK'
  PROVE  BridgeInv'
<1>1. /\ pins' = PinsAtReset /\ todo' = Tune /\ com_step' = 1 /\ applied' = FALSE
      /\ stage' = "tune" /\ stepped_late' = FALSE
  BY DEF WatchdogBarks
<1>2. OffAtEnd(pins', todo')
  <2>1. OffAtEnd(PinsAtReset, Tune')
    <3>1. OffAtEnd(PinsAtReset, Tune)
      BY TuneEndsOff, PinsAtResetTyped
    <3>2. Tune' = Tune
      BY DEF WatchdogBarks, boardVars, Tune, ComStep, PhasePwm
    <3> QED BY <3>1, <3>2
  <2>2. Tune' = Tune
    BY DEF WatchdogBarks, boardVars, Tune, ComStep, PhasePwm
  <2> QED BY <1>1, <2>1, <2>2
<1>3. TuneOff' /\ PanicOpens' /\ NoEnablePin'
  BY <1>1, <1>2 DEF TuneOff, PanicOpens, NoEnablePin
<1> QED BY <1>3, InvInParts DEF BridgeInv, TuneOff, PanicOpens, NoEnablePin

LEMMA BridgeStep ==
  ASSUME BridgeInv, [BridgeNext]_bridgeVars
  PROVE  BridgeInv'
<1>0. BridgeTypeOK'
  BY BridgeTypesKept DEF BridgeInv
<1>1. CASE EndTune
  BY <1>0, <1>1, EndTuneKeeps
<1>2. CASE WriteRegister
  BY <1>0, <1>2, WriteKeeps
<1>3. CASE Commutate
  BY <1>0, <1>3, CommutateKeeps
<1>4. CASE BrakeOnStep
  BY <1>0, <1>4, BrakeKeeps
<1>5. CASE SetDuty
  <2>1. stage # "tune" /\ stage' = stage
        /\ PinsStay
    BY <1>5 DEF SetDuty, HandlersRun, panicVars, PinsStay
  <2> QED BY <1>0, <2>1, PinsStayKeeps
<1>6. CASE PanicPortA
  BY <1>0, <1>6, PortAKeeps
<1>7. CASE PanicPortB
  BY <1>0, <1>7, PortBKeeps
<1>8. CASE Halt
  <2>1. stage # "tune" /\ stage = "portB" /\ stage' = "halted" /\ PinsStay
    BY <1>8 DEF Halt, PinsStay
  <2> QED BY <1>0, <2>1, PinsStayKeeps
<1>9. CASE WatchdogBarks
  BY <1>0, <1>9, DogKeeps
<1>10. CASE UNCHANGED bridgeVars
  <2>1. CASE stage # "tune"
    <3>1. stage' = stage
          /\ PinsStay
      BY <1>10 DEF bridgeVars, boardVars, PinsStay
    <3> QED BY <1>0, <2>1, <3>1, PinsStayKeeps
  <2>2. CASE stage = "tune"
    BY <1>0, <1>10, <2>2, InvInParts
    DEF bridgeVars, BridgeInv, TuneOff, PanicOpens, NoEnablePin
  <2> QED BY <2>1, <2>2
<1> QED
  BY <1>1, <1>2, <1>3, <1>4, <1>5, <1>6, <1>7, <1>8, <1>9, <1>10 DEF BridgeNext

-----------------------------------------------------------------------------
(* What follows from it.                                                    *)
LEMMA InvNoShort == BridgeInv => NoLastingShort
<1> SUFFICES ASSUME BridgeInv, NEW p \in Phases, Shorted(p)
             PROVE  todo # <<>> /\ (stage = "tune" \/ step_brakes)
  BY DEF NoLastingShort
<1>1. /\ pins \in [Pins -> PinStates] /\ todo \in Seq(Writes)
      /\ <<p, "high">> \in Pins /\ <<p, "low">> \in Pins
  BY DEF BridgeInv, BridgeTypeOK, Writes, Pins
<1>2. /\ ~bridge_enable /\ pins[<<p, "high">>].mode = "alternate"
      /\ pins[<<p, "low">>].set
  BY DEF Shorted, Switches, Sinks, Drives
<1>3. ~Apart(pins)
  BY <1>2 DEF Apart
<1>4. todo # <<>>
  <2> SUFFICES ASSUME todo = <<>> PROVE FALSE
    OBVIOUS
  <2>1. CASE stage = "tune"
    <3>1. OffAtEnd(pins, <<>>)
      BY <2>1 DEF BridgeInv
    <3>2. pins[<<p, "high">>].mode = "output"
      BY <1>1, <3>1, OffRests
    <3> QED BY <1>2, <3>2
  <2>2. CASE stage # "tune"
    <3>1. PICK step \in 1 .. 6 : Resting(step)
      BY <1>2, <2>2 DEF BridgeInv
    <3>2. Rests(pins, StepPhases[step][1], StepPhases[step][2], StepPhases[step][3])
      BY <1>1, <3>1, PinsAtRest, StepsApart, Zenon DEF Resting
    <3>3. p = StepPhases[step][1] \/ p = StepPhases[step][2] \/ p = StepPhases[step][3]
      BY StepsApart DEF Phases
    <3> QED BY <1>2, <3>2, <3>3 DEF Rests
  <2> QED BY <2>1, <2>2
<1>5. stage = "tune" \/ step_brakes
  <2> SUFFICES ASSUME stage # "tune", ~step_brakes PROVE FALSE
    OBVIOUS
  <2>1. \A k \in 0 .. Len(todo) : ApartBy(pins, todo, k)
    BY <1>2 DEF BridgeInv
  <2>2. ApartBy(pins, todo, 0)
    BY <1>1, <2>1, SMT
  <2>3. ComesTo(pins[<<p, "high">>].mode, Modes(todo, <<p, "high">>), "alternate", 0)
        /\ ComesTo(BitOf(pins[<<p, "low">>]), Bits(todo, <<p, "low">>), "set", 0)
    <3>1. ~\E i \in 1 .. 0 : TRUE
      BY SMT
    <3> QED BY <1>2, <3>1, Zenon DEF ComesTo, BitOf
  <2> QED BY <2>2, <2>3, Zenon DEF ApartBy, ModeBy, SetBy
<1> QED BY <1>4, <1>5

LEMMA InvFloats == BridgeInv => OnePhaseFloats
<1> SUFFICES ASSUME BridgeInv, stage = "run", todo = <<>>, applied, ~bridge_enable
             PROVE  \E p, q, r \in Phases :
                      /\ p # q /\ q # r /\ r # p
                      /\ pins[<<p, "high">>].mode = "alternate" /\ ~Sinks(p)
                      /\ \A x \in {q, r} :
                           pins[<<x, "high">>] = [mode |-> "output", set |-> FALSE]
                      /\ Sinks(q) /\ ~Sinks(r)
  BY Zenon DEF OnePhaseFloats
<1>1. pins \in [Pins -> PinStates]
  BY DEF BridgeInv, BridgeTypeOK
<1>2. PICK step \in 1 .. 6 : Stepped(step)
  BY DEF BridgeInv
<1> DEFINE p == StepPhases[step][1]
           q == StepPhases[step][2]
           r == StepPhases[step][3]
<1>3. /\ p \in Phases /\ q \in Phases /\ r \in Phases /\ p # q /\ q # r /\ r # p
  BY StepsApart
<1>4. SteppedAtEnd(pins, <<>>, p, q, r)
  BY <1>2, Zenon DEF Stepped
<1> HIDE DEF p, q, r
<1>5. \A x \in Phases : <<x, "high">> \in Pins /\ <<x, "low">> \in Pins
  BY DEF Pins
<1>6. /\ pins[<<r, "high">>].mode = "alternate" /\ ~pins[<<r, "low">>].set
      /\ pins[<<p, "high">>].mode = "output" /\ ~pins[<<p, "high">>].set
      /\ pins[<<q, "high">>].mode = "output" /\ ~pins[<<q, "high">>].set
      /\ pins[<<q, "low">>].mode = "output" /\ pins[<<q, "low">>].set
      /\ ~pins[<<p, "low">>].set
  <2>1. Len(<<>>) = 0
    BY SMT
  <2>2. /\ ModeBy(pins, <<>>, <<r, "high">>, "alternate", 0)
        /\ ~SetBy(pins, <<>>, <<r, "low">>, 0)
        /\ ModeBy(pins, <<>>, <<p, "high">>, "output", 0)
        /\ ~SetBy(pins, <<>>, <<p, "high">>, 0)
        /\ ModeBy(pins, <<>>, <<q, "high">>, "output", 0)
        /\ ~SetBy(pins, <<>>, <<q, "high">>, 0)
        /\ ModeBy(pins, <<>>, <<q, "low">>, "output", 0)
        /\ SetBy(pins, <<>>, <<q, "low">>, 0)
        /\ ~SetBy(pins, <<>>, <<p, "low">>, 0)
    BY <1>4, <2>1 DEF SteppedAtEnd
  <2>3. \A x \in Pins : /\ ModeBy(pins, <<>>, x, "alternate", 0) <=> pins[x].mode = "alternate"
                        /\ ModeBy(pins, <<>>, x, "output", 0) <=> pins[x].mode = "output"
                        /\ SetBy(pins, <<>>, x, 0) <=> pins[x].set
    BY <1>1, NothingToWrite, Zenon
  <2> QED BY <1>3, <1>5, <2>2, <2>3, Zenon
<1>7. ASSUME NEW x \in {q, p}
      PROVE  pins[<<x, "high">>] = [mode |-> "output", set |-> FALSE]
  <2>1. pins[<<x, "high">>] \in PinStates
    BY <1>1, <1>3, <1>5
  <2>2. pins[<<x, "high">>].mode = "output" /\ pins[<<x, "high">>].set = FALSE
    <3>1. pins[<<x, "high">>].set \in BOOLEAN
      BY <2>1 DEF PinStates
    <3> QED BY <1>6, <3>1
  <2> QED BY <2>1, <2>2 DEF PinStates
<1>8. Sinks(q) /\ ~Sinks(p) /\ ~Sinks(r)
  BY <1>6 DEF Sinks, Drives
<1> QED BY <1>3, <1>6, <1>7, <1>8, Zenon

LEMMA InvOpens == BridgeInv => OpenAfterPanic
<1> SUFFICES ASSUME BridgeInv, stage = "halted", ~stepped_late, NEW p \in Phases
             PROVE  ~Sinks(p)
  BY DEF OpenAfterPanic
<1>1. <<p, "low">> \in Pins /\ \A x \in Pins : ~pins[x].set
  BY DEF BridgeInv, Pins
<1> QED BY <1>1 DEF Sinks, Drives

LEMMA InvSafe == BridgeInv => BridgeSafe
BY InvNoShort, InvFloats, InvOpens DEF BridgeSafe

(* The bridge never shorts for longer than a jump takes, between two steps        *)
(* leaves one phase to the comparator, and is open once a panic has halted the    *)
(* board with no step written on top of it (phase.rs:77-148,                   *)
(* isr_logic.rs:36-57, emergency.rs:13-19, panic.rs:15-27): for every board,     *)
(* and with the interrupts of a panicking main loop at any place.               *)
THEOREM BridgeAlwaysSafe == BridgeSpec => []BridgeSafe
<1>1. BridgeInv /\ [BridgeNext]_bridgeVars => BridgeInv'
  BY BridgeStep
<1>2. BridgeInv => BridgeSafe
  BY InvSafe
<1> QED BY BridgeInitial, <1>1, <1>2, PTL DEF BridgeSpec

=============================================================================
