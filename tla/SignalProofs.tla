---------------------------- MODULE SignalProofs ----------------------------
(***************************************************************************)
(* What holds on the way of the signal for every value of the constants: the  *)
(* handlers exclude each other; replies follow the frames and the commands;     *)
(* a calibration spares an armed motor and leaves the ends in order; and the    *)
(* averaged window admits its transmitter.                                   *)
(***************************************************************************)
EXTENDS Link, Replies, Priorities, SequenceTheorems, TLAPS

(***************************************************************************)
(* Priorities, for every chip that drops at least the lowest bit of one.  The  *)
(* chip takes all the levels that the main loop ever writes for one, so that   *)
(* an interrupt enters only when nothing runs.                               *)
(***************************************************************************)

LevelsWritten == priority \in [Interrupts -> {0, SecondLevel}]

ExclusionInv ==
  /\ LevelsWritten
  /\ pending \subseteq Interrupts
  /\ active \in Seq(Interrupts)
  /\ OneHandlerAtATime

(* The chip does not tell the levels that are written apart.                *)
LEMMA LevelsAlike ==
  ASSUME LevelsWritten, NEW i \in Interrupts
  PROVE  Urgency(i) = 0
<1>1. priority[i] = 0 \/ priority[i] = 1
  BY DEF LevelsWritten, SecondLevel
<1>2. 0 \div KeptSteps = 0 /\ 1 \div KeptSteps = 0
  BY PrioritiesAssumption, SMT
<1> QED  BY <1>1, <1>2 DEF Urgency

LEMMA ExclusionInitial ==
  PrioritiesInit => ExclusionInv
BY DEF PrioritiesInit, ExclusionInv, LevelsWritten, OneHandlerAtATime

LEMMA ExclusionStep ==
  ExclusionInv /\ [PrioritiesNext]_prioritiesVars => ExclusionInv'
<1> SUFFICES ASSUME ExclusionInv, [PrioritiesNext]_prioritiesVars
             PROVE  ExclusionInv'
  OBVIOUS
<1> USE DEF ExclusionInv, OneHandlerAtATime
<1>1. CASE AdjustPriority
  <2>1. PICK framesFirst \in BOOLEAN, i \in {"dma", "com", "comp"} :
          priority' = [priority EXCEPT ![i] = LevelsFor(framesFirst)[i]]
    BY <1>1 DEF AdjustPriority
  <2>2. LevelsFor(framesFirst)[i] \in {0, SecondLevel}
    BY <2>1 DEF LevelsFor
  <2>3. LevelsWritten'
    BY <2>1, <2>2 DEF LevelsWritten
  <2> QED  BY <1>1, <2>3 DEF AdjustPriority
<1>2. CASE Raise
  BY <1>2 DEF Raise, LevelsWritten
<1>3. CASE Enter
  <2>1. PICK i \in pending :
          /\ active # <<>> => Urgency(i) < Urgency(active[Len(active)])
          /\ active' = Append(active, i)
          /\ pending' = pending \ {i}
    BY <1>3 DEF Enter
  <2>2. active = <<>>
    <3> SUFFICES ASSUME active # <<>> PROVE FALSE
      OBVIOUS
    <3>1. Len(active) \in 1 .. Len(active)
      BY SMT
    <3>2. active[Len(active)] \in Interrupts
      BY <3>1
    <3>3. Urgency(i) = 0 /\ Urgency(active[Len(active)]) = 0
      BY <2>1, <3>2, LevelsAlike
    <3> QED  BY <2>1, <3>3, SMT
  <2>3. active' \in Seq(Interrupts) /\ Len(active') = 1
    <3>1. i \in Interrupts /\ <<>> \in Seq(Interrupts) /\ Len(<<>>) = 0
      BY <2>1
    <3>2. active' = Append(<<>>, i)
      BY <2>1, <2>2
    <3>3. Append(<<>>, i) \in Seq(Interrupts) /\ Len(Append(<<>>, i)) = 1
      BY <3>1
    <3> QED  BY <3>2, <3>3
  <2> QED  BY <1>3, <2>1, <2>3 DEF Enter, LevelsWritten
<1>4. CASE Leave
  <2>1. Len(active) = 1
    <3>1. active \in Seq(Interrupts) /\ active # <<>> /\ Len(active) <= 1
      BY <1>4 DEF Leave
    <3>2. Len(active) # 0 /\ Len(active) \in Nat
      BY <3>1, EmptySeq
    <3> DEFINE n == Len(active)
    <3>3. n \in Nat /\ n # 0 /\ n <= 1
      BY <3>1, <3>2
    <3> HIDE DEF n
    <3>4. n = 1
      BY <3>3, SMT
    <3> QED  BY <3>4 DEF n
  <2>2. active' = SubSeq(active, 1, 0)
    BY <1>4, <2>1 DEF Leave
  <2>3. active' \in Seq(Interrupts) /\ Len(active') = 0
    BY <2>2
  <2> QED  BY <1>4, <2>3, SMT DEF Leave, LevelsWritten
<1>5. CASE UNCHANGED prioritiesVars
  BY <1>5 DEF prioritiesVars, LevelsWritten
<1> QED  BY <1>1, <1>2, <1>3, <1>4, <1>5 DEF PrioritiesNext

(* What follows from the first state and the steps, whatever is fair. *)
LEMMA ExclusionHolds ==
  PrioritiesInit /\ [][PrioritiesNext]_prioritiesVars => []ExclusionInv
BY ExclusionInitial, ExclusionStep, PTL

(* At no time does one of the handlers that share the state in IsrCell run   *)
(* on top of another, at whatever moments the main loop rewrites their       *)
(* priorities (isr_handlers.rs:12-31, chip.rs:53-68).                        *)
THEOREM HandlersExclude ==
  PrioritiesSpec => []OneHandlerAtATime
<1>1. ExclusionInv => OneHandlerAtATime
  BY DEF ExclusionInv
<1> QED  BY <1>1, ExclusionHolds, PTL DEF PrioritiesSpec

-----------------------------------------------------------------------------
(***************************************************************************)
(* Replies.                                                                 *)
(***************************************************************************)

USE DEF Kinds, Frames, EDT_ENABLE, EDT_DISABLE

(* How far a frame has come while nothing arms or disarms: each of the two      *)
(* interrupts of an answered frame leaves a trace in the channel's direction.   *)
UsesCounted ==
  /\ ~cut /\ Answers =>
       /\ irq = "dma"  => uses <= (IF out_put THEN 1 ELSE 0)
       /\ irq = "exti" => uses <= (IF out_put THEN 0 ELSE 1)
       /\ irq = "none" => uses <= (IF out_put THEN 1 ELSE 2)
  /\ ~cut /\ ~Answers =>
       /\ ~out_put
       /\ uses <= (IF irq = "none" THEN 1 ELSE 0)

(* The repetitions of a command that the processor has counted. *)
Counted(cmd) ==
  IF processor.last_command = cmd THEN processor.command_count ELSE 0

(* While the announcement of one command is pending, repetitions of the other   *)
(* are counted only at the expense of an arming each, between the two          *)
(* interrupts of a frame: an armed channel that receives answers first, and     *)
(* the answer takes the announcement away.                                    *)
CountedUnanswered(cmd) ==
  /\ Counted(cmd) <= armings
  /\ buffered = cmd =>
       /\ ~out_put
       /\ irq = "exti" /\ reply_armed => Counted(cmd) + 1 <= armings

AnnouncesCommands ==
  dshot_telemetry =>
    /\ edt.send_init =>
         /\ ~edt.send_deinit
         /\ processor.extended_telemetry
         /\ CountedUnanswered(EDT_DISABLE)
    /\ edt.send_deinit =>
         /\ ~processor.extended_telemetry
         /\ CountedUnanswered(EDT_ENABLE)
    /\ ~edt.send_init /\ ~edt.send_deinit
         => edt.active = processor.extended_telemetry

LEMMA CounterStays ==
  ASSUME NEW c \in Nat
  PROVE  (c + 1) % EdtCycle \in 0 .. EdtCycle - 1
<1>1. EdtCycle \in Nat \ {0}
  BY EdtAssumption
<1> QED BY <1>1, SMT

LEMMA ReplyTyped ==
  ASSUME NEW e \in EdtStates
  PROVE  AfterReply(e) \in EdtStates /\ NextKind(e) \in Kinds
<1>1. NextCounter(e) \in 0 .. EdtCycle - 1
  BY CounterStays DEF NextCounter, EdtStates
<1>2. Due(NextCounter(e)) \in Kinds
  BY DEF Due
<1> QED BY <1>1, <1>2 DEF AfterReply, NextKind, EdtStates

LEMMA ProcessorTyped ==
  ASSUME NEW p \in Processors, NEW cmd \in Frames \ {0}
  PROVE  ProcessorAfter(p, cmd) \in Processors
<1>1. /\ Repetitions \in Nat \ {0, 1}
      /\ p.command_count \in 0 .. Repetitions - 1
  BY RepetitionsAssumption DEF Processors
<1>2. Count(p, cmd) \in 1 .. Repetitions
  BY <1>1 DEF Count, BEACON_5
<1>3. (IF TakesEffect(p, cmd) THEN 0 ELSE Count(p, cmd)) \in 0 .. Repetitions - 1
  BY <1>1, <1>2 DEF TakesEffect
<1>4. cmd \in CommandNumbers
  BY DEF CommandNumbers
<1> QED BY <1>3, <1>4 DEF ProcessorAfter, Processors

LEMMA RepliesTypesInitial == RepliesInit => RepliesTypeOK
<1>1. NewEdt \in EdtStates
  <2>1. EdtCycle \in Nat \ {0}
    BY EdtAssumption
  <2>2. 0 \in 0 .. EdtCycle - 1
    BY <2>1
  <2> QED BY <2>2 DEF NewEdt, EdtStates
<1>2. NewProcessor \in Processors
  BY RepetitionsAssumption DEF NewProcessor, Processors
<1>3. 0 \in 0 .. UsesCap /\ 0 \in 0 .. MaxArmings
  BY RepliesAssumption
<1> QED BY <1>1, <1>2, <1>3 DEF RepliesInit, RepliesTypeOK

LEMMA RepliesTypesKept ==
  RepliesTypeOK /\ [RepliesNext]_replyVars => RepliesTypeOK'
<1> SUFFICES ASSUME RepliesTypeOK, [RepliesNext]_replyVars
             PROVE  RepliesTypeOK'
  OBVIOUS
<1> USE DEF RepliesTypeOK
<1>1. CASE FrameCaptured
  <2>1. 0 \in 0 .. UsesCap
    BY RepliesAssumption
  <2> QED BY <1>1, <2>1 DEF FrameCaptured
<1>2. CASE ReplySent
  BY <1>2 DEF ReplySent
<1>3. CASE TransferComplete
  <2>1. edt' \in EdtStates /\ replied' \in Kinds
    BY <1>3, ReplyTyped DEF TransferComplete
  <2>2. out_put' \in BOOLEAN
    BY <1>3 DEF TransferComplete, ChannelAfter
  <2> QED BY <1>3, <2>1, <2>2 DEF TransferComplete
<1>4. CASE FrameInterrupt
  <2>1. processor' \in Processors
    BY <1>4, ProcessorTyped DEF FrameInterrupt
  <2>2. edt' \in EdtStates
    BY <1>4 DEF FrameInterrupt, Announced, EdtStates
  <2>3. uses' \in 0 .. UsesCap
    BY <1>4, RepliesAssumption DEF FrameInterrupt
  <2> QED BY <1>4, <2>1, <2>2, <2>3 DEF FrameInterrupt
<1>5. CASE ReplyArms
  <2>1. armings' \in 0 .. MaxArmings
    BY <1>5, RepliesAssumption, RepetitionsAssumption DEF ReplyArms
  <2> QED BY <1>5, <2>1 DEF ReplyArms
<1>6. CASE UNCHANGED replyVars
  BY <1>6 DEF replyVars
<1> QED BY <1>1, <1>2, <1>3, <1>4, <1>5, <1>6 DEF RepliesNext

LEMMA RepliesTypesHold ==
  RepliesInit /\ [][RepliesNext]_replyVars => []RepliesTypeOK
BY RepliesTypesInitial, RepliesTypesKept, PTL

(* The types of the reply channel (isr_handlers.rs:104-203, edt.rs).            *)
THEOREM RepliesTypeCorrect == RepliesSpec => []RepliesTypeOK
BY RepliesTypesHold, PTL DEF RepliesSpec

LEMMA UsesKept ==
  RepliesTypeOK /\ UsesCounted /\ [RepliesNext]_replyVars => UsesCounted'
<1> SUFFICES ASSUME RepliesTypeOK, UsesCounted, [RepliesNext]_replyVars
             PROVE  UsesCounted'
  OBVIOUS
<1> USE DEF RepliesTypeOK, UsesCounted, Answers
<1>1. CASE FrameCaptured
  BY <1>1 DEF FrameCaptured
<1>2. CASE ReplySent
  BY <1>2 DEF ReplySent
<1>3. CASE TransferComplete
  BY <1>3 DEF TransferComplete, ChannelAfter
<1>4. CASE FrameInterrupt
  <2>1. uses' <= uses + 1 /\ uses \in Nat /\ uses' \in Nat
    BY <1>4, RepliesAssumption DEF FrameInterrupt
  <2> QED BY <1>4, <2>1 DEF FrameInterrupt
<1>5. CASE ReplyArms
  BY <1>5 DEF ReplyArms
<1>6. CASE UNCHANGED replyVars
  BY <1>6 DEF replyVars
<1> QED BY <1>1, <1>2, <1>3, <1>4, <1>5, <1>6 DEF RepliesNext

(* A frame interrupt that takes a command's effect while the other one's         *)
(* announcement is pending would need more armings than there are.             *)
LEMMA NoEffectUnanswered ==
  ASSUME RepliesTypeOK, irq = "exti",
         NEW cmd \in {EDT_ENABLE, EDT_DISABLE}, CountedUnanswered(cmd)
  PROVE  Effect # cmd
<1> SUFFICES ASSUME Effect = cmd PROVE FALSE
  OBVIOUS
<1>1. reply_armed /\ buffered = cmd /\ TakesEffect(processor, cmd)
  BY DEF Effect
<1>2. /\ Repetitions \in Nat /\ armings \in Nat /\ armings <= Repetitions - 1
  BY RepliesAssumption, RepetitionsAssumption DEF RepliesTypeOK
<1>3. Counted(cmd) + 1 <= armings
  BY <1>1 DEF CountedUnanswered
<1>4. Counted(cmd) + 1 >= Repetitions
  BY <1>1 DEF TakesEffect, Count, Counted, BEACON_5
<1>5. Counted(cmd) \in Nat
  BY RepetitionsAssumption DEF Counted, RepliesTypeOK, Processors
<1> QED BY <1>2, <1>3, <1>4, <1>5

(* How the count of unanswered repetitions of a command moves with a frame       *)
(* interrupt, if its effect does not come with it.                           *)
LEMMA UnansweredByInterrupt ==
  ASSUME RepliesTypeOK, FrameInterrupt,
         NEW cmd \in {EDT_ENABLE, EDT_DISABLE},
         CountedUnanswered(cmd) \/ (reply_armed /\ buffered # 0 /\ buffered # cmd)
  PROVE  CountedUnanswered(cmd)'
<1>1. irq' = "none" /\ irq = "exti"
      /\ UNCHANGED <<buffered, out_put, armings, reply_armed>>
  BY DEF FrameInterrupt
<1>2. armings \in Nat
  BY RepliesAssumption, RepetitionsAssumption DEF RepliesTypeOK
<1>3. Repetitions \in Nat \ {0, 1}
  BY RepetitionsAssumption
<1>4. CASE ~(reply_armed /\ buffered # 0)
  BY <1>1, <1>4 DEF FrameInterrupt, CountedUnanswered, Counted
<1>5. CASE reply_armed /\ buffered # 0 /\ buffered # cmd
  <2>1. processor'.last_command # cmd
    BY <1>5 DEF FrameInterrupt, ProcessorAfter
  <2> QED BY <1>1, <1>2, <1>5, <2>1 DEF CountedUnanswered, Counted
<1>6. CASE reply_armed /\ buffered = cmd /\ CountedUnanswered(cmd)
  <2>1. Counted(cmd) + 1 <= armings /\ ~out_put
    BY <1>1, <1>6 DEF CountedUnanswered
  <2>2. Count(processor, cmd) = Counted(cmd) + 1
    BY DEF Count, Counted, BEACON_5
  <2>3. processor'.command_count \in {0, Count(processor, cmd)}
    BY <1>6 DEF FrameInterrupt, ProcessorAfter
  <2>4. Counted(cmd)' <= armings
    BY <1>2, <2>1, <2>2, <2>3 DEF Counted
  <2> QED BY <1>1, <2>1, <2>4 DEF CountedUnanswered
<1> QED BY <1>4, <1>5, <1>6

LEMMA AnnouncesByInterrupt ==
  ASSUME RepliesTypeOK, AnnouncesCommands, FrameInterrupt, dshot_telemetry
  PROVE  AnnouncesCommands'
<1>1. irq = "exti"
  BY DEF FrameInterrupt
<1>2. /\ edt.send_init   => Effect # EDT_DISABLE
      /\ edt.send_deinit => Effect # EDT_ENABLE
  BY <1>1, NoEffectUnanswered DEF AnnouncesCommands
<1>3. /\ edt'.send_init = (edt.send_init \/ Effect = EDT_ENABLE)
      /\ edt'.send_deinit = (edt.send_deinit \/ Effect = EDT_DISABLE)
      /\ edt'.active = edt.active
  BY DEF FrameInterrupt, Announced, RepliesTypeOK, EdtStates
<1>4. Effect \in {0, EDT_ENABLE, EDT_DISABLE}
  BY DEF Effect, RepliesTypeOK
<1>5. /\ Effect = EDT_ENABLE  => processor'.extended_telemetry
      /\ Effect = EDT_DISABLE => ~processor'.extended_telemetry
      /\ Effect = 0 => processor'.extended_telemetry = processor.extended_telemetry
  <2>1. CASE ~(reply_armed /\ buffered # 0)
    BY <2>1 DEF Effect, FrameInterrupt
  <2>2. CASE reply_armed /\ buffered # 0 /\ ~TakesEffect(processor, buffered)
    <3>1. processor'.extended_telemetry = processor.extended_telemetry
      BY <2>2 DEF FrameInterrupt, ProcessorAfter
    <3> QED BY <2>2, <3>1 DEF Effect
  <2>3. CASE reply_armed /\ buffered # 0 /\ TakesEffect(processor, buffered)
    <3>1. Effect = buffered
      BY <2>3 DEF Effect
    <3>2. buffered = EDT_ENABLE => processor'.extended_telemetry = TRUE
      BY <2>3 DEF FrameInterrupt, ProcessorAfter
    <3>3. buffered = EDT_DISABLE => processor'.extended_telemetry = FALSE
      BY <2>3 DEF FrameInterrupt, ProcessorAfter
    <3> QED BY <2>3, <3>1, <3>2, <3>3
  <2> QED BY <2>1, <2>2, <2>3
<1>6. /\ Effect # 0 => reply_armed /\ buffered = Effect
  BY DEF Effect
<1>7. edt'.send_init => CountedUnanswered(EDT_DISABLE)'
  <2>1. EDT_DISABLE \in {EDT_ENABLE, EDT_DISABLE} /\ EDT_ENABLE # EDT_DISABLE /\ EDT_ENABLE # 0
    OBVIOUS
  <2>2. ASSUME edt'.send_init
        PROVE  CountedUnanswered(EDT_DISABLE)
                 \/ (reply_armed /\ buffered # 0 /\ buffered # EDT_DISABLE)
    <3>1. CASE edt.send_init
      BY <3>1 DEF AnnouncesCommands
    <3>2. CASE Effect = EDT_ENABLE
      BY <1>6, <2>1, <3>2
    <3> QED BY <1>3, <2>2, <3>1, <3>2
  <2>3. ASSUME edt'.send_init PROVE CountedUnanswered(EDT_DISABLE)'
    <3> HIDE DEF EDT_ENABLE, EDT_DISABLE
    <3> QED BY <2>1, <2>2, <2>3, UnansweredByInterrupt
  <2> QED BY <2>3
<1>8. edt'.send_deinit => CountedUnanswered(EDT_ENABLE)'
  <2>1. EDT_ENABLE \in {EDT_ENABLE, EDT_DISABLE} /\ EDT_ENABLE # EDT_DISABLE /\ EDT_DISABLE # 0
    OBVIOUS
  <2>2. ASSUME edt'.send_deinit
        PROVE  CountedUnanswered(EDT_ENABLE)
                 \/ (reply_armed /\ buffered # 0 /\ buffered # EDT_ENABLE)
    <3>1. CASE edt.send_deinit
      BY <3>1 DEF AnnouncesCommands
    <3>2. CASE Effect = EDT_DISABLE
      BY <1>6, <2>1, <3>2
    <3> QED BY <1>3, <2>2, <3>1, <3>2
  <2>3. ASSUME edt'.send_deinit PROVE CountedUnanswered(EDT_ENABLE)'
    <3> HIDE DEF EDT_ENABLE, EDT_DISABLE
    <3> QED BY <2>1, <2>2, <2>3, UnansweredByInterrupt
  <2> QED BY <2>3
<1>9. edt'.send_init => ~edt'.send_deinit /\ processor'.extended_telemetry
  BY <1>2, <1>3, <1>4, <1>5 DEF AnnouncesCommands
<1>10. edt'.send_deinit => ~processor'.extended_telemetry
  BY <1>2, <1>3, <1>4, <1>5 DEF AnnouncesCommands
<1>11. ~edt'.send_init /\ ~edt'.send_deinit
         => edt'.active = processor'.extended_telemetry
  BY <1>3, <1>4, <1>5 DEF AnnouncesCommands
<1> QED BY <1>7, <1>8, <1>9, <1>10, <1>11 DEF AnnouncesCommands

LEMMA AnnouncesKept ==
  RepliesTypeOK /\ AnnouncesCommands /\ [RepliesNext]_replyVars => AnnouncesCommands'
<1> SUFFICES ASSUME RepliesTypeOK, AnnouncesCommands, [RepliesNext]_replyVars
             PROVE  AnnouncesCommands'
  OBVIOUS
<1>0. dshot_telemetry' = dshot_telemetry
  <2>1. CASE FrameCaptured
    BY <2>1 DEF FrameCaptured
  <2>2. CASE ReplySent
    BY <2>2 DEF ReplySent
  <2>3. CASE TransferComplete
    BY <2>3 DEF TransferComplete
  <2>4. CASE FrameInterrupt
    BY <2>4 DEF FrameInterrupt
  <2>5. CASE ReplyArms
    BY <2>5 DEF ReplyArms
  <2>6. CASE UNCHANGED replyVars
    BY <2>6 DEF replyVars
  <2> QED BY <2>1, <2>2, <2>3, <2>4, <2>5, <2>6 DEF RepliesNext
<1> SUFFICES ASSUME dshot_telemetry PROVE AnnouncesCommands'
  BY <1>0 DEF AnnouncesCommands
<1>1. CASE FrameCaptured
  BY <1>1 DEF FrameCaptured, AnnouncesCommands, CountedUnanswered, Counted
<1>2. CASE ReplySent
  BY <1>2 DEF ReplySent, AnnouncesCommands, CountedUnanswered, Counted
<1>3. CASE TransferComplete
  <2>1. CASE reply_armed /\ ~out_put
    <3>1. edt' = AfterReply(edt) /\ processor' = processor
      BY <1>3, <2>1 DEF TransferComplete, Answers
    <3>2. ~edt'.send_init /\ ~edt'.send_deinit
      BY <3>1 DEF AfterReply, RepliesTypeOK, EdtStates, AnnouncesCommands
    <3>3. edt'.active = processor.extended_telemetry
      <4>1. processor.extended_telemetry \in BOOLEAN
        BY DEF RepliesTypeOK, Processors
      <4>2. CASE edt.send_init
        <5>1. edt'.active = TRUE
          BY <3>1, <4>2 DEF AfterReply, RepliesTypeOK, EdtStates
        <5> QED BY <4>1, <4>2, <5>1 DEF AnnouncesCommands
      <4>3. CASE ~edt.send_init /\ edt.send_deinit
        <5>1. edt'.active = FALSE
          BY <3>1, <4>3 DEF AfterReply, RepliesTypeOK, EdtStates
        <5> QED BY <4>1, <4>3, <5>1 DEF AnnouncesCommands
      <4>4. CASE ~edt.send_init /\ ~edt.send_deinit
        <5>1. edt'.active = edt.active
          BY <3>1, <4>4 DEF AfterReply, RepliesTypeOK, EdtStates
        <5> QED BY <4>4, <5>1 DEF AnnouncesCommands
      <4> QED BY <4>2, <4>3, <4>4
    <3> QED BY <3>1, <3>2, <3>3 DEF AnnouncesCommands
  <2>2. CASE ~reply_armed \/ out_put
    <3>1. UNCHANGED <<edt, processor, buffered, armings, reply_armed>>
      BY <1>3, <2>2 DEF TransferComplete, Answers
    <3>2. out_put' => out_put
      BY <1>3, <2>2 DEF TransferComplete, ChannelAfter, Answers, RepliesTypeOK
    <3> QED BY <1>3, <2>2, <3>1, <3>2
           DEF TransferComplete, AnnouncesCommands, CountedUnanswered, Counted
  <2> QED BY <2>1, <2>2
<1>4. CASE FrameInterrupt
  BY <1>4, AnnouncesByInterrupt
<1>5. CASE ReplyArms
  <2>1. armings \in Nat /\ armings' \in Nat /\ armings' >= armings
        /\ (reply_armed' => armings' = armings + 1)
    <3>1. armings \in Nat
      BY RepliesAssumption, RepetitionsAssumption DEF RepliesTypeOK
    <3>2. CASE reply_armed
      <4>1. ~reply_armed' /\ armings' = armings
        BY <1>5, <3>2 DEF ReplyArms
      <4> QED BY <3>1, <4>1
    <3>3. CASE ~reply_armed
      <4>1. armings' = armings + 1
        BY <1>5, <3>3 DEF ReplyArms
      <4> QED BY <3>1, <4>1
    <3> QED BY <3>2, <3>3
  <2>2. /\ Counted(EDT_ENABLE) \in Nat /\ Counted(EDT_DISABLE) \in Nat
    BY RepetitionsAssumption DEF RepliesTypeOK, Processors, Counted
  <2> QED BY <1>5, <2>1, <2>2 DEF ReplyArms, AnnouncesCommands, CountedUnanswered, Counted
<1>6. CASE UNCHANGED replyVars
  BY <1>6 DEF replyVars, AnnouncesCommands, CountedUnanswered, Counted
<1> QED BY <1>1, <1>2, <1>3, <1>4, <1>5, <1>6 DEF RepliesNext

LEMMA FollowingHolds ==
  RepliesInit /\ [][RepliesNext]_replyVars => []RepliesFollowFrames
<1> DEFINE Inv == RepliesTypeOK /\ UsesCounted /\ AnnouncesCommands
<1>1. RepliesInit => Inv
  <2>1. RepliesInit => UsesCounted
    BY DEF RepliesInit, UsesCounted, Answers
  <2>2. RepliesInit => AnnouncesCommands
    BY DEF RepliesInit, AnnouncesCommands, NewEdt, NewProcessor
  <2> QED BY <2>1, <2>2, RepliesTypesInitial
<1>2. Inv /\ [RepliesNext]_replyVars => Inv'
  BY RepliesTypesKept, UsesKept, AnnouncesKept
<1>3. Inv => RepliesFollowFrames
  <2>1. Inv => FrameUses
    <3>1. ASSUME Inv PROVE uses \in Nat
      BY <3>1, RepliesAssumption DEF RepliesTypeOK
    <3> QED BY <3>1 DEF UsesCounted, FrameUses, Answers, RepliesTypeOK
  <2>2. Inv => EdtFollowsCommands
    BY DEF AnnouncesCommands, EdtFollowsCommands
  <2> QED BY <2>1, <2>2 DEF RepliesFollowFrames
<1> QED BY <1>1, <1>2, <1>3, PTL

(* A frame is used as often as its repetitions mean, and the announcements follow  *)
(* the commands, for every number of repetitions and every cycle, with fewer     *)
(* armings than repetitions (isr_handlers.rs:104-203, edt.rs:67-111).             *)
THEOREM RepliesAlwaysFollow == RepliesSpec => []RepliesFollowFrames
BY FollowingHolds, PTL DEF RepliesSpec

-----------------------------------------------------------------------------
(***************************************************************************)
(* Calibration and the frame window.                                        *)
(***************************************************************************)

Servos ==
  [low_threshold : Int, high_threshold : Int, last_high_threshold : Int,
   calibration_required : BOOLEAN, high_calibration_set : BOOLEAN,
   high_calibration_counts : Int, low_calibration_counts : Int]

Transfers ==
  [servo : Servos, average_count : 0 .. 8, average_packet_length : Int,
   enter_calibration_count : Int, last_input : Int, zero_input_count : Int,
   frametime_low : Int, frametime_high : Int]

LinkShaped ==
  /\ protocol \in {"servo", "dshot"}
  /\ stick \in Nat
  /\ transfer \in Transfers
  /\ disabled \in BOOLEAN
  /\ newinput \in Int /\ adjusted_input \in Int
  /\ behind \in Nat /\ behind <= Lag + 1
  /\ link_armed \in BOOLEAN
  /\ link_arming \in Int
  /\ strayed \in BOOLEAN /\ disturbed \in BOOLEAN

(* The throttle moves by MaxDeviation a frame, so that what the main loop        *)
(* published is not far from it; one that entered calibration is above zero,     *)
(* and stays, because calibrating pulses give no throttle.                     *)
ThrottleFollowed ==
  protocol = "servo" =>
    /\ newinput - adjusted_input <= behind * 250
    /\ adjusted_input - newinput <= behind * 250
    /\ transfer.servo.calibration_required
         => ~link_armed /\ newinput > 0 /\ adjusted_input > 0

(* The ends with their margins: the high one is lowered once, when it is set,    *)
(* the low one raised once, when the calibration ends for good.               *)
EndsApart ==
  LET s == transfer.servo
  IN  ~strayed =>
        /\ s.high_threshold >= (IF s.high_calibration_set THEN 1475 ELSE 1500)
        /\ s.low_threshold <=
             (IF s.high_calibration_set /\ ~s.calibration_required THEN 1285 ELSE 1260)

(* The average of undisturbed frames. *)
SteadilyAveraged(t) ==
  LET sum == 8 * SteadyTime
  IN  /\ t.average_packet_length = t.average_count * SteadyTime
      /\ t.average_count = 8 =>
           /\ t.frametime_low  = sum \div 8 - sum \div 128
           /\ t.frametime_high = sum \div 8 + sum \div 128

AveragedSteady == ~disturbed => SteadilyAveraged(transfer)

(* A frame leaves the average alone, or is counted. *)
AverageKept(t, u) ==
  /\ u.average_count = t.average_count
  /\ u.average_packet_length = t.average_packet_length
  /\ u.frametime_low = t.frametime_low
  /\ u.frametime_high = t.frametime_high

AverageCounted(t, u, time) ==
  LET sum == t.average_packet_length + time
  IN  /\ t.average_count < 8
      /\ u.average_count = t.average_count + 1
      /\ u.average_packet_length = sum
      /\ t.average_count = 7 =>
           /\ u.frametime_low  = sum \div 8 - sum \div 128
           /\ u.frametime_high = sum \div 8 + sum \div 128

LinkInv == LinkShaped /\ ThrottleFollowed /\ EndsApart /\ AveragedSteady

LEMMA ModInt ==
  ASSUME NEW c \in Int
  PROVE  c % CounterSize \in Int
<1>1. CounterSize \in Int /\ CounterSize > 0
  BY ServoAssumption
<1> QED BY <1>1, SMT

LEMMA ServoReplaced ==
  ASSUME NEW t \in Transfers, NEW s \in Servos,
         NEW z \in Int, NEW f \in Int, NEW l \in Int,
         NEW u, u = [t EXCEPT !.zero_input_count = z, !.enter_calibration_count = f,
                              !.servo = s, !.last_input = l]
  PROVE  u \in Transfers
BY DEF Transfers

LEMMA EntryKeeps ==
  ASSUME NEW t \in Transfers, NEW adjusted \in Int, NEW d \in BOOLEAN,
         NEW u, u = EntryChecked(t, adjusted, d)
  PROVE  /\ u \in Transfers
         /\ u.servo.low_threshold = t.servo.low_threshold
         /\ u.servo.high_threshold = t.servo.high_threshold
         /\ u.servo.high_calibration_set = t.servo.high_calibration_set
         /\ AverageKept(t, u)
         /\ u.servo.calibration_required =>
              t.servo.calibration_required
                \/ (adjusted > 1500 /\ ~t.servo.high_calibration_set)
<1>1. EntryFrames(t, adjusted) \in Int
  BY ModInt DEF EntryFrames, Transfers
<1>2. Least(t.zero_input_count + 1, ZeroInputCap) \in Int
  BY DEF Least, ZeroInputCap, AverageAfter, Transfers
<1>3. EntersCalibration(t, adjusted) \in BOOLEAN
      /\ (EntersCalibration(t, adjusted) => ~t.servo.high_calibration_set)
  BY DEF EntersCalibration
<1>4. CASE adjusted = 0 /\ ~t.servo.calibration_required
  BY <1>2, <1>4 DEF EntryChecked, Transfers, AverageKept
<1>5. CASE ~(adjusted = 0 /\ ~t.servo.calibration_required) /\ d
  BY <1>5 DEF EntryChecked, AverageKept
<1>6. CASE ~(adjusted = 0 /\ ~t.servo.calibration_required) /\ ~d /\ adjusted <= 1500
  BY <1>6 DEF EntryChecked, Transfers, MinThrottle, AverageKept
<1>7. CASE ~(adjusted = 0 /\ ~t.servo.calibration_required) /\ ~d /\ ~(adjusted <= 1500)
  <2> DEFINE enters == EntersCalibration(t, adjusted)
             frames == IF enters THEN 0 ELSE EntryFrames(t, adjusted)
  <2>1. u = [t EXCEPT !.zero_input_count = 0, !.enter_calibration_count = frames,
                      !.servo.calibration_required = @ \/ enters,
                      !.last_input = adjusted]
    BY <1>7 DEF EntryChecked, MinThrottle
  <2>2. frames \in Int /\ enters \in BOOLEAN /\ (enters => ~t.servo.high_calibration_set)
    BY <1>1, <1>3
  <2> HIDE DEF enters, frames
  <2>3. t.servo \in Servos
    BY DEF Transfers
  <2> DEFINE required == t.servo.calibration_required \/ enters
             s == [t.servo EXCEPT !.calibration_required = required]
  <2>4. /\ s \in Servos
        /\ s.low_threshold = t.servo.low_threshold
        /\ s.high_threshold = t.servo.high_threshold
        /\ s.high_calibration_set = t.servo.high_calibration_set
        /\ s.calibration_required = required
    <3>1. required \in BOOLEAN
      OBVIOUS
    <3> HIDE DEF required
    <3> QED BY <2>3, <3>1 DEF Servos
  <2>5. u = [t EXCEPT !.zero_input_count = 0, !.enter_calibration_count = frames,
                      !.servo = s, !.last_input = adjusted]
    BY <2>1
  <2> HIDE DEF s
  <2>6. /\ u \in Transfers
        /\ u.servo = s
        /\ AverageKept(t, u)
    <3> HIDE DEF required
    <3>1. u \in Transfers
      <4>1. 0 \in Int
        OBVIOUS
      <4> QED BY <2>2, <2>4, <2>5, <4>1, ServoReplaced
    <3> QED BY <2>5, <3>1 DEF Transfers, AverageKept
  <2> QED BY <1>7, <2>2, <2>4, <2>6
<1> QED BY <1>4, <1>5, <1>6, <1>7

(* A pulse that calibrates. *)
LEMMA CalibrateKeeps ==
  ASSUME NEW s \in Servos, NEW pulse \in Nat, s.calibration_required,
         NEW r, r = Calibrate(s, pulse)
  PROVE  /\ r \in Servos
         /\ (s.high_calibration_set \/ pulse >= 1500)
            /\ s.high_threshold >= (IF s.high_calibration_set THEN 1475 ELSE 1500)
            /\ s.low_threshold <= 1260
            => /\ r.high_threshold >= (IF r.high_calibration_set THEN 1475 ELSE 1500)
               /\ r.low_threshold <=
                    (IF r.high_calibration_set /\ ~r.calibration_required
                     THEN 1285 ELSE 1260)
<1>1. CASE ~s.high_calibration_set
  <2> DEFINE counts == (s.high_calibration_counts + 1) % CounterSize
             done   == counts > HighCount
             high   == Smoothed(s.high_threshold, pulse) - (IF done THEN 25 ELSE 0)
  <2>1. counts \in Int
    BY ModInt DEF Servos
  <2>2. high \in Int /\ LastHigh(s, pulse) \in Int
    BY DEF Smoothed, LastHigh, Servos
  <2>3. pulse >= 1500 /\ s.high_threshold >= 1500
          => high >= (IF done THEN 1475 ELSE 1500)
    BY DEF Smoothed, Servos
  <2>4. CASE Abandons(s, pulse)
    <3>1. r =
            [s EXCEPT !.high_calibration_counts = counts,
                      !.last_high_threshold = LastHigh(s, pulse),
                      !.calibration_required = FALSE]
      BY <1>1, <2>4 DEF Calibrate, CalibrateHigh
    <3> HIDE DEF counts, done, high
    <3>2. /\ r \in Servos
          /\ r.high_threshold = s.high_threshold
          /\ r.low_threshold = s.low_threshold
          /\ r.high_calibration_set = s.high_calibration_set
      BY <2>1, <2>2, <3>1 DEF Servos
    <3> QED BY <1>1, <3>2
  <2>5. CASE ~Abandons(s, pulse)
    <3>1. r =
            [s EXCEPT !.high_calibration_counts = counts,
                      !.last_high_threshold = high,
                      !.high_threshold = high,
                      !.high_calibration_set = done]
      BY <1>1, <2>5 DEF Calibrate, CalibrateHigh, Margin
    <3>2. done \in BOOLEAN
      OBVIOUS
    <3> HIDE DEF counts, done, high
    <3>3. /\ r \in Servos
          /\ r.high_threshold = high
          /\ r.low_threshold = s.low_threshold
          /\ r.high_calibration_set = done
          /\ r.calibration_required = TRUE
      BY <2>1, <2>2, <3>1, <3>2 DEF Servos
    <3> QED BY <1>1, <2>3, <3>3
  <2> QED BY <2>4, <2>5
<1>2. CASE s.high_calibration_set
  <2> DEFINE counted == pulse < 1250
             counts  == (s.low_calibration_counts + (IF counted THEN 1 ELSE 0))
                          % CounterSize
             done    == counts > LowCount
             low     == IF counted THEN Smoothed(s.low_threshold, pulse)
                        ELSE s.low_threshold
             after   == low + (IF done THEN 25 ELSE 0)
             kept    == IF done THEN 0 ELSE counts
             more    == ~done
  <2>1. counts \in Int
    BY ModInt DEF Servos
  <2>2. low \in Int /\ (s.low_threshold <= 1260 => low <= 1260)
    BY DEF Smoothed, Servos
  <2>3. after \in Int /\ kept \in Int /\ more \in BOOLEAN
        /\ (s.low_threshold <= 1260 => after <= (IF more THEN 1260 ELSE 1285))
    <3> HIDE DEF counts, low
    <3> QED BY <2>1, <2>2
  <2>4. r =
          [s EXCEPT !.low_threshold = after,
                    !.low_calibration_counts = kept,
                    !.calibration_required = more]
    BY <1>2 DEF Calibrate, CalibrateLow, Margin
  <2> HIDE DEF counted, counts, low, done, after, kept, more
  <2>5. /\ r \in Servos
        /\ r.high_threshold = s.high_threshold
        /\ r.low_threshold = after
        /\ r.high_calibration_set = s.high_calibration_set
        /\ r.calibration_required = more
    <3>1. after \in Int /\ kept \in Int
      BY <2>3
    <3>2. more \in BOOLEAN
      BY <2>3
    <3> QED BY <2>4, <3>1, <3>2 DEF Servos
  <2> QED BY <1>2, <2>3, <2>5
<1> QED BY <1>1, <1>2

(* The window is averaged. *)
LEMMA AverageKeeps ==
  ASSUME NEW t \in Transfers, NEW time \in Int, NEW u, u = Averaged(t, time)
  PROVE  /\ u \in Transfers
         /\ u.servo = t.servo
         /\ u = t \/ AverageCounted(t, u, time)
<1> DEFINE sum  == t.average_packet_length + time
           last == t.average_count = 7
           low  == IF last THEN sum \div 8 - sum \div 128 ELSE t.frametime_low
           high == IF last THEN sum \div 8 + sum \div 128 ELSE t.frametime_high
           more == t.average_count + 1
<1>1. CASE t.average_count < 8 /\ t.zero_input_count > AverageAfter
  <2>1. u = [t EXCEPT !.average_count = more, !.average_packet_length = sum,
                      !.frametime_low = low, !.frametime_high = high]
    BY <1>1 DEF Averaged, AverageFrames
  <2>2. sum \in Int /\ more \in 0 .. 8
    BY <1>1 DEF Transfers
  <2>3. low \in Int /\ high \in Int
    <3>1. t.frametime_low \in Int /\ t.frametime_high \in Int
      BY DEF Transfers
    <3> HIDE DEF sum, last
    <3> QED BY <2>2, <3>1
  <2>4. last => low = sum \div 8 - sum \div 128 /\ high = sum \div 8 + sum \div 128
    OBVIOUS
  <2>5. /\ u \in Transfers
        /\ u.servo = t.servo
        /\ u.average_count = more
        /\ u.average_packet_length = sum
        /\ u.frametime_low = low
        /\ u.frametime_high = high
    <3> HIDE DEF sum, last, low, high, more
    <3> QED BY <2>1, <2>2, <2>3 DEF Transfers
  <2> QED BY <1>1, <2>4, <2>5 DEF AverageCounted
<1>2. CASE ~(t.average_count < 8 /\ t.zero_input_count > AverageAfter)
  BY <1>2 DEF Averaged, AverageFrames
<1> QED BY <1>1, <1>2

(* A pulse moves the throttle by at most MaxDeviation. *)
LEMMA MapInt ==
  ASSUME NEW x \in Int, NEW a \in Int, NEW b \in Int
  PROVE  MapRange(x, a, b, 47, 2047) \in Int
<1>1. CASE a = b
  BY <1>1 DEF MapRange
<1>2. CASE a # b
  <2> DEFINE c == Clamp(x, Least(a, b), Most(a, b))
             top == (c - a) * (2047 - 47)
             low == b - a
  <2>1. c \in Int
    BY DEF Clamp, Least, Most
  <2>2. top \in Int
    <3> HIDE DEF c
    <3> QED BY <2>1
  <2>3. low \in Int /\ low # 0
    BY <1>2
  <2>4. MapRange(x, a, b, 47, 2047) = 47 + Quotient(top, low)
    BY <1>2 DEF MapRange
  <2> HIDE DEF top, low
  <2>5. Quotient(top, low) \in Int
    <3>1. Most(top, -top) \in Int /\ Most(low, -low) \in Int /\ Most(low, -low) > 0
      BY <2>2, <2>3 DEF Most
    <3>2. Most(top, -top) \div Most(low, -low) \in Int
      BY <3>1
    <3> QED BY <3>2 DEF Quotient
  <2> QED BY <2>4, <2>5
<1> QED BY <1>1, <1>2

LEMMA ThrottleMoves ==
  ASSUME NEW s \in Servos, NEW pulse \in Nat, NEW current \in Int
  PROVE  /\ ServoThrottle(s, pulse, current) \in Int
         /\ ServoThrottle(s, pulse, current) - current <= 250
         /\ current - ServoThrottle(s, pulse, current) <= 250
<1> DEFINE raw == MapRange(pulse, s.low_threshold, s.high_threshold, 47, 2047)
           target == IF raw <= 48 THEN 0 ELSE raw
<1>1. raw \in Int
  BY MapInt DEF Servos
<1>2. target \in Int
  <2> HIDE DEF raw
  <2> QED BY <1>1
<1>3. ServoThrottle(s, pulse, current) = RateLimited(target, current)
  BY DEF ServoThrottle, RawInput
<1> HIDE DEF target
<1> QED BY <1>2, <1>3 DEF RateLimited, MaxDeviation

(* What the unarmed housekeeping leaves alone. *)
LEMMA HousekeepingKeeps ==
  ASSUME LinkShaped, NEW t \in Transfers, NEW time \in Int,
         NEW u, u = Housekeeping(t, time)
  PROVE  /\ u \in Transfers
         /\ u.servo.low_threshold = t.servo.low_threshold
         /\ u.servo.high_threshold = t.servo.high_threshold
         /\ u.servo.high_calibration_set = t.servo.high_calibration_set
         /\ u.servo.calibration_required =>
              t.servo.calibration_required
                \/ /\ ~link_armed /\ adjusted_input > 1500
                   /\ ~t.servo.high_calibration_set
         /\ \/ AverageKept(t, u)
            \/ protocol = "dshot" /\ AverageCounted(t, u, time)
<1>1. CASE link_armed
  BY <1>1 DEF Housekeeping, AverageKept
<1>2. CASE ~link_armed /\ protocol = "dshot"
  <2> DEFINE v == Averaged(t, time)
  <2>1. u = EntryChecked(v, adjusted_input, disabled)
    BY <1>2 DEF Housekeeping
  <2>2. v \in Transfers /\ v.servo = t.servo
    BY AverageKeeps
  <2>3. v = t \/ AverageCounted(t, v, time)
    BY AverageKeeps
  <2> HIDE DEF v
  <2>4. adjusted_input \in Int /\ disabled \in BOOLEAN
    BY DEF LinkShaped
  <2>5. /\ u \in Transfers
        /\ u.servo.low_threshold = v.servo.low_threshold
        /\ u.servo.high_threshold = v.servo.high_threshold
        /\ u.servo.high_calibration_set = v.servo.high_calibration_set
        /\ AverageKept(v, u)
        /\ u.servo.calibration_required =>
             v.servo.calibration_required
               \/ (adjusted_input > 1500 /\ ~v.servo.high_calibration_set)
    BY <2>1, <2>2, <2>4, EntryKeeps
  <2>6. AverageKept(t, u) \/ AverageCounted(t, u, time)
    BY <2>3, <2>5 DEF AverageKept, AverageCounted
  <2> QED BY <1>2, <2>2, <2>5, <2>6
<1>3. CASE ~link_armed /\ protocol # "dshot"
  <2>1. u = EntryChecked(t, adjusted_input, disabled)
    BY <1>3 DEF Housekeeping
  <2>2. adjusted_input \in Int /\ disabled \in BOOLEAN
    BY DEF LinkShaped
  <2> QED BY <1>3, <2>1, <2>2, EntryKeeps
<1> QED BY <1>1, <1>2, <1>3

(* The state a servo frame gives to the housekeeping. *)
LEMMA PulseKeeps ==
  ASSUME NEW t \in Transfers, NEW pulse \in Nat, t.servo.calibration_required,
         NEW u, u = [t EXCEPT !.servo = Calibrate(t.servo, pulse)]
  PROVE  /\ u \in Transfers
         /\ u.servo = Calibrate(t.servo, pulse)
         /\ AverageKept(t, u)
<1> DEFINE r == Calibrate(t.servo, pulse)
<1>1. t.servo \in Servos
  BY DEF Transfers
<1>2. r \in Servos
  BY <1>1, CalibrateKeeps
<1>3. u = [t EXCEPT !.servo = r]
  OBVIOUS
<1> HIDE DEF r
<1> QED BY <1>2, <1>3 DEF Transfers, AverageKept

LEMMA LinkBytes == LowBytes \subseteq Byte /\ HighBytes \subseteq Byte
BY LinkAssumption

LEMMA LinkSticks == Pulses \subseteq Nat /\ DshotThrottles \subseteq 0 .. 2047
BY LinkAssumption

LEMMA LinkTimes == FrameTimes \subseteq Times /\ SteadyTime \in FrameTimes
BY LinkAssumption

LEMMA SteadyNat == SteadyTime \in Nat
<1>1. SteadyTime \in Times
  BY LinkTimes
<1> QED BY <1>1 DEF Times

LEMMA LinkInitial == LinkInit => LinkInv
<1> SUFFICES ASSUME LinkInit PROVE LinkInv
  OBVIOUS
<1>1. PICK c \in [servo_low_threshold : LowBytes, servo_high_threshold : HighBytes] :
        transfer = NewTransfer(ServoLow(c), ServoHigh(c))
  BY DEF LinkInit
<1>2. c.servo_low_threshold \in 0 .. 255 /\ c.servo_high_threshold \in 0 .. 255
  <2>1. c.servo_low_threshold \in LowBytes /\ c.servo_high_threshold \in HighBytes
    BY <1>1
  <2>2. c.servo_low_threshold \in Byte /\ c.servo_high_threshold \in Byte
    BY <2>1, LinkBytes
  <2> QED BY <2>2 DEF Byte
<1>3. /\ ServoLow(c) \in Int /\ ServoLow(c) <= 1260
      /\ ServoHigh(c) \in Int /\ ServoHigh(c) >= 1500
  BY <1>2 DEF ServoLow, ServoHigh
<1> DEFINE s == NewServo(ServoLow(c), ServoHigh(c))
<1>4. /\ s \in Servos
      /\ s.low_threshold <= 1260 /\ s.high_threshold >= 1500
      /\ ~s.calibration_required /\ ~s.high_calibration_set
  BY <1>3 DEF NewServo, Servos
<1>5. /\ transfer \in Transfers
      /\ transfer.servo = s
      /\ transfer.average_count = 0
      /\ transfer.average_packet_length = 0
  <2>1. transfer = [servo |-> s, average_count |-> 0, average_packet_length |-> 0,
                    enter_calibration_count |-> 0, last_input |-> 0,
                    zero_input_count |-> 0, frametime_low |-> 400,
                    frametime_high |-> 600]
    BY <1>1 DEF NewTransfer
  <2> HIDE DEF s
  <2> QED BY <1>4, <2>1 DEF Transfers
<1>6. LinkShaped
  <2>1. protocol \in {"servo", "dshot"} /\ stick \in Positions
        /\ disabled \in BOOLEAN /\ newinput = 0 /\ adjusted_input = 0
        /\ behind = 0 /\ link_armed = FALSE /\ link_arming = 0
        /\ strayed = FALSE /\ disturbed = FALSE
    BY DEF LinkInit
  <2>2. stick \in Nat
    <3>1. Positions \subseteq Nat
      BY LinkSticks DEF Positions
    <3> QED BY <2>1, <3>1
  <2>3. 0 <= Lag + 1
    BY LinkAssumption
  <2>4. link_armed \in BOOLEAN /\ strayed \in BOOLEAN /\ disturbed \in BOOLEAN
    BY <2>1
  <2> QED BY <1>5, <2>1, <2>2, <2>3, <2>4 DEF LinkShaped
<1>7. ThrottleFollowed
  BY <1>4, <1>5 DEF LinkInit, ThrottleFollowed
<1>8. EndsApart
  BY <1>4, <1>5 DEF EndsApart
<1>9. AveragedSteady
  <2>1. 0 * SteadyTime = 0
    BY SteadyNat
  <2>2. transfer.average_packet_length = transfer.average_count * SteadyTime
        /\ transfer.average_count # 8
    BY <1>5, <2>1
  <2> QED BY <2>2 DEF AveragedSteady, SteadilyAveraged
<1> QED BY <1>6, <1>7, <1>8, <1>9 DEF LinkInv

(* A frame that is not counted, or took SteadyTime. *)
LEMMA SteadyKept ==
  ASSUME NEW t, NEW u, SteadilyAveraged(t), AverageKept(t, u)
  PROVE  SteadilyAveraged(u)
BY DEF SteadilyAveraged, AverageKept

LEMMA SteadyCounted ==
  ASSUME NEW t \in Transfers, NEW u,
         SteadilyAveraged(t), AverageCounted(t, u, SteadyTime)
  PROVE  SteadilyAveraged(u)
<1> DEFINE count == t.average_count
           sum == t.average_packet_length + SteadyTime
<1>1. count \in Int
  BY DEF Transfers
<1>2. sum = (count + 1) * SteadyTime
  BY <1>1, SteadyNat DEF SteadilyAveraged
<1>3. u.average_count = count + 1 /\ u.average_packet_length = sum
  BY DEF AverageCounted
<1>4. CASE count = 7
  <2>1. sum = 8 * SteadyTime
    BY <1>2, <1>4
  <2>2. u.frametime_low = sum \div 8 - sum \div 128
        /\ u.frametime_high = sum \div 8 + sum \div 128
    BY <1>4 DEF AverageCounted
  <2>3. u.average_count = 8
    BY <1>3, <1>4
  <2> HIDE DEF sum, count
  <2> QED BY <1>3, <2>1, <2>2, <2>3 DEF SteadilyAveraged
<1>5. CASE count # 7
  <2>1. u.average_count # 8
    BY <1>1, <1>3, <1>5
  <2> QED BY <1>2, <1>3, <2>1 DEF SteadilyAveraged
<1> QED BY <1>4, <1>5

(* A pulse of the servo. *)
LEMMA ServoFrameKeeps ==
  ASSUME LinkInv, HearFrame, ServoFrame
  PROVE  LinkInv'
<1> USE DEF LinkInv
<1> DEFINE s == transfer.servo
           t == IF ~PulseInRange(stick) THEN [transfer EXCEPT !.zero_input_count = 0]
                ELSE IF s.calibration_required
                THEN [transfer EXCEPT !.servo = Calibrate(s, stick)]
                ELSE transfer
           calibrates == PulseInRange(stick) /\ s.calibration_required
<1>1. /\ protocol = "servo" /\ protocol' = "servo"
      /\ transfer' = Housekeeping(t, 0)
      /\ newinput' = IF PulseInRange(stick) /\ ~s.calibration_required
                     THEN ServoThrottle(s, stick, newinput) ELSE newinput
      /\ strayed' = (strayed \/ (MeasuresHighEnd(transfer) /\ stick < HeldAbove))
      /\ disturbed' = disturbed
  BY DEF ServoFrame, HearFrame
<1>2. /\ behind <= Lag /\ behind' = behind + 1
      /\ UNCHANGED <<stick, disabled, adjusted_input, link_armed, link_arming>>
  BY DEF HearFrame
<1>3. transfer \in Transfers /\ s \in Servos /\ stick \in Nat /\ newinput \in Int
  BY DEF LinkShaped, Transfers
<1>4. /\ t \in Transfers
      /\ t.servo = IF calibrates THEN Calibrate(s, stick) ELSE s
      /\ AverageKept(transfer, t)
  <2>1. CASE ~PulseInRange(stick)
    <3>1. t = [transfer EXCEPT !.zero_input_count = 0] /\ ~calibrates
      BY <2>1
    <3> HIDE DEF t, calibrates
    <3> QED BY <1>3, <3>1 DEF Transfers, AverageKept
  <2>2. CASE calibrates
    <3>1. t = [transfer EXCEPT !.servo = Calibrate(s, stick)] /\ s.calibration_required
      BY <2>2
    <3> HIDE DEF t, calibrates
    <3> QED BY <1>3, <2>2, <3>1, PulseKeeps
  <2>3. CASE PulseInRange(stick) /\ ~s.calibration_required
    <3>1. t = transfer /\ ~calibrates
      BY <2>3
    <3> HIDE DEF t, calibrates
    <3> QED BY <1>3, <3>1 DEF AverageKept
  <2> QED BY <2>1, <2>2, <2>3
<1> HIDE DEF t
<1>5. /\ transfer' \in Transfers
      /\ transfer'.servo.low_threshold = t.servo.low_threshold
      /\ transfer'.servo.high_threshold = t.servo.high_threshold
      /\ transfer'.servo.high_calibration_set = t.servo.high_calibration_set
      /\ transfer'.servo.calibration_required =>
           t.servo.calibration_required
             \/ /\ ~link_armed /\ adjusted_input > 1500
                /\ ~t.servo.high_calibration_set
      /\ AverageKept(transfer, transfer')
  <2>1. 0 \in Int /\ LinkShaped /\ protocol # "dshot"
    BY <1>1
  <2> DEFINE u == transfer'
  <2>2. u = Housekeeping(t, 0)
    BY <1>1
  <2>3. t \in Transfers /\ AverageKept(transfer, t)
    BY <1>4
  <2> HIDE DEF u
  <2>4. /\ u \in Transfers
        /\ u.servo.low_threshold = t.servo.low_threshold
        /\ u.servo.high_threshold = t.servo.high_threshold
        /\ u.servo.high_calibration_set = t.servo.high_calibration_set
        /\ u.servo.calibration_required =>
             t.servo.calibration_required
               \/ /\ ~link_armed /\ adjusted_input > 1500
                  /\ ~t.servo.high_calibration_set
        /\ AverageKept(t, u)
    BY <2>1, <2>2, <2>3, HousekeepingKeeps
  <2>5. AverageKept(transfer, u)
    BY <2>3, <2>4 DEF AverageKept
  <2> QED BY <2>4, <2>5 DEF u
<1>6. /\ newinput' \in Int
      /\ newinput' - newinput <= 250 /\ newinput - newinput' <= 250
  BY <1>1, <1>3, ThrottleMoves
<1>12. ASSUME s.calibration_required
       PROVE  newinput' = newinput
  BY <1>1, <1>12
<1>7. t.servo.calibration_required => s.calibration_required
  BY <1>4
<1>8. (LinkShaped)'
  <2>1. behind' \in Nat /\ behind' <= Lag + 1
    BY <1>2, LinkAssumption DEF LinkShaped
  <2>2. strayed' \in BOOLEAN
    BY <1>1
  <2> QED BY <1>1, <1>2, <1>5, <1>6, <2>1, <2>2 DEF LinkShaped
<1>9. ThrottleFollowed'
  <2>1. newinput - adjusted_input <= behind * 250
        /\ adjusted_input - newinput <= behind * 250
    BY <1>1 DEF ThrottleFollowed
  <2>6. ASSUME s.calibration_required
        PROVE  ~link_armed /\ newinput > 0 /\ adjusted_input > 0
    BY <1>1, <2>6 DEF ThrottleFollowed
  <2>2. adjusted_input \in Int /\ behind \in Nat /\ behind <= Lag
    BY <1>2 DEF LinkShaped
  <2>3. newinput' - adjusted_input <= (behind + 1) * 250
        /\ adjusted_input - newinput' <= (behind + 1) * 250
    <3>1. newinput \in Int /\ newinput' \in Int /\ adjusted_input \in Int /\ behind \in Nat
      BY <1>3, <1>6, <2>2
    <3>2. newinput' - newinput <= 250 /\ newinput - newinput' <= 250
      BY <1>6
    <3>3. \A n \in Int :
             n - newinput <= 250 /\ newinput - n <= 250
               => n - adjusted_input <= (behind + 1) * 250
                  /\ adjusted_input - n <= (behind + 1) * 250
      BY <2>1, <3>1
    <3> QED BY <3>1, <3>2, <3>3
  <2>4. (behind + 1) * 250 < 1500
    BY <2>2, LinkAssumption DEF MaxDeviation, MinThrottle
  <2>5. transfer'.servo.calibration_required
          => ~link_armed /\ newinput' > 0 /\ adjusted_input > 0
    <3>1. CASE s.calibration_required
      <4>1. newinput' = newinput
        BY <1>12, <3>1
      <4>2. ~link_armed /\ newinput > 0 /\ adjusted_input > 0
        BY <2>6, <3>1
      <4> QED BY <4>1, <4>2
    <3>2. CASE ~s.calibration_required
      <4>1. transfer'.servo.calibration_required => ~link_armed /\ adjusted_input > 1500
        BY <1>5, <1>7, <3>2
      <4>2. adjusted_input > 1500 => newinput' > 0 /\ adjusted_input > 0
        <5>1. newinput' \in Int
          BY <1>6
        <5>2. \A n \in Int :
                 adjusted_input - n <= (behind + 1) * 250 /\ adjusted_input > 1500
                   => n > 0 /\ adjusted_input > 0
          BY <2>2, <2>4
        <5> QED BY <2>3, <5>1, <5>2
      <4> QED BY <4>1, <4>2
    <3> QED BY <3>1, <3>2
  <2> QED BY <1>2, <2>3, <2>5 DEF ThrottleFollowed
<1>10. EndsApart'
  <2> SUFFICES ASSUME ~strayed'
               PROVE  LET u == transfer'.servo
                      IN  /\ u.high_threshold >=
                               (IF u.high_calibration_set THEN 1475 ELSE 1500)
                          /\ u.low_threshold <=
                               (IF u.high_calibration_set /\ ~u.calibration_required
                                THEN 1285 ELSE 1260)
    BY DEF EndsApart
  <2>1. ~strayed /\ (s.calibration_required /\ ~s.high_calibration_set => stick >= 1500)
    <3>1. ~strayed /\ ~(MeasuresHighEnd(transfer) /\ stick < 1500)
      BY <1>1 DEF HeldAbove
    <3>2. ~(stick < 1500) => stick >= 1500
      BY <1>3
    <3> QED BY <3>1, <3>2 DEF MeasuresHighEnd
  <2>2. /\ s.high_threshold >= (IF s.high_calibration_set THEN 1475 ELSE 1500)
        /\ s.low_threshold <=
             (IF s.high_calibration_set /\ ~s.calibration_required THEN 1285 ELSE 1260)
    BY <2>1 DEF EndsApart
  <2> DEFINE r == t.servo
  <2>3. /\ r.high_threshold >= (IF r.high_calibration_set THEN 1475 ELSE 1500)
        /\ r.low_threshold <=
             (IF r.high_calibration_set /\ ~r.calibration_required THEN 1285 ELSE 1260)
    <3>1. CASE calibrates
      <4>1. r = Calibrate(s, stick) /\ s.calibration_required
        BY <1>4, <3>1
      <4> HIDE DEF s, r
      <4> QED BY <1>3, <2>1, <2>2, <4>1, CalibrateKeeps
    <3>2. CASE ~calibrates
      BY <1>4, <2>2, <3>2
    <3> QED BY <3>1, <3>2
  <2> HIDE DEF r
  <2>4. r.low_threshold \in Int
    BY <1>4 DEF Transfers, Servos, r
  <2> QED BY <1>5, <2>3, <2>4 DEF r
<1>11. AveragedSteady'
  <2>1. SteadilyAveraged(transfer) => SteadilyAveraged(transfer')
    BY <1>5, SteadyKept
  <2> QED BY <1>1, <2>1 DEF AveragedSteady, SteadilyAveraged
<1> QED BY <1>8, <1>9, <1>10, <1>11

(* A frame of DShot. *)
LEMMA DshotFrameKeeps ==
  ASSUME LinkInv, HearFrame, NEW time \in FrameTimes, DshotFrame(time)
  PROVE  LinkInv'
<1> USE DEF LinkInv
<1>1. /\ protocol = "dshot" /\ protocol' = "dshot"
      /\ transfer' = Housekeeping(transfer, time)
      /\ newinput' \in {stick, newinput}
      /\ strayed' = strayed
      /\ disturbed' = (disturbed \/
           (time # SteadyTime
             /\ transfer'.average_count # transfer.average_count))
  BY DEF DshotFrame, HearFrame
<1>2. /\ behind <= Lag /\ behind' = behind + 1
      /\ UNCHANGED <<stick, disabled, adjusted_input, link_armed, link_arming>>
  BY DEF HearFrame
<1>3. transfer \in Transfers /\ stick \in Nat /\ newinput \in Int
  BY DEF LinkShaped
<1>4. time \in Int
  <2>1. time \in Times
    BY LinkTimes
  <2> QED BY <2>1 DEF Times
<1>5. /\ transfer' \in Transfers
      /\ transfer'.servo.low_threshold = transfer.servo.low_threshold
      /\ transfer'.servo.high_threshold = transfer.servo.high_threshold
      /\ transfer'.servo.high_calibration_set = transfer.servo.high_calibration_set
      /\ transfer'.servo.calibration_required =>
           transfer.servo.calibration_required
             \/ /\ ~link_armed /\ adjusted_input > 1500
                /\ ~transfer.servo.high_calibration_set
      /\ \/ AverageKept(transfer, transfer')
         \/ AverageCounted(transfer, transfer', time)
  <2> DEFINE u == transfer'
  <2>1. LinkShaped /\ u = Housekeeping(transfer, time)
    BY <1>1
  <2> HIDE DEF u
  <2>2. /\ u \in Transfers
        /\ u.servo.low_threshold = transfer.servo.low_threshold
        /\ u.servo.high_threshold = transfer.servo.high_threshold
        /\ u.servo.high_calibration_set = transfer.servo.high_calibration_set
        /\ u.servo.calibration_required =>
             transfer.servo.calibration_required
               \/ /\ ~link_armed /\ adjusted_input > 1500
                  /\ ~transfer.servo.high_calibration_set
        /\ \/ AverageKept(transfer, u)
           \/ protocol = "dshot" /\ AverageCounted(transfer, u, time)
    BY <1>3, <1>4, <2>1, HousekeepingKeeps
  <2> QED BY <2>2 DEF u
<1>6. LinkShaped'
  <2>1. behind' \in Nat /\ behind' <= Lag + 1
    BY <1>2, LinkAssumption DEF LinkShaped
  <2>2. strayed' \in BOOLEAN /\ disturbed' \in BOOLEAN
    BY <1>1 DEF LinkShaped
  <2>3. newinput' \in Int
    BY <1>1, <1>3
  <2> QED BY <1>1, <1>2, <1>5, <2>1, <2>2, <2>3 DEF LinkShaped
<1>7. ThrottleFollowed'
  BY <1>1 DEF ThrottleFollowed
<1>8. EndsApart'
  <2> SUFFICES ASSUME ~strayed'
               PROVE  LET u == transfer'.servo
                      IN  /\ u.high_threshold >=
                               (IF u.high_calibration_set THEN 1475 ELSE 1500)
                          /\ u.low_threshold <=
                               (IF u.high_calibration_set /\ ~u.calibration_required
                                THEN 1285 ELSE 1260)
    BY DEF EndsApart
  <2> DEFINE r == transfer.servo
  <2>3. /\ r.high_threshold >= (IF r.high_calibration_set THEN 1475 ELSE 1500)
        /\ r.low_threshold <=
             (IF r.high_calibration_set /\ ~r.calibration_required THEN 1285 ELSE 1260)
    BY <1>1 DEF EndsApart
  <2>4. r.low_threshold \in Int
    BY <1>3 DEF Transfers, Servos
  <2> HIDE DEF r
  <2> QED BY <1>5, <2>3, <2>4 DEF r
<1>9. AveragedSteady'
  <2> SUFFICES ASSUME ~disturbed'
               PROVE  SteadilyAveraged(transfer')
    BY DEF AveragedSteady, SteadilyAveraged
  <2>1. ~disturbed
        /\ (time = SteadyTime \/ transfer'.average_count = transfer.average_count)
    BY <1>1
  <2>2. SteadilyAveraged(transfer)
    BY <2>1 DEF AveragedSteady
  <2>3. CASE AverageKept(transfer, transfer')
    BY <2>2, <2>3, SteadyKept
  <2>4. CASE AverageCounted(transfer, transfer', time)
    <3>1. transfer'.average_count = transfer.average_count + 1
      BY <2>4 DEF AverageCounted
    <3>2. transfer.average_count \in Int
      BY <1>3 DEF Transfers
    <3>3. time = SteadyTime
      BY <2>1, <3>1, <3>2
    <3> QED BY <1>3, <2>2, <2>4, <3>3, SteadyCounted
  <2> QED BY <1>5, <2>3, <2>4
<1> QED BY <1>6, <1>7, <1>8, <1>9

LEMMA LinkStep ==
  ASSUME LinkInv, [LinkNext]_linkVars
  PROVE  LinkInv'
<1>1. CASE MoveStick
  <2>1. stick' \in Nat
    <3>1. Positions \subseteq Nat
      BY LinkSticks DEF Positions
    <3> QED BY <1>1, <3>1 DEF MoveStick
  <2>2. UNCHANGED <<protocol, transfer, disabled, newinput, adjusted_input, behind,
                    link_armed, link_arming, strayed, disturbed>>
    BY <1>1 DEF MoveStick
  <2> QED BY <2>1, <2>2 DEF LinkInv, LinkShaped, ThrottleFollowed, EndsApart,
                            AveragedSteady, SteadilyAveraged
<1>2. CASE HearFrame
  <2>1. CASE ServoFrame
    BY <1>2, <2>1, ServoFrameKeeps
  <2>2. CASE \E time \in FrameTimes : DshotFrame(time)
    <3>1. PICK time \in FrameTimes : DshotFrame(time)
      BY <2>2
    <3> QED BY <1>2, <3>1, DshotFrameKeeps
  <2> QED BY <1>2, <2>1, <2>2 DEF HearFrame
<1>3. CASE AcceptThrottle
  <2>1. newinput' = 0 /\ protocol = "dshot"
        /\ UNCHANGED <<protocol, stick, transfer, disabled, adjusted_input, behind,
                       link_armed, link_arming, strayed, disturbed>>
    BY <1>3 DEF AcceptThrottle
  <2>2. 0 \in Int
    OBVIOUS
  <2> QED BY <2>1, <2>2 DEF LinkInv, LinkShaped, ThrottleFollowed, EndsApart,
                            AveragedSteady, SteadilyAveraged
<1>4. CASE PublishThrottle
  <2>1. adjusted_input' = newinput /\ behind' = 0
        /\ UNCHANGED <<protocol, stick, transfer, disabled, newinput,
                       link_armed, link_arming, strayed, disturbed>>
    BY <1>4 DEF PublishThrottle
  <2>2. newinput \in Int /\ 0 <= Lag + 1
    BY LinkAssumption DEF LinkInv, LinkShaped
  <2>3. LinkShaped'
    BY <2>1, <2>2 DEF LinkInv, LinkShaped
  <2>4. ThrottleFollowed'
    <3>1. newinput - newinput <= 0 * 250
      BY <2>2
    <3> QED BY <2>1, <3>1 DEF LinkInv, ThrottleFollowed
  <2> QED BY <2>1, <2>3, <2>4 DEF LinkInv, EndsApart, AveragedSteady, SteadilyAveraged
<1>5. CASE ArmingTick
  <2>1. UNCHANGED <<protocol, stick, transfer, disabled, newinput, adjusted_input,
                    behind, strayed, disturbed>>
    BY <1>5 DEF ArmingTick
  <2>2. link_arming \in Int /\ adjusted_input \in Int
    BY DEF LinkInv, LinkShaped
  <2>3. link_armed' \in BOOLEAN /\ link_arming' \in Int
        /\ (adjusted_input # 0 => link_armed' = FALSE)
    <3> DEFINE count == IF adjusted_input = 0 THEN link_arming + 1 ELSE 0
    <3>1. link_armed' = (count > LinkArmingTicks)
          /\ link_arming' = IF count > LinkArmingTicks THEN 0 ELSE count
      BY <1>5 DEF ArmingTick
    <3>2. count \in Int /\ (adjusted_input # 0 => ~(count > LinkArmingTicks))
      BY <2>2, LinkAssumption
    <3> HIDE DEF count
    <3>3. (count > LinkArmingTicks) \in BOOLEAN
      OBVIOUS
    <3>4. link_armed' \in BOOLEAN
      BY <3>1, <3>3, Zenon
    <3>5. link_arming' \in Int
      BY <3>1, <3>2
    <3>6. ASSUME adjusted_input # 0
          PROVE  link_armed' = FALSE
      <4>1. ~(count > LinkArmingTicks)
        BY <3>2, <3>6
      <4>2. ~link_armed'
        BY <3>1, <4>1, Zenon
      <4> QED BY <3>4, <4>2
    <3> QED BY <3>4, <3>5, <3>6
  <2>4. LinkShaped'
    BY <2>1, <2>3 DEF LinkInv, LinkShaped
  <2>5. ThrottleFollowed'
    <3>1. adjusted_input > 0 => adjusted_input # 0
      BY <2>2
    <3> QED BY <2>1, <2>3, <3>1 DEF LinkInv, ThrottleFollowed
  <2> QED BY <2>1, <2>4, <2>5 DEF LinkInv, EndsApart, AveragedSteady, SteadilyAveraged
<1>6. CASE LoseSignal
  <2>1. link_armed' = FALSE
        /\ UNCHANGED <<protocol, stick, transfer, disabled, newinput, adjusted_input,
                       behind, link_arming, strayed, disturbed>>
    BY <1>6 DEF LoseSignal
  <2>2. link_armed' \in BOOLEAN
    BY <2>1
  <2>3. LinkShaped'
    BY <2>1, <2>2 DEF LinkInv, LinkShaped
  <2>4. ThrottleFollowed'
    BY <2>1 DEF LinkInv, ThrottleFollowed
  <2> QED BY <2>1, <2>3, <2>4 DEF LinkInv, EndsApart, AveragedSteady, SteadilyAveraged
<1>7. CASE UNCHANGED linkVars
  BY <1>7 DEF linkVars, LinkInv, LinkShaped, ThrottleFollowed, EndsApart,
              AveragedSteady, SteadilyAveraged
<1> QED BY <1>1, <1>2, <1>3, <1>4, <1>5, <1>6, <1>7 DEF LinkNext

LEMMA LinkHolds == LinkInit /\ [][LinkNext]_linkVars => []LinkInv
<1>1. LinkInit => LinkInv
  BY LinkInitial
<1>2. LinkInv /\ [LinkNext]_linkVars => LinkInv'
  BY LinkStep
<1> QED BY <1>1, <1>2, PTL

LEMMA InvCalibrates == LinkInv => CalibrationSafe
<1>1. LinkInv => CalibratesOnlyUnarmed
  BY DEF LinkInv, ThrottleFollowed, CalibratesOnlyUnarmed
<1>2. LinkInv => SpanInOrder
  <2> SUFFICES ASSUME LinkInv, ~strayed
               PROVE  transfer.servo.low_threshold < transfer.servo.high_threshold
    BY DEF SpanInOrder
  <2> DEFINE r == transfer.servo
  <2>1. /\ r.high_threshold >= (IF r.high_calibration_set THEN 1475 ELSE 1500)
        /\ r.low_threshold <=
             (IF r.high_calibration_set /\ ~r.calibration_required THEN 1285 ELSE 1260)
    BY DEF LinkInv, EndsApart
  <2>2. r.low_threshold \in Int /\ r.high_threshold \in Int
    BY DEF LinkInv, LinkShaped, Transfers, Servos
  <2> HIDE DEF r
  <2>3. r.low_threshold < r.high_threshold
    BY <2>1, <2>2
  <2> QED BY <2>3 DEF r
<1> QED BY <1>1, <1>2 DEF CalibrationSafe

(* Calibration never takes the throttle of an armed motor, and leaves the ends  *)
(* of the stick the right way round, for every number of pulses that are       *)
(* averaged, every stick and every lag of the main loop below six frames       *)
(* (servo.rs:137-197, transfer.rs:162-183, isr_logic.rs:66-76).               *)
THEOREM CalibrationAlwaysSafe == LinkSpec => []CalibrationSafe
BY LinkHolds, InvCalibrates, PTL DEF LinkSpec

LEMMA InvAdmits ==
  ASSUME LinkInv, SteadyTime >= 16
  PROVE  WindowAdmitsSteady
<1> SUFFICES ASSUME transfer.average_count = 8, ~disturbed
             PROVE  FrameInWindow(transfer, SteadyTime)
  BY DEF WindowAdmitsSteady, AverageFrames
<1>1. /\ transfer.frametime_low  = (8 * SteadyTime) \div 8 - (8 * SteadyTime) \div 128
      /\ transfer.frametime_high = (8 * SteadyTime) \div 8 + (8 * SteadyTime) \div 128
  BY DEF LinkInv, AveragedSteady, SteadilyAveraged
<1>2. (8 * SteadyTime) \div 8 = SteadyTime /\ (8 * SteadyTime) \div 128 >= 1
      /\ (8 * SteadyTime) \div 128 \in Int
  BY SteadyNat
<1> QED BY <1>1, <1>2, SteadyNat DEF FrameInWindow

(* The window averaged from undisturbed frames admits them, whatever time they  *)
(* take from 16 ticks up: below that its margin is zero and the comparison is   *)
(* strict (transfer.rs:147-160, dshot.rs:52-56).                              *)
THEOREM WindowAlwaysAdmits ==
  ASSUME SteadyTime >= 16
  PROVE  LinkSpec => []WindowAdmitsSteady
<1>1. LinkInv => WindowAdmitsSteady
  BY InvAdmits
<1> QED BY <1>1, LinkHolds, PTL DEF LinkSpec

-----------------------------------------------------------------------------
(***************************************************************************)
(* The types of the signal path: the words of the calibration neither go       *)
(* round nor below zero, and the throttle stays in the range that is mapped to. *)
(***************************************************************************)

(* A share of a range of 2000. *)
LEMMA ShareWithin ==
  ASSUME NEW part \in Nat, NEW whole \in Nat, whole > 0, part <= whole
  PROVE  /\ (part * 2000) \div whole \in Int
         /\ 0 <= (part * 2000) \div whole
         /\ (part * 2000) \div whole <= 2000
<1> DEFINE top == part * 2000
           q   == top \div whole
<1>1. top \in Nat /\ top <= whole * 2000
  BY SMT
<1> HIDE DEF top
<1>2. q \in Int /\ 0 <= q
  BY <1>1, SMT
<1>3. top = whole * q + (top % whole) /\ 0 <= top % whole
  BY <1>1, Z3
<1>4. ASSUME q >= 2001 PROVE FALSE
  <2> HIDE DEF q
  <2> DEFINE k == q - 2001
             r == top % whole
  <2>1. k \in Nat /\ q = k + 2001
    BY <1>2, <1>4, SMT
  <2> HIDE DEF k
  <2>2. whole * q = whole * k + whole * 2000 + whole
    BY <2>1, Z3
  <2>3. whole * k \in Nat /\ r \in Nat
    BY <1>1, <2>1, SMT
  <2>4. top = whole * q + r
    BY <1>3
  <2>5. whole * 2000 \in Nat /\ top <= whole * 2000
    BY <1>1, SMT
  <2> HIDE DEF r
  <2> QED BY <2>2, <2>3, <2>4, <2>5, SMT
<1>5. q <= 2000
  BY <1>2, <1>4, SMT
<1> QED BY <1>2, <1>5 DEF top

(* The throttle of a pulse is in the range that it is mapped to, whichever way    *)
(* round the ends are.                                                      *)
LEMMA MapWithin ==
  ASSUME NEW x \in Int, NEW a \in Int, NEW b \in Int
  PROVE  /\ MapRange(x, a, b, 47, 2047) \in Int
         /\ 47 <= MapRange(x, a, b, 47, 2047)
         /\ MapRange(x, a, b, 47, 2047) <= 2047
<1> DEFINE c == Clamp(x, Least(a, b), Most(a, b))
           top == (c - a) * (2047 - 47)
           low == b - a
<1>1. CASE a = b
  BY <1>1 DEF MapRange
<1>2. a # b => MapRange(x, a, b, 47, 2047) = 47 + Quotient(top, low)
  BY DEF MapRange
<1>3. CASE a < b
  <2>1. c \in Int /\ c - a \in Nat /\ b - a \in Nat /\ b - a > 0 /\ c - a <= b - a
    BY <1>3 DEF Clamp, Least, Most
  <2> HIDE DEF c
  <2> DEFINE share == ((c - a) * 2000) \div (b - a)
  <2>2. share \in Int /\ 0 <= share /\ share <= 2000
    BY <2>1, ShareWithin
  <2>3. Quotient(top, low) = share
    <3>1. top = (c - a) * 2000 /\ top >= 0
      BY <2>1, SMT
    <3>2. Most(top, -top) = top /\ Most(low, -low) = low
      <4> HIDE DEF top
      <4> QED BY <2>1, <3>1 DEF Most
    <3> HIDE DEF top
    <3> QED BY <2>1, <3>1, <3>2 DEF Quotient
  <2> HIDE DEF share, top, low
  <2> QED BY <1>2, <1>3, <2>2, <2>3
<1>4. CASE a > b
  <2>1. c \in Int /\ a - c \in Nat /\ a - b \in Nat /\ a - b > 0 /\ a - c <= a - b
    BY <1>4 DEF Clamp, Least, Most
  <2> HIDE DEF c
  <2> DEFINE share == ((a - c) * 2000) \div (a - b)
  <2>2. share \in Int /\ 0 <= share /\ share <= 2000
    BY <2>1, ShareWithin
  <2>3. Quotient(top, low) = share
    <3>1. top \in Int /\ -top = (a - c) * 2000 /\ -top >= 0
      BY <2>1, SMT
    <3>2. Most(top, -top) = -top /\ Most(low, -low) = a - b
      <4> HIDE DEF top
      <4> QED BY <2>1, <3>1 DEF Most
    <3>3. CASE top = 0
      <4>1. a - c = 0
        BY <2>1, <3>1, <3>3, SMT
      <4>2. share = 0
        <5>1. (a - c) * 2000 = 0
          BY <4>1
        <5> QED BY <2>1, <5>1, SMT
      <4>3. Quotient(top, low) = share \/ Quotient(top, low) = -share
        BY <3>1, <3>2 DEF Quotient
      <4> QED BY <4>2, <4>3
    <3>4. CASE top < 0
      <4>1. ~(top >= 0) /\ ~(low > 0)
        BY <2>1, <3>1, <3>4
      <4> HIDE DEF top, low
      <4>2. (top >= 0) = (low > 0)
        BY <4>1
      <4> QED BY <3>1, <3>2, <4>2 DEF Quotient
    <3> QED BY <3>1, <3>3, <3>4
  <2> HIDE DEF share, top, low
  <2> QED BY <1>2, <1>4, <2>2, <2>3
<1> QED BY <1>1, <1>3, <1>4

(* The ends that are configured, and what the averages and the margins make of    *)
(* them: each margin is taken once.                                          *)
EndsBounded(s) ==
  /\ 750 <= s.low_threshold
  /\ s.low_threshold <=
       (IF s.high_calibration_set /\ ~s.calibration_required THEN 1285 ELSE 1260)
  /\ (IF s.high_calibration_set THEN 776 ELSE 801) <= s.high_threshold
  /\ s.high_threshold <= 2260
  /\ 0 <= s.last_high_threshold /\ s.last_high_threshold <= 2260

CountsBounded(s) ==
  /\ s.high_calibration_counts \in Counter
  /\ s.low_calibration_counts \in Counter

ServoBounded(s) == s \in Servos /\ EndsBounded(s) /\ CountsBounded(s)

TransferBounded(t) ==
  /\ t \in Transfers
  /\ ServoBounded(t.servo)
  /\ 0 <= t.average_packet_length
  /\ t.enter_calibration_count \in Counter
  /\ 0 <= t.last_input /\ t.last_input <= 2047
  /\ 0 <= t.zero_input_count /\ t.zero_input_count <= ZeroInputCap
  /\ 0 <= t.frametime_low /\ 0 <= t.frametime_high

LEMMA CountAround ==
  ASSUME NEW c \in Int
  PROVE  c % CounterSize \in Counter
<1>1. CounterSize \in Nat /\ CounterSize > 0
  BY ServoAssumption
<1> QED BY <1>1, SMT DEF Counter

LEMMA CountZero == 0 \in Counter
<1>1. CounterSize \in Nat /\ CounterSize > 0
  BY ServoAssumption
<1> QED BY <1>1, SMT DEF Counter

(* Averages stay between what they are taken of.                              *)
LEMMA SmoothedWithin ==
  ASSUME NEW e \in Int, NEW p \in Int, NEW lo \in Int, NEW hi \in Int,
         lo <= e, e <= hi, lo <= p, p <= hi
  PROVE  Smoothed(e, p) \in Int /\ lo <= Smoothed(e, p) /\ Smoothed(e, p) <= hi
BY SMT DEF Smoothed

(* A pulse that calibrates keeps the ends in their bounds. *)
LEMMA CalibrateBounded ==
  ASSUME NEW s, ServoBounded(s), NEW pulse \in Nat, PulseInRange(pulse),
         s.calibration_required, NEW r, r = Calibrate(s, pulse)
  PROVE  ServoBounded(r)
<1>0. s \in Servos
  BY DEF ServoBounded
<1>1. r \in Servos
  BY <1>0, CalibrateKeeps
<1>2. 801 <= pulse /\ pulse <= 2199
  BY DEF PulseInRange
<1>3. /\ s.low_threshold \in Int /\ s.high_threshold \in Int
      /\ s.last_high_threshold \in Int
      /\ s.high_calibration_counts \in Int /\ s.low_calibration_counts \in Int
  BY <1>0 DEF Servos
<1>4. CASE ~s.high_calibration_set
  <2> DEFINE counts == (s.high_calibration_counts + 1) % CounterSize
             done   == counts > HighCount
             high   == Smoothed(s.high_threshold, pulse) - (IF done THEN 25 ELSE 0)
  <2>1. counts \in Counter
    BY <1>3, CountAround
  <2>2. high \in Int /\ high <= 2260 /\ (IF done THEN 776 ELSE 801) <= high
    <3>1. 801 <= s.high_threshold /\ s.high_threshold <= 2260
      BY <1>4 DEF ServoBounded, EndsBounded
    <3>2. /\ Smoothed(s.high_threshold, pulse) \in Int
          /\ 801 <= Smoothed(s.high_threshold, pulse)
          /\ Smoothed(s.high_threshold, pulse) <= 2260
      BY <1>2, <1>3, <3>1, SmoothedWithin
    <3> HIDE DEF done
    <3> QED BY <3>2
  <2>3. /\ LastHigh(s, pulse) \in Int
        /\ 0 <= LastHigh(s, pulse) /\ LastHigh(s, pulse) <= 2260
    BY <1>2, <1>3 DEF LastHigh, ServoBounded, EndsBounded
  <2>4. CASE Abandons(s, pulse)
    <3> DEFINE before == LastHigh(s, pulse)
    <3>1. r = [s EXCEPT !.high_calibration_counts = counts,
                        !.last_high_threshold = before,
                        !.calibration_required = FALSE]
      BY <1>4, <2>4 DEF Calibrate, CalibrateHigh
    <3> HIDE DEF counts, before
    <3>2. /\ r.high_threshold = s.high_threshold
          /\ r.low_threshold = s.low_threshold
          /\ r.high_calibration_set = s.high_calibration_set
          /\ r.last_high_threshold = before
          /\ r.high_calibration_counts = counts
          /\ r.low_calibration_counts = s.low_calibration_counts
      BY <1>0, <3>1 DEF Servos
    <3>3. EndsBounded(r)
      BY <1>4, <2>3, <3>2 DEF ServoBounded, EndsBounded, before
    <3>4. CountsBounded(r)
      BY <2>1, <3>2 DEF ServoBounded, CountsBounded
    <3> QED BY <1>1, <3>3, <3>4 DEF ServoBounded
  <2>5. CASE ~Abandons(s, pulse)
    <3>1. r = [s EXCEPT !.high_calibration_counts = counts,
                        !.last_high_threshold = high,
                        !.high_threshold = high,
                        !.high_calibration_set = done]
      BY <1>4, <2>5 DEF Calibrate, CalibrateHigh, Margin
    <3> HIDE DEF counts, done, high
    <3>2. /\ r.high_threshold = high
          /\ r.low_threshold = s.low_threshold
          /\ r.high_calibration_set = done
          /\ r.calibration_required = s.calibration_required
          /\ r.last_high_threshold = high
          /\ r.high_calibration_counts = counts
          /\ r.low_calibration_counts = s.low_calibration_counts
      BY <1>0, <3>1 DEF Servos
    <3>3. EndsBounded(r)
      BY <1>4, <2>2, <3>2 DEF ServoBounded, EndsBounded
    <3>4. CountsBounded(r)
      BY <2>1, <3>2 DEF ServoBounded, CountsBounded
    <3> QED BY <1>1, <3>3, <3>4 DEF ServoBounded
  <2> QED BY <2>4, <2>5
<1>5. CASE s.high_calibration_set
  <2> DEFINE counted == pulse < 1250
             counts  == (s.low_calibration_counts + (IF counted THEN 1 ELSE 0))
                          % CounterSize
             done    == counts > LowCount
             low     == IF counted THEN Smoothed(s.low_threshold, pulse)
                        ELSE s.low_threshold
             after   == low + (IF done THEN 25 ELSE 0)
             kept    == IF done THEN 0 ELSE counts
             more    == ~done
  <2>1. counts \in Counter
    BY <1>3, CountAround
  <2>2. low \in Int /\ 750 <= low /\ low <= 1260
    <3>1. 750 <= s.low_threshold /\ s.low_threshold <= 1260
      BY DEF ServoBounded, EndsBounded
    <3>2. CASE counted
      <4>1. pulse <= 1260
        BY <3>2
      <4> QED BY <1>2, <1>3, <3>1, <3>2, <4>1, SmoothedWithin
    <3>3. CASE ~counted
      BY <1>3, <3>1, <3>3
    <3> QED BY <3>2, <3>3
  <2>3. after \in Int /\ 750 <= after /\ after <= (IF more THEN 1260 ELSE 1285)
    <3> HIDE DEF low, counts
    <3> QED BY <2>2
  <2>4. kept \in Counter
    BY <2>1, CountZero
  <2>5. r = [s EXCEPT !.low_threshold = after,
                      !.low_calibration_counts = kept,
                      !.calibration_required = more]
    BY <1>5 DEF Calibrate, CalibrateLow, Margin
  <2> HIDE DEF counted, counts, low, done, after, kept, more
  <2>6. /\ r.high_threshold = s.high_threshold
        /\ r.low_threshold = after
        /\ r.high_calibration_set = s.high_calibration_set
        /\ r.calibration_required = more
        /\ r.last_high_threshold = s.last_high_threshold
        /\ r.high_calibration_counts = s.high_calibration_counts
        /\ r.low_calibration_counts = kept
    BY <1>0, <2>5 DEF Servos
  <2>7. EndsBounded(r)
    BY <1>5, <2>3, <2>6 DEF ServoBounded, EndsBounded
  <2>8. CountsBounded(r)
    BY <2>4, <2>6 DEF ServoBounded, CountsBounded
  <2> QED BY <1>1, <2>7, <2>8 DEF ServoBounded
<1> QED BY <1>4, <1>5


(* What EntryChecked makes of a state, and what it replaces.                       *)
Rewritten(t, s, z, f, l) ==
  [t EXCEPT !.zero_input_count = z, !.enter_calibration_count = f,
            !.servo = s, !.last_input = l]

LEMMA RewrittenFields ==
  ASSUME NEW t \in Transfers, NEW s \in Servos,
         NEW z \in Int, NEW f \in Int, NEW l \in Int,
         NEW u, u = Rewritten(t, s, z, f, l)
  PROVE  /\ u \in Transfers
         /\ u.servo = s
         /\ u.average_packet_length = t.average_packet_length
         /\ u.enter_calibration_count = f
         /\ u.last_input = l
         /\ u.zero_input_count = z
         /\ u.frametime_low = t.frametime_low
         /\ u.frametime_high = t.frametime_high
BY DEF Transfers, Rewritten

LEMMA RewrittenCount ==
  ASSUME NEW t \in Transfers, NEW z \in Int
  PROVE  Rewritten(t, t.servo, z, t.enter_calibration_count, t.last_input)
           = [t EXCEPT !.zero_input_count = z]
BY DEF Transfers, Rewritten

LEMMA CounterInt == Counter \subseteq Int
BY ServoAssumption DEF Counter

LEMMA RewrittenBounded ==
  ASSUME NEW t, TransferBounded(t), NEW s, ServoBounded(s),
         NEW z \in Int, 0 <= z, z <= ZeroInputCap, NEW f \in Counter,
         NEW l \in Int, 0 <= l, l <= 2047
  PROVE  TransferBounded(Rewritten(t, s, z, f, l))
<1> DEFINE u == Rewritten(t, s, z, f, l)
<1>1. t \in Transfers /\ s \in Servos /\ f \in Int
  BY CounterInt DEF TransferBounded, ServoBounded
<1>2. u = Rewritten(t, s, z, f, l)
  OBVIOUS
<1> HIDE DEF u
<1>3. /\ u \in Transfers
      /\ u.servo = s
      /\ u.average_packet_length = t.average_packet_length
      /\ u.enter_calibration_count = f
      /\ u.last_input = l
      /\ u.zero_input_count = z
      /\ u.frametime_low = t.frametime_low
      /\ u.frametime_high = t.frametime_high
  BY <1>1, <1>2, RewrittenFields
<1>4. TransferBounded(u)
  BY <1>3 DEF TransferBounded
<1> QED BY <1>2, <1>4

(* The housekeeping takes a state in its bounds to one.                         *)
LEMMA EntryBounded ==
  ASSUME NEW t \in Transfers, TransferBounded(t), NEW adjusted \in Int,
         0 <= adjusted, adjusted <= 2047, NEW d \in BOOLEAN,
         NEW u, u = EntryChecked(t, adjusted, d)
  PROVE  TransferBounded(u)
<1>1. t \in Transfers /\ ServoBounded(t.servo) /\ t.servo \in Servos
  BY DEF TransferBounded, Transfers
<1>2. /\ t.zero_input_count \in Int /\ t.enter_calibration_count \in Counter
      /\ t.last_input \in Int /\ 0 <= t.last_input /\ t.last_input <= 2047
      /\ 0 <= t.zero_input_count /\ t.zero_input_count <= ZeroInputCap
  BY <1>1 DEF TransferBounded, Transfers
<1> DEFINE Kept(z) == Rewritten(t, t.servo, z, t.enter_calibration_count, t.last_input)
<1>3. ASSUME NEW z \in Int
      PROVE  Kept(z) = [t EXCEPT !.zero_input_count = z]
  BY <1>3, RewrittenCount
<1>9. ASSUME NEW z \in Int, 0 <= z, z <= ZeroInputCap
      PROVE  TransferBounded(Kept(z))
  BY <1>1, <1>2, <1>9, RewrittenBounded
<1> HIDE DEF Kept
<1>4. ZeroInputCap \in Int /\ 0 <= ZeroInputCap
  BY DEF ZeroInputCap, AverageAfter
<1>5. CASE adjusted = 0 /\ ~t.servo.calibration_required
  <2> DEFINE z == Least(t.zero_input_count + 1, ZeroInputCap)
  <2>1. z \in Int /\ 0 <= z /\ z <= ZeroInputCap
    BY <1>2, <1>4 DEF Least
  <2>2. u = [t EXCEPT !.zero_input_count = z]
    BY <1>5 DEF EntryChecked
  <2> HIDE DEF z
  <2>3. u = Kept(z)
    BY <1>3, <2>1, <2>2
  <2> QED BY <1>9, <2>1, <2>3
<1>6. CASE ~(adjusted = 0 /\ ~t.servo.calibration_required) /\ d
  BY <1>6 DEF EntryChecked
<1>7. CASE ~(adjusted = 0 /\ ~t.servo.calibration_required) /\ ~d /\ adjusted <= 1500
  <2>1. u = [t EXCEPT !.zero_input_count = 0]
    BY <1>7 DEF EntryChecked, MinThrottle
  <2>2. 0 \in Int
    OBVIOUS
  <2>3. u = Kept(0)
    BY <1>3, <2>1, <2>2
  <2> QED BY <1>4, <1>9, <2>2, <2>3
<1>8. CASE ~(adjusted = 0 /\ ~t.servo.calibration_required) /\ ~d /\ ~(adjusted <= 1500)
  <2> DEFINE enters == EntersCalibration(t, adjusted)
             frames == IF enters THEN 0 ELSE EntryFrames(t, adjusted)
             required == t.servo.calibration_required \/ enters
             s == [t.servo EXCEPT !.calibration_required = required]
  <2>1. u = [t EXCEPT !.zero_input_count = 0, !.enter_calibration_count = frames,
                      !.servo.calibration_required = required,
                      !.last_input = adjusted]
    BY <1>8 DEF EntryChecked, MinThrottle
  <2>2. frames \in Counter
    <3>1. EntryFrames(t, adjusted) \in Counter
      <4>1. t.enter_calibration_count + 1 \in Int
        BY <1>2, ServoAssumption DEF Counter
      <4> QED BY <4>1, CountAround, CountZero DEF EntryFrames
    <3> QED BY <3>1, CountZero
  <2>3. required \in BOOLEAN /\ (enters => ~t.servo.high_calibration_set)
    BY DEF EntersCalibration
  <2>4. ServoBounded(s)
    <3> HIDE DEF enters
    <3>1. required /\ ~t.servo.calibration_required => ~t.servo.high_calibration_set
      BY <2>3
    <3>2. required \in BOOLEAN /\ (t.servo.calibration_required => required)
      BY <2>3
    <3> HIDE DEF required
    <3>3. /\ s \in Servos
          /\ s.low_threshold = t.servo.low_threshold
          /\ s.high_threshold = t.servo.high_threshold
          /\ s.last_high_threshold = t.servo.last_high_threshold
          /\ s.high_calibration_set = t.servo.high_calibration_set
          /\ s.calibration_required = required
          /\ s.high_calibration_counts = t.servo.high_calibration_counts
          /\ s.low_calibration_counts = t.servo.low_calibration_counts
      BY <1>1, <3>2 DEF Servos
    <3> HIDE DEF s
    <3>4. t.servo.low_threshold \in Int
      BY <1>1 DEF Servos
    <3>5. EndsBounded(s)
      BY <1>1, <3>1, <3>2, <3>3, <3>4 DEF ServoBounded, EndsBounded
    <3>6. CountsBounded(s)
      BY <1>1, <3>3 DEF ServoBounded, CountsBounded
    <3> QED BY <3>3, <3>5, <3>6 DEF ServoBounded
  <2>5. u = Rewritten(t, s, 0, frames, adjusted)
    BY <2>1 DEF Rewritten
  <2> HIDE DEF enters, frames, required, s
  <2>6. 0 \in Int
    OBVIOUS
  <2> QED BY <1>4, <2>2, <2>4, <2>5, <2>6, RewrittenBounded
<1> QED BY <1>5, <1>6, <1>7, <1>8

LEMMA AverageBounded ==
  ASSUME NEW t \in Transfers, TransferBounded(t),
         NEW time \in Int, 0 <= time, NEW u, u = Averaged(t, time)
  PROVE  TransferBounded(u)
<1> DEFINE sum  == t.average_packet_length + time
           last == t.average_count = 7
           low  == IF last THEN sum \div 8 - sum \div 128 ELSE t.frametime_low
           high == IF last THEN sum \div 8 + sum \div 128 ELSE t.frametime_high
           more == t.average_count + 1
<1>0. t \in Transfers
  BY DEF TransferBounded
<1>1. CASE t.average_count < 8 /\ t.zero_input_count > AverageAfter
  <2>1. u = [t EXCEPT !.average_count = more, !.average_packet_length = sum,
                      !.frametime_low = low, !.frametime_high = high]
    BY <1>1 DEF Averaged, AverageFrames
  <2>2. u \in Transfers
    BY <1>0, AverageKeeps
  <2>3. sum \in Int /\ 0 <= sum
    BY <1>0 DEF Transfers, TransferBounded
  <2>4. 0 <= low /\ 0 <= high
    <3>1. 0 <= t.frametime_low /\ 0 <= t.frametime_high
      BY DEF TransferBounded
    <3>2. 0 <= sum \div 8 - sum \div 128 /\ 0 <= sum \div 8 + sum \div 128
      <4> HIDE DEF sum
      <4> QED BY <2>3, SMT
    <3> QED BY <3>1, <3>2
  <2> HIDE DEF sum, last, low, high, more
  <2>5. /\ u.servo = t.servo
        /\ u.average_packet_length = sum
        /\ u.enter_calibration_count = t.enter_calibration_count
        /\ u.last_input = t.last_input
        /\ u.zero_input_count = t.zero_input_count
        /\ u.frametime_low = low
        /\ u.frametime_high = high
    BY <1>0, <2>1 DEF Transfers
  <2> QED BY <2>2, <2>3, <2>4, <2>5 DEF TransferBounded
<1>2. CASE ~(t.average_count < 8 /\ t.zero_input_count > AverageAfter)
  BY <1>2 DEF Averaged, AverageFrames
<1> QED BY <1>1, <1>2

LEMMA HousekeepingBounded ==
  ASSUME NEW t \in Transfers, TransferBounded(t),
         NEW time \in Int, 0 <= time,
         adjusted_input \in Int, 0 <= adjusted_input, adjusted_input <= 2047,
         disabled \in BOOLEAN, NEW u, u = Housekeeping(t, time)
  PROVE  TransferBounded(u)
<1>1. CASE link_armed
  BY <1>1 DEF Housekeeping
<1>2. CASE ~link_armed /\ protocol = "dshot"
  <2> DEFINE v == Averaged(t, time)
  <2>1. u = EntryChecked(v, adjusted_input, disabled)
    BY <1>2 DEF Housekeeping
  <2>2. v \in Transfers /\ TransferBounded(v)
    BY AverageBounded DEF TransferBounded
  <2> HIDE DEF v
  <2> QED BY <2>1, <2>2, EntryBounded
<1>3. CASE ~link_armed /\ protocol # "dshot"
  <2>1. u = EntryChecked(t, adjusted_input, disabled)
    BY <1>3 DEF Housekeeping
  <2> QED BY <2>1, EntryBounded
<1> QED BY <1>1, <1>2, <1>3

(* The throttle of a pulse, and what a pulse makes of the one before it.         *)
LEMMA RawWithin ==
  ASSUME NEW s \in Servos, NEW pulse \in Nat
  PROVE  /\ RawInput(s, pulse) \in Int
         /\ 0 <= RawInput(s, pulse) /\ RawInput(s, pulse) <= 2047
<1> DEFINE low  == s.low_threshold
           high == s.high_threshold
           raw  == MapRange(pulse, low, high, 47, 2047)
<1>1. raw \in Int /\ 47 <= raw /\ raw <= 2047
  <2>1. low \in Int /\ high \in Int /\ pulse \in Int
    BY DEF Servos
  <2> HIDE DEF low, high
  <2> QED BY <2>1, MapWithin, SMT
<1>2. RawInput(s, pulse) = IF raw <= 48 THEN 0 ELSE raw
  BY DEF RawInput
<1> HIDE DEF raw
<1> QED BY <1>1, <1>2

LEMMA ThrottleWithin ==
  ASSUME NEW s \in Servos, NEW pulse \in Nat, NEW current \in Int,
         0 <= current, current <= 2047
  PROVE  /\ 0 <= ServoThrottle(s, pulse, current)
         /\ ServoThrottle(s, pulse, current) <= 2047
<1> DEFINE raw == RawInput(s, pulse)
<1>1. raw \in Int /\ 0 <= raw /\ raw <= 2047
  BY RawWithin
<1>2. ServoThrottle(s, pulse, current) = RateLimited(raw, current)
  BY DEF ServoThrottle
<1> HIDE DEF raw
<1> QED BY <1>1, <1>2 DEF RateLimited, MaxDeviation

(* The words of the signal path are in their bounds.                            *)
WordsBounded ==
  /\ stick \in Positions
  /\ moves \in 0 .. MaxMoves
  /\ edt_armed \in BOOLEAN
  /\ TransferBounded(transfer)
  /\ 0 <= newinput /\ newinput <= 2047
  /\ 0 <= adjusted_input /\ adjusted_input <= 2047
  /\ link_arming \in 0 .. LinkArmingTicks

LEMMA Between ==
  ASSUME NEW low \in Int, NEW high \in Int, NEW n \in Int, low <= n, n <= high
  PROVE  n \in low .. high
BY SMT

LEMMA BoundedTyped ==
  ASSUME NEW t \in Transfers, TransferBounded(t)
  PROVE  TransferTyped(t)
<1> DEFINE s == t.servo
<1>1. s \in Servos /\ EndsBounded(s) /\ CountsBounded(s)
  BY DEF TransferBounded, ServoBounded
<1>2. /\ 0 <= s.low_threshold /\ s.low_threshold <= 65535
      /\ 0 <= s.high_threshold /\ s.high_threshold <= 65535
      /\ 0 <= s.last_high_threshold /\ s.last_high_threshold <= 65535
      /\ s.low_threshold \in Int /\ s.high_threshold \in Int
      /\ s.last_high_threshold \in Int
  BY <1>1 DEF EndsBounded, Servos
<1>3. /\ s.low_threshold \in Thresholds /\ s.high_threshold \in Thresholds
      /\ s.last_high_threshold \in Thresholds
  <2> DEFINE top == 65535
  <2>1. Thresholds = 0 .. top /\ top \in Int
    BY DEF Thresholds
  <2>2. /\ s.low_threshold <= top /\ s.high_threshold <= top
        /\ s.last_high_threshold <= top
    BY <1>2
  <2> HIDE DEF top, s
  <2> QED BY <1>2, <2>1, <2>2, Between
<1>4. s \in ServoStates
  BY <1>1, <1>3 DEF ServoStates, Servos, CountsBounded
<1>5. t.last_input \in 0 .. 2047 /\ t.zero_input_count \in 0 .. ZeroInputCap
  <2>1. /\ t.last_input \in Int /\ t.zero_input_count \in Int
        /\ 0 <= t.last_input /\ t.last_input <= 2047
        /\ 0 <= t.zero_input_count /\ t.zero_input_count <= ZeroInputCap
    BY DEF TransferBounded, Transfers
  <2>2. ZeroInputCap \in Int
    BY DEF ZeroInputCap, AverageAfter
  <2> DEFINE top == 2047
             l == t.last_input
             z == t.zero_input_count
  <2>3. /\ l \in Int /\ 0 <= l /\ l <= top /\ top \in Int
        /\ z \in Int /\ 0 <= z /\ z <= ZeroInputCap
    BY <2>1
  <2> HIDE DEF l, z, top
  <2>4. l \in 0 .. top /\ z \in 0 .. ZeroInputCap
    BY <2>2, <2>3, Between
  <2> QED BY <2>4 DEF l, z, top
<1>6. /\ t.average_packet_length \in Nat
      /\ t.frametime_low \in Nat /\ t.frametime_high \in Nat
  BY DEF TransferBounded, Transfers
<1>7. t.average_count \in 0 .. AverageFrames /\ t.enter_calibration_count \in Counter
  BY DEF TransferBounded, Transfers, AverageFrames
<1> QED BY <1>4, <1>5, <1>6, <1>7 DEF TransferTyped

LEMMA WordsInitial == LinkInit => WordsBounded
<1> SUFFICES ASSUME LinkInit PROVE WordsBounded
  OBVIOUS
<1>1. PICK c \in [servo_low_threshold : LowBytes, servo_high_threshold : HighBytes] :
        transfer = NewTransfer(ServoLow(c), ServoHigh(c))
  BY DEF LinkInit
<1>2. c.servo_low_threshold \in 0 .. 255 /\ c.servo_high_threshold \in 0 .. 255
  <2>1. c.servo_low_threshold \in LowBytes /\ c.servo_high_threshold \in HighBytes
    BY <1>1
  <2>2. c.servo_low_threshold \in Byte /\ c.servo_high_threshold \in Byte
    BY <2>1, LinkBytes
  <2> QED BY <2>2 DEF Byte
<1> DEFINE low  == ServoLow(c)
           high == ServoHigh(c)
           s    == NewServo(low, high)
<1>3. /\ low \in Int /\ 750 <= low /\ low <= 1260
      /\ high \in Int /\ 1750 <= high /\ high <= 2260
  BY <1>2 DEF ServoLow, ServoHigh
<1> HIDE DEF low, high
<1>4. /\ s \in Servos
      /\ s.low_threshold = low /\ s.high_threshold = high
      /\ s.last_high_threshold = 0
      /\ s.high_calibration_counts = 0 /\ s.low_calibration_counts = 0
      /\ ~s.calibration_required /\ ~s.high_calibration_set
  BY <1>3 DEF NewServo, Servos
<1>5. transfer = [servo |-> s, average_count |-> 0, average_packet_length |-> 0,
                  enter_calibration_count |-> 0, last_input |-> 0,
                  zero_input_count |-> 0, frametime_low |-> 400,
                  frametime_high |-> 600]
  BY <1>1 DEF NewTransfer, low, high
<1> HIDE DEF s
<1>6. ServoBounded(s)
  BY <1>3, <1>4, CountZero DEF ServoBounded, EndsBounded, CountsBounded
<1>7. /\ transfer \in Transfers
      /\ transfer.servo = s
      /\ transfer.average_packet_length = 0
      /\ transfer.enter_calibration_count = 0
      /\ transfer.last_input = 0
      /\ transfer.zero_input_count = 0
      /\ transfer.frametime_low = 400
      /\ transfer.frametime_high = 600
  BY <1>4, <1>5 DEF Transfers
<1>8. TransferBounded(transfer)
  BY <1>6, <1>7, CountZero DEF TransferBounded, ZeroInputCap, AverageAfter
<1>9. /\ stick \in Positions /\ moves = 0 /\ edt_armed = FALSE
      /\ newinput = 0 /\ adjusted_input = 0 /\ link_arming = 0
  BY DEF LinkInit
<1>10. 0 \in 0 .. MaxMoves /\ 0 \in 0 .. LinkArmingTicks
  BY LinkAssumption
<1>11. /\ 0 <= newinput /\ newinput <= 2047
       /\ 0 <= adjusted_input /\ adjusted_input <= 2047
  BY <1>9
<1>12. edt_armed \in BOOLEAN /\ moves \in 0 .. MaxMoves
       /\ link_arming \in 0 .. LinkArmingTicks
  BY <1>9, <1>10
<1> QED BY <1>8, <1>9, <1>11, <1>12 DEF WordsBounded

LEMMA WordsOfServo ==
  ASSUME LinkInv, WordsBounded, HearFrame, ServoFrame
  PROVE  WordsBounded'
<1> DEFINE s == transfer.servo
           calibrates == PulseInRange(stick) /\ s.calibration_required
           t == IF ~PulseInRange(stick) THEN [transfer EXCEPT !.zero_input_count = 0]
                ELSE IF s.calibration_required
                THEN [transfer EXCEPT !.servo = Calibrate(s, stick)]
                ELSE transfer
           u == transfer'
<1>1. /\ u = Housekeeping(t, 0)
      /\ newinput' = IF PulseInRange(stick) /\ ~s.calibration_required
                     THEN ServoThrottle(s, stick, newinput) ELSE newinput
      /\ UNCHANGED <<protocol, stick, moves, edt_armed, adjusted_input, link_arming>>
  BY DEF ServoFrame, HearFrame
<1>2. /\ transfer \in Transfers /\ TransferBounded(transfer)
      /\ s \in Servos /\ ServoBounded(s)
      /\ stick \in Nat /\ newinput \in Int /\ adjusted_input \in Int
      /\ disabled \in BOOLEAN
      /\ 0 <= newinput /\ newinput <= 2047
      /\ 0 <= adjusted_input /\ adjusted_input <= 2047
  BY DEF LinkInv, LinkShaped, WordsBounded, TransferBounded, ServoBounded
<1>3. t \in Transfers /\ TransferBounded(t)
  <2> DEFINE z0 == 0
             kept == Rewritten(transfer, s, z0, transfer.enter_calibration_count,
                               transfer.last_input)
  <2>0. /\ transfer.zero_input_count \in Int
        /\ transfer.enter_calibration_count \in Counter
        /\ transfer.last_input \in Int
        /\ 0 <= transfer.last_input /\ transfer.last_input <= 2047
        /\ 0 <= transfer.zero_input_count
        /\ transfer.zero_input_count <= ZeroInputCap
    BY <1>2 DEF TransferBounded, Transfers
  <2>1. CASE ~PulseInRange(stick)
    <3>1. t = [transfer EXCEPT !.zero_input_count = 0]
      BY <2>1
    <3>2. 0 \in Int /\ 0 <= 0 /\ 0 <= ZeroInputCap
      BY DEF ZeroInputCap, AverageAfter
    <3>3. t = Rewritten(transfer, s, 0, transfer.enter_calibration_count,
                        transfer.last_input)
      BY <1>2, <3>1, <3>2, RewrittenCount
    <3> HIDE DEF t, s
    <3>4. TransferBounded(t)
      BY <1>2, <2>0, <3>2, <3>3, RewrittenBounded
    <3> QED BY <3>4 DEF TransferBounded
  <2>2. CASE calibrates
    <3> DEFINE r == Calibrate(s, stick)
    <3>1. ServoBounded(r)
      BY <1>2, <2>2, CalibrateBounded
    <3>2. t = [transfer EXCEPT !.servo = r]
      BY <2>2
    <3>3. r \in Servos
      BY <3>1 DEF ServoBounded
    <3> HIDE DEF r, t
    <3>4. /\ t \in Transfers
          /\ t.servo = r
          /\ t.average_packet_length = transfer.average_packet_length
          /\ t.enter_calibration_count = transfer.enter_calibration_count
          /\ t.last_input = transfer.last_input
          /\ t.zero_input_count = transfer.zero_input_count
          /\ t.frametime_low = transfer.frametime_low
          /\ t.frametime_high = transfer.frametime_high
      BY <1>2, <3>2, <3>3 DEF Transfers
    <3> QED BY <1>2, <3>1, <3>4 DEF TransferBounded
  <2>3. CASE PulseInRange(stick) /\ ~s.calibration_required
    BY <1>2, <2>3
  <2> QED BY <2>1, <2>2, <2>3
<1> HIDE DEF t, u
<1>4. TransferBounded(u)
  <2>1. 0 \in Int /\ 0 <= 0
    OBVIOUS
  <2> QED BY <1>1, <1>2, <1>3, <2>1, HousekeepingBounded
<1>5. 0 <= newinput' /\ newinput' <= 2047
  <2> DEFINE v == ServoThrottle(s, stick, newinput)
  <2>1. 0 <= v /\ v <= 2047
    BY <1>2, ThrottleWithin
  <2> HIDE DEF v
  <2> QED BY <1>1, <1>2, <2>1 DEF v
<1>6. (stick \in Positions)'
  BY <1>1 DEF WordsBounded, Positions
<1> QED BY <1>1, <1>4, <1>5, <1>6 DEF WordsBounded, u

LEMMA WordsOfDshot ==
  ASSUME LinkInv, WordsBounded, HearFrame, NEW time \in FrameTimes, DshotFrame(time)
  PROVE  WordsBounded'
<1> DEFINE u == transfer'
<1>1. /\ u = Housekeeping(transfer, time)
      /\ newinput' \in {stick, newinput}
      /\ UNCHANGED <<protocol, stick, moves, edt_armed, adjusted_input, link_arming>>
      /\ protocol = "dshot"
  BY DEF DshotFrame, HearFrame
<1>2. time \in Int /\ 0 <= time
  <2>1. time \in Times
    BY LinkTimes
  <2> QED BY <2>1 DEF Times
<1>3. /\ transfer \in Transfers /\ TransferBounded(transfer)
      /\ adjusted_input \in Int /\ disabled \in BOOLEAN
      /\ 0 <= newinput /\ newinput <= 2047
      /\ 0 <= adjusted_input /\ adjusted_input <= 2047
  BY DEF LinkInv, LinkShaped, WordsBounded
<1> HIDE DEF u
<1>4. TransferBounded(u)
  BY <1>1, <1>2, <1>3, HousekeepingBounded
<1>5. 0 <= stick /\ stick <= 2047
  <2>1. stick \in DshotThrottles
    BY <1>1 DEF WordsBounded, Positions
  <2>2. stick \in 0 .. 2047
    BY <2>1, LinkSticks
  <2> QED BY <2>2
<1>6. 0 <= newinput' /\ newinput' <= 2047
  BY <1>1, <1>3, <1>5
<1>7. (stick \in Positions)'
  BY <1>1 DEF WordsBounded, Positions
<1> QED BY <1>1, <1>4, <1>6, <1>7 DEF WordsBounded, u

LEMMA WordsStep ==
  ASSUME LinkInv, WordsBounded, [LinkNext]_linkVars
  PROVE  WordsBounded'
<1>1. CASE MoveStick
  <2>1. /\ moves < MaxMoves /\ moves' = moves + 1 /\ stick' \in Positions
        /\ UNCHANGED <<protocol, transfer, edt_armed, newinput, adjusted_input,
                       link_arming>>
    BY <1>1 DEF MoveStick
  <2>2. (stick \in Positions)'
    BY <2>1 DEF Positions
  <2>3. moves + 1 \in 0 .. MaxMoves
    BY <2>1, LinkAssumption DEF WordsBounded
  <2> QED BY <2>1, <2>2, <2>3 DEF WordsBounded
<1>2. CASE HearFrame
  <2>1. CASE ServoFrame
    BY <1>2, <2>1, WordsOfServo
  <2>2. CASE \E time \in FrameTimes : DshotFrame(time)
    <3>1. PICK time \in FrameTimes : DshotFrame(time)
      BY <2>2
    <3> QED BY <1>2, <3>1, WordsOfDshot
  <2> QED BY <1>2, <2>1, <2>2 DEF HearFrame
<1>3. CASE AcceptThrottle
  BY <1>3 DEF AcceptThrottle, WordsBounded, Positions
<1>4. CASE PublishThrottle
  BY <1>4 DEF PublishThrottle, WordsBounded, Positions
<1>5. CASE ArmingTick
  <2>1. UNCHANGED <<protocol, stick, moves, transfer, edt_armed, newinput,
                    adjusted_input>>
    BY <1>5 DEF ArmingTick
  <2>2. link_arming' \in 0 .. LinkArmingTicks
    <3> DEFINE count == IF adjusted_input = 0 THEN link_arming + 1 ELSE 0
    <3>1. link_arming' = IF count > LinkArmingTicks THEN 0 ELSE count
      BY <1>5 DEF ArmingTick
    <3>2. count \in Nat
      BY LinkAssumption DEF WordsBounded
    <3>3. 0 \in 0 .. LinkArmingTicks
      BY LinkAssumption
    <3> HIDE DEF count
    <3>4. ~(count > LinkArmingTicks) => count \in 0 .. LinkArmingTicks
      BY <3>2, LinkAssumption
    <3> QED BY <3>1, <3>3, <3>4
  <2>3. (stick \in Positions)'
    BY <2>1 DEF WordsBounded, Positions
  <2> QED BY <2>1, <2>2, <2>3 DEF WordsBounded
<1>6. CASE LoseSignal
  BY <1>6 DEF LoseSignal, WordsBounded, Positions
<1>7. CASE UNCHANGED linkVars
  BY <1>7 DEF linkVars, WordsBounded, Positions
<1> QED BY <1>1, <1>2, <1>3, <1>4, <1>5, <1>6, <1>7 DEF LinkNext

LEMMA WordsTyped ==
  ASSUME LinkInv, WordsBounded
  PROVE  LinkTypeOK
<1>1. TransferTyped(transfer)
  BY BoundedTyped DEF LinkInv, LinkShaped, WordsBounded
<1>2. newinput \in 0 .. 2047 /\ adjusted_input \in 0 .. 2047
  BY DEF LinkInv, LinkShaped, WordsBounded
<1>3. behind \in 0 .. Lag + 1
  BY LinkAssumption DEF LinkInv, LinkShaped
<1>4. /\ protocol \in {"servo", "dshot"} /\ disabled \in BOOLEAN
      /\ link_armed \in BOOLEAN /\ strayed \in BOOLEAN /\ disturbed \in BOOLEAN
  BY DEF LinkInv, LinkShaped
<1> QED BY <1>1, <1>2, <1>3, <1>4 DEF WordsBounded, LinkTypeOK

LEMMA LinkTypesHold == LinkInit /\ [][LinkNext]_linkVars => []LinkTypeOK
<1>1. LinkInit => LinkInv /\ WordsBounded
  BY LinkInitial, WordsInitial
<1>2. LinkInv /\ WordsBounded /\ [LinkNext]_linkVars => LinkInv' /\ WordsBounded'
  BY LinkStep, WordsStep
<1>3. LinkInv /\ WordsBounded => LinkTypeOK
  BY WordsTyped
<1> QED BY <1>1, <1>2, <1>3, PTL

(* Type correctness of the signal path.  It says of the code that no threshold of  *)
(* the stick leaves its u16 by averaging or by the margin of 25, that the throttle *)
(* stays in 0..2047 whatever the ends are, and that the window of a frame never    *)
(* goes below zero (servo.rs:64-197, transfer.rs:147-183).                    *)
THEOREM LinkTypeCorrect == LinkSpec => []LinkTypeOK
BY LinkTypesHold, PTL DEF LinkSpec

-----------------------------------------------------------------------------
(***************************************************************************)
(* What the order of the ends is for: more stick is never less throttle.     *)
(***************************************************************************)

(* Division by a positive number keeps the order.                              *)
LEMMA DivideInOrder ==
  ASSUME NEW a \in Nat, NEW b \in Nat, a <= b, NEW whole \in Nat, whole > 0
  PROVE  a \div whole <= b \div whole
<1> DEFINE qa == a \div whole
           qb == b \div whole
           ra == a % whole
           rb == b % whole
<1>1. qa \in Int /\ qb \in Int
  BY SMT
<1>2. a = whole * qa + ra /\ ra \in Nat
  BY Z3
<1>3. b = whole * qb + rb /\ rb \in Nat /\ rb < whole
  BY Z3
<1> HIDE DEF qa, qb, ra, rb
<1>4. ASSUME qa > qb PROVE FALSE
  <2> DEFINE k == qa - qb - 1
  <2>1. k \in Nat /\ qa = qb + k + 1
    BY <1>1, <1>4, SMT
  <2> HIDE DEF k
  <2>2. whole * qa = whole * qb + whole * k + whole
    BY <1>1, <2>1, Z3
  <2>3. whole * k \in Nat /\ whole * qb \in Int
    BY <1>1, <2>1, SMT
  <2> QED BY <1>2, <1>3, <2>2, <2>3, SMT
<1>5. qa <= qb
  BY <1>1, <1>4, SMT
<1> QED BY <1>5 DEF qa, qb

(* The range is mapped in order where its ends are in order.                    *)
LEMMA MapInOrder ==
  ASSUME NEW x \in Int, NEW y \in Int, x <= y,
         NEW a \in Int, NEW b \in Int, a < b
  PROVE  MapRange(x, a, b, 47, 2047) <= MapRange(y, a, b, 47, 2047)
<1> DEFINE In(z) == Clamp(z, Least(a, b), Most(a, b)) - a
           Share(n) == (n * 2000) \div (b - a)
<1>1. ASSUME NEW z \in Int
      PROVE  /\ In(z) \in Nat
             /\ MapRange(z, a, b, 47, 2047) = 47 + Share(In(z))
             /\ Share(In(z)) \in Int
  <2> DEFINE n == In(z)
             top == n * (2047 - 47)
             low == b - a
  <2>1. n \in Nat /\ low \in Nat /\ low > 0
    BY DEF Clamp, Least, Most
  <2>2. MapRange(z, a, b, 47, 2047) = 47 + Quotient(top, low)
    BY DEF MapRange
  <2> HIDE DEF n, low
  <2>3. top = n * 2000 /\ top \in Nat
    BY <2>1, SMT
  <2>4. Most(top, -top) = top /\ Most(low, -low) = low
    <3> HIDE DEF top
    <3> QED BY <2>1, <2>3 DEF Most
  <2>5. Quotient(top, low) = top \div low
    <3> HIDE DEF top
    <3> QED BY <2>1, <2>3, <2>4 DEF Quotient
  <2>6. top \div low \in Int
    <3> HIDE DEF top
    <3> QED BY <2>1, <2>3, SMT
  <2>7. Share(n) = top \div low
    BY <2>3 DEF low
  <2> QED BY <2>1, <2>2, <2>5, <2>6, <2>7 DEF n
<1>2. In(x) <= In(y)
  BY DEF Clamp, Least, Most
<1> HIDE DEF In
<1>3. Share(In(x)) <= Share(In(y))
  <2> DEFINE n == In(x)
             m == In(y)
             whole == b - a
  <2>1. n \in Nat /\ m \in Nat /\ n <= m /\ whole \in Nat /\ whole > 0
    BY <1>1, <1>2
  <2> HIDE DEF n, m, whole
  <2>2. n * 2000 \in Nat /\ m * 2000 \in Nat /\ n * 2000 <= m * 2000
    BY <2>1, SMT
  <2>3. (n * 2000) \div whole <= (m * 2000) \div whole
    BY <2>1, <2>2, DivideInOrder
  <2> QED BY <2>3 DEF n, m, whole
<1> HIDE DEF Share
<1> QED BY <1>1, <1>3

MoreStickMoreThrottle ==
  ~strayed =>
    \A pulse, higher \in Nat :
       pulse <= higher =>
         RawInput(transfer.servo, pulse) <= RawInput(transfer.servo, higher)

LEMMA InvInOrder ==
  ASSUME LinkInv
  PROVE  MoreStickMoreThrottle
<1> DEFINE low  == transfer.servo.low_threshold
           high == transfer.servo.high_threshold
           Raw(pulse) == MapRange(pulse, low, high, 47, 2047)
<1> SUFFICES ASSUME ~strayed, NEW pulse \in Nat, NEW higher \in Nat, pulse <= higher
             PROVE  RawInput(transfer.servo, pulse) <= RawInput(transfer.servo, higher)
  BY DEF MoreStickMoreThrottle
<1>1. low < high
  BY InvCalibrates DEF CalibrationSafe, SpanInOrder
<1>2. low \in Int /\ high \in Int
  BY DEF LinkInv, LinkShaped, Transfers, Servos
<1>3. RawInput(transfer.servo, pulse) = (IF Raw(pulse) <= 48 THEN 0 ELSE Raw(pulse))
      /\ RawInput(transfer.servo, higher) = (IF Raw(higher) <= 48 THEN 0 ELSE Raw(higher))
  BY DEF RawInput
<1> HIDE DEF low, high
<1>4. /\ Raw(pulse) <= Raw(higher)
      /\ Raw(pulse) \in Int /\ Raw(higher) \in Int
  <2>1. pulse \in Int /\ higher \in Int
    OBVIOUS
  <2>2. Raw(pulse) <= Raw(higher)
    BY <1>1, <1>2, <2>1, MapInOrder, SMT
  <2>3. Raw(pulse) \in Int
    BY <1>2, <2>1, MapInt, SMT
  <2>4. Raw(higher) \in Int
    BY <1>2, <2>1, MapInt, SMT
  <2> QED BY <2>2, <2>3, <2>4
<1> HIDE DEF Raw
<1> QED BY <1>3, <1>4

(* As long as the stick was up when the high end was measured, whatever was       *)
(* calibrated, abandoned or interrupted, more stick asks for no less throttle,    *)
(* for every width of a pulse (servo.rs:64-110, 153-197).                     *)
THEOREM StickStaysInOrder == LinkSpec => []MoreStickMoreThrottle
BY LinkHolds, InvInOrder, PTL DEF LinkSpec

=============================================================================
