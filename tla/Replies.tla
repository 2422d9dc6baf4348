------------------------------- MODULE Replies -------------------------------
(***************************************************************************)
(* Bidirectional DShot: an armed motor answers every frame on the line that   *)
(* the frame came on.  handle_dma_tc and handle_exti_frame of                *)
(* rm32_stm32/src/isr_handlers.rs, the frame interrupt of the chips, and     *)
(* GenericCapture.                                                          *)
(*                                                                         *)
(* The DMA channel either receives a frame or transmits the answer, and it    *)
(* interrupts at the end of both; both ends also raise the frame interrupt.   *)
(***************************************************************************)
EXTENDS Commands, Edt

CONSTANTS
  UsesCap,       \* bound on the counted uses of a frame
  MaxArmings     \* bound: armings, each of a second of zero throttle

(* One arming between a frame's two interrupts gives its command without its *)
(* answer; as many of them as make a command are left out.                  *)
ASSUME RepliesAssumption ==
  UsesCap \in Nat \ {0, 1, 2} /\ MaxArmings \in 1 .. Repetitions - 1

VARIABLES
  dshot_telemetry, \* shared: replies are wanted
  reply_armed,     \* shared: armed
  out_put,         \* GenericCapture: the channel transmits
  irq,             \* the interrupt that is pending: "none", "dma" or "exti"
  buffered,        \* the frame in dma_buf: a command, or 0 for throttle
  processor,       \* CommandProcessor
  edt,             \* EdtScheduler
  replied,         \* the kind of the last reply
  uses,            \* history: how often the buffered frame was processed
  cut,             \* history: armed changed since the frame came
  armings          \* how often the motor was armed

replyVars == <<dshot_telemetry, reply_armed, out_put, irq, buffered, processor,
               edt, replied, uses, cut, armings>>

Frames == {0, EDT_ENABLE, EDT_DISABLE}

RepliesTypeOK ==
  /\ dshot_telemetry \in BOOLEAN /\ reply_armed \in BOOLEAN
  /\ out_put \in BOOLEAN
  /\ irq \in {"none", "dma", "exti"}
  /\ buffered \in Frames
  /\ processor \in Processors
  /\ edt \in EdtStates
  /\ replied \in Kinds
  /\ uses \in 0 .. UsesCap
  /\ cut \in BOOLEAN
  /\ armings \in 0 .. MaxArmings

RepliesInit ==
  /\ dshot_telemetry \in BOOLEAN
  /\ reply_armed = FALSE
  /\ out_put = FALSE
  /\ irq = "none"
  /\ buffered = 0
  /\ processor = NewProcessor
  /\ edt = NewEdt
  /\ replied = "erpm"
  /\ uses = 0
  /\ cut = FALSE
  /\ armings = 0

-----------------------------------------------------------------------------
(* A frame ends while the channel receives. *)
FrameCaptured ==
  /\ irq = "none" /\ ~out_put
  /\ irq' = "dma"
  /\ buffered' \in Frames
  /\ uses' = 0
  /\ cut' = FALSE
  /\ UNCHANGED <<dshot_telemetry, reply_armed, out_put, processor, edt, replied,
                 armings>>

(* The answer has gone out.  After a disarm the channel is enabled again as  *)
(* it is, so that it transmits once more.                                   *)
ReplySent ==
  /\ irq = "none" /\ out_put
  /\ irq' = "dma"
  /\ UNCHANGED <<dshot_telemetry, reply_armed, out_put, buffered, processor,
                 edt, replied, uses, cut, armings>>

(* handle_dma_tc turns the channel round. *)
Answers == reply_armed /\ dshot_telemetry

(* Mutant: the channel never turns back to receiving. *)
ChannelStuck == out_put \/ Answers

ChannelAfter == IF Answers THEN ~out_put ELSE out_put

TransferComplete ==
  /\ irq = "dma"
  /\ irq' = "exti"
  /\ out_put' = ChannelAfter
  /\ edt' = IF Answers /\ ~out_put THEN AfterReply(edt) ELSE edt
  /\ replied' = IF Answers /\ ~out_put THEN NextKind(edt) ELSE replied
  /\ UNCHANGED <<dshot_telemetry, reply_armed, buffered, processor, uses, cut,
                 armings>>

(* The command processor listens while the motor is armed and does not run. *)
Effect ==
  IF reply_armed /\ buffered # 0 /\ TakesEffect(processor, buffered)
  THEN buffered ELSE 0

(* Mutant: the announcement that was pending is taken back. *)
AnnouncedLast(e, effect) ==
  [e EXCEPT !.send_init = (@ \/ effect = EDT_ENABLE) /\ effect # EDT_DISABLE,
            !.send_deinit = FALSE]

(* The announcements that a command asks the scheduler for. *)
Announced(e, effect) ==
  [e EXCEPT !.send_init   = @ \/ effect = EDT_ENABLE,
            !.send_deinit = @ \/ effect = EDT_DISABLE]

(* handle_exti_frame takes what is in the buffer, whether or not a frame was *)
(* captured since it last did.                                              *)
FrameInterrupt ==
  /\ irq = "exti"
  /\ irq' = "none"
  /\ uses' = IF uses < UsesCap THEN uses + 1 ELSE uses
  /\ processor' = IF reply_armed /\ buffered # 0
                  THEN ProcessorAfter(processor, buffered) ELSE processor
  /\ edt' = Announced(edt, Effect)
  /\ UNCHANGED <<dshot_telemetry, reply_armed, out_put, buffered, replied, cut,
                 armings>>

(* The tick arms the motor, and the main loop disarms it, at any time. *)
ReplyArms ==
  /\ reply_armed \/ armings < MaxArmings
  /\ reply_armed' = ~reply_armed
  /\ armings' = IF reply_armed THEN armings ELSE armings + 1
  /\ cut' = TRUE
  /\ UNCHANGED <<dshot_telemetry, out_put, irq, buffered, processor, edt,
                 replied, uses>>

RepliesNext ==
  FrameCaptured \/ ReplySent \/ TransferComplete \/ FrameInterrupt \/ ReplyArms

(* The transmitter keeps sending, the channel ends, interrupts are served. *)
RepliesFairness ==
  /\ WF_replyVars(FrameCaptured)
  /\ WF_replyVars(ReplySent)
  /\ WF_replyVars(TransferComplete)
  /\ WF_replyVars(FrameInterrupt)

RepliesSpec == RepliesInit /\ [][RepliesNext]_replyVars /\ RepliesFairness

-----------------------------------------------------------------------------
(* A frame is processed once, and twice when it is answered, because the end *)
(* of the answer raises the frame interrupt on the buffer of before: half of *)
(* the repetitions make a command (isr_handlers.rs:104-130, the frame        *)
(* interrupt in mcu_g071/interrupts.rs:24-57).                              *)
FrameUses ==
  cut \/ uses <= (IF Answers THEN 2 ELSE 1)

(* The telemetry that the replies carry is the one that commands asked for,  *)
(* as soon as nothing is left to announce; at no time are both               *)
(* announcements pending, of which the older would be sent last              *)
(* (edt.rs:67-77, isr_handlers.rs:198-203).                                 *)
EdtFollowsCommands ==
  dshot_telemetry =>
    /\ ~(edt.send_init /\ edt.send_deinit)
    /\ ~edt.send_init /\ ~edt.send_deinit
         => edt.active = processor.extended_telemetry

(* While extended telemetry is on, every kind of it is sent again and again  *)
(* (edt.rs:79-111).                                                         *)
EveryKindSent ==
  <>[](dshot_telemetry /\ reply_armed /\ edt.active)
    => \A kind \in {"erpm", "current", "voltage", "temperature"} :
         []<>(replied = kind)

(* Frames are used as often as their repetitions mean, and the replies carry what   *)
(* they asked for.                                                          *)
RepliesFollowFrames == FrameUses /\ EdtFollowsCommands

=============================================================================
