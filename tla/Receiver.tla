------------------------------ MODULE Receiver ------------------------------
(***************************************************************************)
(* The registers of the capture channel: GenericCapture over the DMA channel   *)
(* and the timer of each chip, and the two interrupts that hand the channel    *)
(* from one transfer to the next.  The buffers are fields of the driver, and    *)
(* the driver is moved three times while it boots.                           *)
(***************************************************************************)
EXTENDS Board, Integers

CONSTANTS
  FrameWords,     \* words of a received frame: buffer_size, 32
  ReplyWords      \* words of a reply: 23 + buffer_size / 4

ASSUME WordsAssumption == FrameWords \in 2 .. 64 /\ ReplyWords \in 2 .. 37

VARIABLES
  place,      \* where the driver is: main before and after init returned it, slot, cell
  control,    \* the DMA channel's control register
  memory,     \* its memory address: a buffer, and where the driver was then
  words,      \* NDTR
  timer,      \* what the timer is configured for, and whether MOE is set
  transmits,  \* out_put
  complete,   \* the channel's flag of a complete transfer
  software,   \* the frame interrupt that it raises
  wants,      \* shared: dshot_telemetry
  live,       \* shared: armed
  pulses,     \* shared: servo_pwm
  landed      \* history: where the driver was that the last frame was stored in

receiverVars == <<place, control, memory, words, timer, transmits, complete,
                  software, wants, live, pulses, landed>>

Places  == <<"init", "main", "slot", "cell">>
Buffers == [dma_buf |-> 64, gcr_buf |-> 37]

Mine   == Channels[chip]
Wrap   == [F051 |-> F051!Handlers, G071 |-> G071!Handlers,
           L431 |-> L431!Handlers, G431 |-> G431!Handlers][chip]

ReceiverTypeOK ==
  /\ place \in Range(Places)
  /\ control \subseteq {"EN", "TCIE", "TEIE", "MINC", "DIR"}
  /\ memory \in {"dma_buf", "gcr_buf"} \X (Range(Places) \cup {"none"})
  /\ words \in 0 .. 64
  /\ timer \in {"reset", "capture", "output", "main_output"}
  /\ {transmits, complete, software, wants, live, pulses} \subseteq BOOLEAN
  /\ landed \in Range(Places) \cup {"none"}

ReceiverInit ==
  /\ chip \in ChipNames
  /\ place = "init"
  /\ control = {}
  /\ memory = <<"dma_buf", "none">>
  /\ words = 0
  /\ timer = "reset"
  /\ transmits = FALSE
  /\ complete = FALSE
  /\ software = FALSE
  /\ wants \in BOOLEAN
  /\ live = FALSE
  /\ pulses = FALSE
  /\ landed = "none"

(* The address and the count are written only into a channel that is off.      *)
Address(c, buffer) == IF "EN" \in c THEN memory ELSE <<buffer, place>>
CountOf(c, n)        == IF "EN" \in c THEN words ELSE n

(* receive_dshot_dma, by a driver that is at `place`. *)
Receive ==
  /\ control' = Mine.receive
  /\ timer' = "capture"
  /\ transmits' = FALSE
  /\ memory' = Address(Mine.stopped, "dma_buf")
  /\ words' = CountOf(Mine.stopped, FrameWords)

(* Mutant: the count is that of a frame on top of the reply's header. *)
SendLong ==
  /\ control' = Mine.transmit
  /\ timer' = IF Mine.main_output THEN "main_output" ELSE "output"
  /\ transmits' = TRUE
  /\ memory' = Address(Mine.stopped, "gcr_buf")
  /\ words' = CountOf(Mine.stopped, 23 + FrameWords)

(* send_dshot_dma *)
Send ==
  /\ control' = Mine.transmit
  /\ timer' = IF Mine.main_output THEN "main_output" ELSE "output"
  /\ transmits' = TRUE
  /\ memory' = Address(Mine.stopped, "gcr_buf")
  /\ words' = CountOf(Mine.stopped, ReplyWords)

Unmoved == UNCHANGED <<chip, wants>>

(* init::init starts the channel, and returns the driver by value. *)
StartReceiving ==
  /\ place = "init" /\ control = {}
  /\ Receive
  /\ UNCHANGED <<place, complete, software, live, pulses, landed>> /\ Unmoved

InitReturns ==
  /\ place = "init" /\ control # {}
  /\ place' = "main"
  /\ UNCHANGED <<control, memory, words, timer, transmits, complete, software,
                 live, pulses, landed>> /\ Unmoved

(* main starts it again, and moves the driver to where interrupts find it.    *)
ReceiveAgain ==
  /\ place = "main" /\ memory[2] = "init"
  /\ Receive
  /\ UNCHANGED <<place, complete, software, live, pulses, landed>> /\ Unmoved

HandOver ==
  /\ place = "main" /\ memory[2] = "main"
  /\ place' = "slot"
  /\ UNCHANGED <<control, memory, words, timer, transmits, complete, software,
                 live, pulses, landed>> /\ Unmoved

(* IsrCell::get moves it once more, in the first handler that runs. *)
FirstHandler ==
  /\ place = "slot"
  /\ place' = "cell"
  /\ UNCHANGED <<control, memory, words, timer, transmits, complete, software,
                 live, pulses, landed>> /\ Unmoved

(* The channel transfers what it was set to, at any time. *)
Transfer ==
  /\ "EN" \in control /\ words > 0
  /\ words' = 0
  /\ complete' = TRUE
  /\ landed' = IF "DIR" \in control THEN landed ELSE memory[2]
  /\ UNCHANGED <<place, control, memory, timer, transmits, software, live, pulses>>
  /\ Unmoved

(* Mutant: the wrapper leaves the channel on. *)
LeftOn == control

(* The wrapper's part before handle_dma_tc. *)
SwitchedOff == control \ Wrap.clears

(* The capture channel's interrupt: what to do with the line is handle_dma_tc's. *)
TransferCompleteIrq ==
  /\ place = "cell" /\ complete /\ "TCIE" \in control
  /\ complete' = FALSE
  /\ software' = TRUE
  /\ \/ live /\ wants /\ transmits /\ Receive
     \/ live /\ wants /\ ~transmits /\ Send
     \/ ~(live /\ wants)
          /\ control' = SwitchedOff
          /\ UNCHANGED <<memory, words, timer, transmits>>
  /\ UNCHANGED <<place, live, pulses, landed>> /\ Unmoved

(* The frame interrupt: the frame is processed, and the channel set going again  *)
(* if it is not; the signal may turn out to be a servo's.                       *)
FrameIrq ==
  /\ place = "cell" /\ software
  /\ software' = FALSE
  /\ \/ pulses' = pulses
     \/ ~wants /\ pulses' = TRUE
  /\ \E high \in BOOLEAN :
       words' = CountOf(control, IF ~pulses' THEN FrameWords
                               ELSE IF high THEN Wrap.high ELSE Wrap.low)
  /\ control' = control \cup Wrap.sets
  /\ UNCHANGED <<place, memory, timer, transmits, complete, live, landed>> /\ Unmoved

(* Control code arms and disarms the motor. *)
ArmedChanges ==
  /\ place = "cell"
  /\ live' = ~live
  /\ UNCHANGED <<place, control, memory, words, timer, transmits, complete,
                 software, pulses, landed>> /\ Unmoved

(* What boots the driver, to the first handler. *)
BootCode == StartReceiving \/ InitReturns \/ ReceiveAgain \/ HandOver \/ FirstHandler

ReceiverNext ==
  \/ BootCode
  \/ Transfer \/ TransferCompleteIrq \/ FrameIrq \/ ArmedChanges

(* On a board of any chip, whatever its bring-up has come to. *)
ReceiverSpec ==
  /\ BoardInit /\ ReceiverInit
  /\ [][ReceiverNext /\ UNCHANGED bringUpVars]_<<receiverVars, bringUpVars>>

-----------------------------------------------------------------------------
(* A channel that is on transfers in the direction of its timer and of the       *)
(* driver, from or into the buffer of that direction and no more words than it  *)
(* has, word after word, and interrupts at the end; a reply reaches the pin of   *)
(* a timer with a main output.  Also while the motor is disarmed in the middle   *)
(* of a reply, and the frame interrupt asks for more of it                     *)
(* (capture_generic.rs:33-57, mcu_*/input_capture.rs, mcu_*/interrupts.rs).     *)
TransfersFit ==
  "EN" \in control =>
    /\ "DIR" \in control <=> transmits
    /\ timer = IF ~transmits THEN "capture"
               ELSE IF Mine.main_output THEN "main_output" ELSE "output"
    /\ memory[1] = IF transmits THEN "gcr_buf" ELSE "dma_buf"
    /\ words <= Buffers[memory[1]]
    /\ {"TCIE", "MINC"} \subseteq control

(* Frames go on being received, whatever becomes of the motor if no replies are   *)
(* wanted, and if they are, once the motor stays armed (isr_handlers.rs:104-130,  *)
(* mcu_*/interrupts.rs).                                                    *)
KeepsListening ==
  (wants => <>[]live) => []<>(complete /\ ~transmits)

(* "The buffer must have a stable 'static address (no moving after DMA is          *)
(* configured)" (dma_buf.rs:3-5): the frame that a handler is about to process    *)
(* was stored in the driver that it looks at.                                 *)
FramesReachHandler == place = "cell" /\ software => landed = place

=============================================================================
