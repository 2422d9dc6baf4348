------------------------------- MODULE Device -------------------------------
(***************************************************************************)
(* The device around the control path: the signal line with its calibration,    *)
(* capture, answers and codes, and the hardware that the firmware sets up and    *)
(* drives.  As in module Drive, each part is on a bench of its own.            *)
(***************************************************************************)
EXTENDS Link, Capture, Replies, Codec, Priorities, Receiver, Comparators

CONSTANT Benches    \* the parts to run

ASSUME BenchesAssumption ==
  Benches \subseteq {"link", "capture", "replies", "codec", "priorities",
                     "board", "receiver", "bridge", "comparators"}

VARIABLE bench      \* the part that runs

deviceVars == <<bench, chip, linkVars, captureVars, replyVars, word,
                prioritiesVars, bringUpVars, receiverVars, bridgeVars,
                comparatorVars>>

DeviceTypeOK ==
  /\ bench \in Benches
  /\ LinkTypeOK /\ CaptureTypeOK /\ RepliesTypeOK /\ PrioritiesTypeOK
  /\ bench = "board" => BoardTypeOK
  /\ ReceiverTypeOK /\ BridgeTypeOK /\ ComparatorTypeOK
  /\ word \in 0 .. LastWord

Some(S) == CHOOSE x \in S : TRUE

(* A part that does not run begins in one of its initial states; the board, the   *)
(* receiver and the comparators are of one chip.                             *)
DeviceInit ==
  /\ bench \in Benches
  /\ LinkInit
  /\ bench # "link" => protocol = "servo" /\ stick = Some(Pulses) /\ disabled
  /\ CaptureInit
  /\ bench # "capture" => ~resyncs /\ ~line
  /\ RepliesInit
  /\ bench # "replies" => ~dshot_telemetry
  /\ CodecInit
  /\ PrioritiesInit
  /\ BoardInit
  /\ bench \notin {"board", "receiver", "comparators"} => chip = Some(ChipNames)
  /\ ReceiverInit
  /\ bench # "receiver" => ~wants
  /\ BridgeInit
  /\ bench # "bridge" => ~bridge_enable /\ ~step_brakes
  /\ ComparatorInit
  /\ bench # "comparators" => ~output

(* The part that runs steps, and the others rest. *)
DeviceNext ==
  \/ bench = "link" /\ LinkNext
       /\ UNCHANGED <<bench, captureVars, replyVars, word, prioritiesVars,
                      bringUpVars, receiverVars, bridgeVars, comparatorVars, chip>>
  \/ bench = "capture" /\ CaptureNext
       /\ UNCHANGED <<bench, linkVars, replyVars, word, prioritiesVars,
                      bringUpVars, receiverVars, bridgeVars, comparatorVars, chip>>
  \/ bench = "replies" /\ RepliesNext
       /\ UNCHANGED <<bench, linkVars, captureVars, word, prioritiesVars,
                      bringUpVars, receiverVars, bridgeVars, comparatorVars, chip>>
  \/ bench = "codec" /\ NextWord
       /\ UNCHANGED <<bench, linkVars, captureVars, replyVars,
                      prioritiesVars, bringUpVars, receiverVars, bridgeVars,
                      comparatorVars, chip>>
  \/ bench = "priorities" /\ PrioritiesNext
       /\ UNCHANGED <<bench, linkVars, captureVars, replyVars, word,
                      bringUpVars, receiverVars, bridgeVars, comparatorVars, chip>>
  \/ bench = "board" /\ BoardNext
       /\ UNCHANGED <<bench, linkVars, captureVars, replyVars, word,
                      prioritiesVars, receiverVars, bridgeVars, comparatorVars>>
  \/ bench = "receiver" /\ ReceiverNext
       /\ UNCHANGED <<bench, linkVars, captureVars, replyVars, word,
                      prioritiesVars, bringUpVars, bridgeVars, comparatorVars>>
  \/ bench = "bridge" /\ BridgeNext
       /\ UNCHANGED <<bench, linkVars, captureVars, replyVars, word,
                      prioritiesVars, bringUpVars, receiverVars, comparatorVars, chip>>
  \/ bench = "comparators" /\ ComparatorNext
       /\ UNCHANGED <<bench, linkVars, captureVars, replyVars, word,
                      prioritiesVars, bringUpVars, receiverVars, bridgeVars>>

(* The fairness of each part, on its own bench. *)
On(name, A) == bench = name /\ A

DeviceFairness ==
  /\ WF_linkVars(On("link", HearFrame))
  /\ WF_linkVars(On("link", PublishThrottle))
  /\ WF_captureVars(On("capture", CaptureNext))
  /\ WF_replyVars(On("replies", FrameCaptured))
  /\ WF_replyVars(On("replies", ReplySent))
  /\ WF_replyVars(On("replies", TransferComplete))
  /\ WF_replyVars(On("replies", FrameInterrupt))
  /\ WF_bringUpVars(On("board", WriteRegisters))
  /\ WF_bringUpVars(On("board", GiveUp))
  /\ WF_receiverVars(On("receiver", BootCode))
  /\ WF_receiverVars(On("receiver", Transfer))
  /\ WF_receiverVars(On("receiver", TransferCompleteIrq))
  /\ WF_receiverVars(On("receiver", FrameIrq))
  /\ WF_comparatorVars(On("comparators", ComparatorIrq))

DeviceSpec == DeviceInit /\ [][DeviceNext]_deviceVars /\ DeviceFairness

-----------------------------------------------------------------------------
(* Every DShot frame of an admitted bit time decodes to what was sent, and     *)
(* not at all with the wrong polarity or a flipped pulse; every reply comes    *)
(* back whole (dshot.rs:46-157).                                             *)
CodesRoundTrip == bench = "codec" => FramesDecode /\ RepliesDecode

(* On its bench, a board has its peripherals ready when they are used, and comes  *)
(* up (init.rs of each chip).                                               *)
BoardReady == bench = "board" => PeripheralsReady

BoardComesUp ==
  \/ <>(bench = "board" => BroughtUp)
  \/ <>[](bench = "board" /\ HeldUp)

(* On its bench, a receiver goes on listening (isr_handlers.rs:104-130).         *)
ReceiverListens == bench = "receiver" => KeepsListening

=============================================================================
