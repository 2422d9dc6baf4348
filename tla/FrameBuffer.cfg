\* The frame that a handler is about to process, and where the channel stored it.
SPECIFICATION ReceiverSpec
CONSTANTS
  PulseOutput = TRUE
  FrameWords = 32
  ReplyWords = 31
INVARIANTS
  FramesReachHandler
