CONSTANTS
  Focus = {"link", "watchdog"}
  MaxLinks = 3
  MaxReliable = 2
  ReaderProof = 2
  StallTicks = 2
  BaseRetry = 2
  MaxRetry = 5
  BackoffStartAt = 1
  UsbPoll = 1
  StallTime = 2
  FrameBytes = 2
  LaneDepth = 2
  TimedDepth = 1
  MaxFramesPerPump = 2
  PumpStall = 1
  MaxSends = 3
  MaxTime = 3
SPECIFICATION MCSpec
INVARIANT LinksSound
PROPERTY LinkEnds
PROPERTY ReopenedWhenStale
