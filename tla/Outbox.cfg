CONSTANTS
  Producers = {p1, p2}
  MaxSize = 2
  Lanes <- AllLanes
  MaxFrames = 3
  MaxTime = 2
SPECIFICATION FairSpec
INVARIANT EveryShedCounted
PROPERTY ShedsToBound
PROPERTY ImplementsLossyFifo
PROPERTY NoFrameParked
