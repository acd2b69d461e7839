CONSTANTS
  Streams = {left, right}
  HoldTime = 1
  MaxEvictions = 2
  MaxTime = 3
  RateStreams = {imu, audio}
  MaxGap = 3
  EpochReset = 2
  MaxCapture = 8
  MaxMessages = 3
SPECIFICATION MCSpec
INVARIANT CapIsFair
PROPERTY LiftedOnlyPastDeadline
PROPERTY ResumesAtKeyframe
PROPERTY DegradeEnds
