CONSTANTS
  Senders = {p1, p2}
  Stoppers = {s1, s2}
  Impatient = {s2}
  Policy <- SmallPolicy
  MaxSize = 3
  MaxFrames = 5
  NumChunks = 2
  ChunkBytes = 2
  ResidentChunks = 1
  left_eye = left_eye
  right_eye = right_eye
  late_eye = late_eye
  imu = imu
  Cameras = {left_eye, right_eye, late_eye}
  MaxAttempts = 2
  MaxSkips = 1
  Configs <- SmallConfigs
  Frames <- SmallFrames
  FrameSize <- SmallFrameSize
  MaxFrame = 62
  Skews <- SmallSkews
SPECIFICATION MCSpec
INVARIANT FramesKept
INVARIANT OneFinalizer
INVARIANT CutsDecodable
INVARIANT PartsSound
PROPERTY RecorderEnds
