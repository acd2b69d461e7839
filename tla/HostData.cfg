CONSTANTS
  Focus = {"ota", "fd", "keys", "replay", "sync", "relay"}
  MaxPlugs = 3
  Units = {"u1", "u2"}
  Lans = {"w1"}
  MaxChanges = 1
  MaxElements = 5
  Image = 3
  UpdateWindow = 2
  MaxFrames = 2
  Rigs = {"d1"}
  Keys = {"k1", "k2"}
  Elsewhere = "kf"
  Env = {"kf"}
  MaxLosses = 2
  Items = 4
  Depth = 2
  Sizes = {0, 3}
  Versions = {1, 2}
  MaxOpens = 2
  Cursors = {"a", "b"}
  FileChunks = 3
  MaxReads = 2
  MaxLost = 2
  Sources = {"a", "b"}
  Replays = {"b"}
  Callers = {"c"}
  MaxConnects = 2
  MaxSwitches = 2
  MaxCommands = 1
  MaxRows = 1
  InboxDepth = 1
  Want = 1
  Cap = 0
  MinChunk = 1
  MaxChunk = 2
  Adverts = {0, 3}
  MaxResumes = 1
  MaxFaults = 1
  QueryWait = 1
  StallTimeout = 1
  SoftRetry = 0
  CommitWait = 1
  Deadline = 2
  Streams = {"v", "r"}
  Raw = {"r"}
  VideoQueue = 1
  VideoFrames = 2
  MaxSessions = 2
SPECIFICATION MCSpec
INVARIANT RelaySafe
INVARIANT FramesWhole
INVARIANT OwnerHolds
INVARIANT CopiedWhole
INVARIANT SyncSound
INVARIANT ReconnectIsHeard
CHECK_DEADLOCK FALSE
