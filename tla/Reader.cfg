CONSTANTS
  Focus = {"stream", "keyframes", "exposure", "index", "tracks", "log", "code", "prompts", "body", "crypt", "pipe"}
  Units = 5
  Reorder = 0
  MaxSeamSlack = 3
  NvdecLag = 1
  SeqSpan = 8
  SeqBase = 6
  ProbeKeyframes = 3
  ProbeAus = 4
  ExposureGap = 2
  ExposureFrames = 3
  Block = 2
  Window = 3
  EmitEvery = 2
  MaxLinkGap = 2
SPECIFICATION Spec
INVARIANT WindowsAgree
INVARIANT KeyframesTrue
INVARIANT ExposureAgrees
INVARIANT IndexHolds
INVARIANT LogsWhole
INVARIANT CodesCarrySecrets
INVARIANT RecordingsReadBack
INVARIANT PipesTrue
CHECK_DEADLOCK FALSE
