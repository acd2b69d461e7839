CONSTANTS
  Items = 4
  Depth = 1
SPECIFICATION Spec
PROPERTY WorkerEnds
CHECK_DEADLOCK FALSE
