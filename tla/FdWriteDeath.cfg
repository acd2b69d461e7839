CONSTANTS
  MaxOutbox = 1
  MaxDepth = 1
  Wanted = {1, 2}
  MaxSent = 2
  MaxInbound = 2
  MaxDeaths = 1
  Room = 3
SPECIFICATION FairSpec
PROPERTY DeathReported
CHECK_DEADLOCK FALSE
