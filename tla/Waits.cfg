CONSTANTS
  Producers = {p1, p2}
  MaxWork = 4
  MaxReopens = 1
  MaxSize = 2
  MaxMessages = 4
  Clients = {phone, stormer, stranger}
  Unwelcome = {stormer, stranger}
  MaxAccepts = 2
SPECIFICATION MCSpec
INVARIANT NoSleepOnWork
INVARIANT NothingLost
PROPERTY WaitsEnd
