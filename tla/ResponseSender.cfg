SPECIFICATION FairSpec
CONSTANTS
  i1 = i1
  i2 = i2
  Items = {i1, i2}
  MaxRetries = 2
  MaxUserTurns = 2
  MaxSessions = 2
  MayTimeOut = TRUE
  MayFail = TRUE
INVARIANTS
  TypeOK
  DoneTracksServer
  NeverRejected
PROPERTIES
  ItemsAreAnswered
  WorkerComesBack
CHECK_DEADLOCK FALSE
