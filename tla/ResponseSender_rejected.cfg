SPECIFICATION FairSpec
CONSTANTS
  i1 = i1
  i2 = i2
  Items = {i1, i2}
  MaxRetries = 2
  MaxUserTurns = 1
  MaxSessions = 1
  MayTimeOut = FALSE
  MayFail = FALSE
PROPERTY
  RejectionIsRetried
CHECK_DEADLOCK FALSE
