SPECIFICATION FairSpec
CONSTANTS
  MaxRequests = 1
  MaxAttempts = 2
  RequestMayRaise = TRUE
INVARIANT
  TypeOK
PROPERTIES
  CloseEndsTheApp
  SleepEndsTheApp
  RestartReplacesSession
CHECK_DEADLOCK FALSE
