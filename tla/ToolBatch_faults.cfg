SPECIFICATION BatchSpec
CONSTANTS
  cam = cam
  quiet = quiet
  Tools = {cam, quiet}
  CameraTools = {cam}
  QuietTools = {quiet}
  IdleTools = {quiet}
  MaxSessions = 2
  CallbackMayRaise = TRUE
  DispatchMayRaise = TRUE
  MaxResponses = 1
  MaxTranscripts = 1
  MayTimeOut = TRUE
INVARIANTS
  OwedMeansComing
CHECK_DEADLOCK FALSE
