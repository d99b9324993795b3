SPECIFICATION BatchFairSpec
CONSTANTS
  cam = cam
  quiet = quiet
  Tools = {cam, quiet}
  CameraTools = {cam}
  QuietTools = {quiet}
  IdleTools = {}
  MaxSessions = 1
  CallbackMayRaise = FALSE
  DispatchMayRaise = FALSE
  MaxResponses = 2
  MaxTranscripts = 0
  MayTimeOut = FALSE
INVARIANT
  BatchTypeOK
PROPERTIES
  RespondOnceAllIn
  BatchIsAnswered
CHECK_DEADLOCK FALSE
