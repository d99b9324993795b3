SPECIFICATION Spec
CONSTANTS
  Moves = {}
  Breathing = Breathing
  NoMove = NoMove
  MaxCalls = 4
  MayFail = TRUE
INVARIANTS
  TrackerAgrees
  StopReleasesHead
  AnchorOnlyWhileSpeaking
CHECK_DEADLOCK FALSE
