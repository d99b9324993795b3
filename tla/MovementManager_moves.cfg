SPECIFICATION FairSpec
CONSTANTS
  m1 = m1
  m2 = m2
  Moves = {m1, m2}
  Breathing = Breathing
  NoMove = NoMove
  MaxCalls = 2
  MayFail = FALSE
INVARIANTS
  TypeOK
  BreathingFlagAgrees
  MovesStartInOrder
PROPERTY
  QueuedMoveRuns
CHECK_DEADLOCK FALSE
