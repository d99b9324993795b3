SPECIFICATION Spec
CONSTANTS
  t1 = t1
  t2 = t2
  Tools = {t1, t2}
  MaxSessions = 2
  CallbackMayRaise = TRUE
  DispatchMayRaise = TRUE
INVARIANTS
  ShutdownAlwaysStopsTools
CHECK_DEADLOCK FALSE
