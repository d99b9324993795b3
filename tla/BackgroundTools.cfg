SPECIFICATION FairSpec
CONSTANTS
  t1 = t1
  t2 = t2
  Tools = {t1, t2}
  MaxSessions = 2
  CallbackMayRaise = TRUE
  DispatchMayRaise = TRUE
INVARIANTS
  TypeOK
  ReportedOnce
  QueueMatchesRegistry
  ShutdownStopsTools
PROPERTIES
  ExecutingIsReported
  NotificationIsHandled
  ImplementsToolCalls
CHECK_DEADLOCK FALSE
