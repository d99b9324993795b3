SPECIFICATION FairSpec
CONSTANTS
  t1 = t1
  t2 = t2
  AllTimers = {t1, t2}
  NoTimer = NoTimer
  MaxLosses = 2
INVARIANTS
  TypeOK
  AnnouncedAtMostOnce
  ExpiredIsAccountedFor
  ShutdownLeavesNoTask
PROPERTIES
  ImplementsAnnouncements
  ExpiredIsAnnounced
CHECK_DEADLOCK FALSE
