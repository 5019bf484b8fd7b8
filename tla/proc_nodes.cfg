SPECIFICATION FairSpec
CONSTANTS
  NULL = NULL
  t1 = t1
  t2 = t2
  Thread = {t1, t2}
  Opened = {"status", "dev_info", "net", "dev_log", "reboot"}
INVARIANTS AllOrNothing NoneInsideReleased
PROPERTY OnlyWaitersBlock
CHECK_DEADLOCK FALSE
