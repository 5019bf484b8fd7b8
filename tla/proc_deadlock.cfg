SPECIFICATION FairSpec
CONSTANTS
  NULL = NULL
  t1 = t1
  t2 = t2
  Thread = {t1, t2}
  Opened = {"dev_info"}
PROPERTY LockComesFree
CHECK_DEADLOCK FALSE
