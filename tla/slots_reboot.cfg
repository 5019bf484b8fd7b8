SPECIFICATION FairSpec
CONSTANTS
  DevMax = 1
  b1 = b1
  b2 = b2
  v1 = v1
  v2 = v2
  x1 = x1
  t1 = t1
  t2 = t2
  NULL = NULL
  Dev = {v1}
  Thread = {t1}
  DevBus <- MCDevBus
  DevKind <- MCDevKind
  ProcOps = {"reboot"}
  Env = {}
PROPERTY RebootReturns
CHECK_DEADLOCK FALSE
