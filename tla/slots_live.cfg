SPECIFICATION FairSpec
CONSTANTS
  DevMax = 1
  b1 = b1
  b2 = b2
  v1 = v1
  v2 = v2
  x1 = x1
  t1 = t1
  t2 = t2
  NULL = NULL
  Dev = {b1, v1, x1}
  Thread = {t1}
  DevBus <- MCDevBus
  DevKind <- MCDevKind
  ProcOps = {}
  Env = {"unplug", "rmmod"}
PROPERTIES BootResolves BusOpCompletes
CHECK_DEADLOCK FALSE
