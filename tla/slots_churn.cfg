SPECIFICATION Spec
CONSTANTS
  DevMax = 2
  b1 = b1
  b2 = b2
  v1 = v1
  v2 = v2
  x1 = x1
  t1 = t1
  t2 = t2
  NULL = NULL
  Dev = {b1, v1, b2}
  Thread = {t1, t2}
  DevBus <- MCDevBus
  DevKind <- MCDevKind
  ProcOps = {"reboot", "dev_info", "net"}
  Env = {"unplug", "rmmod"}
SYMMETRY MCSymmetry
INVARIANTS TypeOK RefsBalanced MappedOwn KindMatchesState BootTimerArmed FreeSlotClean
  UnloadQuiescent PdevOnBus ReconnectWithoutPdev FreedOnlyByBoot
PROPERTY CardsLiveByLifecycle
CHECK_DEADLOCK FALSE
