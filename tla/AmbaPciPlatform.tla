-------------------------- MODULE AmbaPciPlatform --------------------------
(***************************************************************************)
(* The slot table of the amba_pci_platform driver and everything that runs *)
(* against it concurrently: the PCI bus notifier, the boot-timeout work,   *)
(* the ioctls of the control device, the /proc nodes of a slot, and module *)
(* load and unload (amba_pci_platform_main.c).                             *)
(*                                                                         *)
(* Granularity.  g_pcie_drv.lock is a mutex and every handler that takes   *)
(* it sleeps only inside its own section, so a locked section is one       *)
(* action guarded by LockFree.  The one exception is pcie_release_dev:     *)
(* with the lock held it calls remove_proc_subtree, which waits until no   *)
(* thread is inside a handler of the slot's proc nodes.  That wait is a    *)
(* state of its own ("rundown"), during which the lock is not free.  What  *)
(* the code does without the lock (loading e->pdev, dereferencing it,      *)
(* calling into the PCI core) is a separate action.                        *)
(*                                                                         *)
(* External to the repository, and modelled from the way the driver uses   *)
(* them: the PCI core (device list, reference counts, the rescan/remove    *)
(* mutex that serialises hot-add and hot-remove), the workqueue, procfs.   *)
(***************************************************************************)
EXTENDS Integers

CONSTANTS
  DevMax,    \* AMBA_PCI_DEV_MAX, the number of slots
  Dev,       \* the struct pci_dev objects the PCI core may allocate
  DevBus,    \* [Dev -> Nat], pdev->bus->number
  DevKind,   \* [Dev -> Kind], what vendor, device, class and BAR 0 tell
  Thread,    \* user threads inside an ioctl or a proc handler
  ProcOps,   \* the proc nodes users exercise: reboot, dev_info, net
  Env,       \* what the environment may do besides scanning the bus
  NULL

\* "boot":   vendor 0x2134, device 0x0006, class 0xff...., BAR 0 present
\* "virtio": vendor 0x2134, device 0x0500, BAR 0 present
\* "other":  any other function
Kind == {"boot", "virtio", "other"}

\* "unplug": a device is removed by someone other than this driver
\* "multi":  two functions may share a bus number
\* "rmmod":  the module is unloaded
\* "init_race": the load-time scan meets a device that is being removed
EnvChoice == {"unplug", "multi", "rmmod", "init_race"}

Slot == 0 .. DevMax - 1

ASSUME PlatformAssumption ==
  /\ DevMax \in Nat \ {0}
  /\ DevBus \in [Dev -> Nat]
  /\ DevKind \in [Dev -> Kind]
  /\ ProcOps \subseteq {"reboot", "dev_info", "net"}
  /\ Env \subseteq EnvChoice
  /\ NULL \notin Dev
  /\ NULL \notin Slot
  /\ NULL \notin Thread

VARIABLES
  bus,      \* PCI core: "free" (no object), "present" (on the device list), "gone"
  refs,     \* references this driver holds on each pci_dev
  op,       \* phase of the hot-add or hot-remove that owns the rescan mutex
  op_dev,   \* the device it is about
  op_by,    \* the thread that called it, NULL for the PCI core itself
  devs,     \* g_pcie_drv.devs
  timer,    \* boot_timeout_work is pending (timer armed or work queued)
  worker,   \* pcie_boot_timeout_fn is running and has not taken the lock yet
  mod,      \* how far the module is between load and unload
  exit_i,   \* loop index of amba_pci_platform_exit
  th        \* user threads: what they run, where, on which slot, e->pdev as loaded

vars == <<bus, refs, op, op_dev, op_by, devs, timer, worker, mod, exit_i, th>>

coreVars == <<bus, refs, op, op_dev, op_by>>
workVars == <<timer, worker>>
modVars  == <<mod, exit_i>>

State == {"DISCONNECTED", "BOOTING", "REBOOTING", "CONNECTED", "BOOT_FAILED"}

OrNull(S) == S \cup {NULL}

(***************************************************************************)
(* struct pcie_dev_entry.  boot_bar, boot_mem_base and board_info record   *)
(* the device they were obtained from, NULL when boot_bar is -1, when      *)
(* nothing is mapped, and when board_info_is_updated is false.  id and     *)
(* proc_name are only reported to users and are left out.                  *)
(***************************************************************************)
Entry ==
  [in_use : BOOLEAN, proc_dir : BOOLEAN, state : State, pdev : OrNull(Dev),
   boot_bar : OrNull(Dev), boot_mem_base : OrNull(Dev), board_info : OrNull(Dev)]

FreeEntry ==
  [in_use |-> FALSE, proc_dir |-> FALSE, state |-> "DISCONNECTED", pdev |-> NULL,
   boot_bar |-> NULL, boot_mem_base |-> NULL, board_info |-> NULL]

Call == [op : {"none", "fw", "rb", "info", "net"},
         pc : {"idle", "lock", "check", "load", "call", "remove", "ub"},
         slot : OrNull(Slot), ptr : OrNull(Dev)]

Idle == [op |-> "none", pc |-> "idle", slot |-> NULL, ptr |-> NULL]

Init ==
  /\ bus = [d \in Dev |-> "free"]
  /\ refs = [d \in Dev |-> 0]
  /\ op = "none" /\ op_dev = NULL /\ op_by = NULL
  /\ devs = [s \in Slot |-> FreeEntry]
  /\ timer = [s \in Slot |-> FALSE]
  /\ worker = [s \in Slot |-> FALSE]
  /\ mod = "unloaded" /\ exit_i = 0
  /\ th = [t \in Thread |-> Idle]

----------------------------------------------------------------------------
(* Locks, and the threads they keep out.                                   *)

\* The notifier is on pci_bus_type's chain.
Registered == mod \in {"registered", "live"}

\* g_pcie_drv.lock: held across steps only while pcie_release_dev waits.
LockFree == op # "rundown" /\ mod \notin {"release", "rundown"}

\* t is inside a handler of one of slot s's proc nodes.
InProc(t, s) == th[t].op \in {"rb", "info", "net"} /\ th[t].slot = s

\* remove_proc_subtree returns once nobody is inside a handler.
ProcQuiet(s) == \A t \in Thread : ~InProc(t, s)

----------------------------------------------------------------------------
(* Operations on an entry, on the reference counts and on the timer.       *)

pcie_physical_slots == [s \in Slot |-> s + 1]

\* get_pci_slot_id(d) = s: only the bus number is compared.
OnSlot(d, s) == DevBus[d] = pcie_physical_slots[s]

pci_dev_get(d) == [refs EXCEPT ![d] = @ + 1]

pci_dev_put(d) == IF d = NULL THEN refs ELSE [refs EXCEPT ![d] = @ - 1]

\* The object is freed with its last reference once it is off the list.
BusAfterPut(d) ==
  IF d # NULL /\ bus[d] = "gone" /\ refs[d] = 1
  THEN [bus EXCEPT ![d] = "free"]
  ELSE bus

pcie_boot_bar_unmap(e) == [e EXCEPT !.boot_mem_base = NULL]

\* Defect: the BAR stays mapped.
pcie_entry_detach_pdev_NoUnmap(e) == [e EXCEPT !.pdev = NULL]

pcie_entry_detach_pdev(e) ==
  IF e.pdev = NULL THEN e ELSE [pcie_boot_bar_unmap(e) EXCEPT !.pdev = NULL]

cancel_delayed_work(s) == [timer EXCEPT ![s] = FALSE]

\* Defect: scheduled first, then cancelled.
pcie_boot_timeout_schedule_Swapped(s) == cancel_delayed_work(s)

\* cancel_delayed_work, then schedule_delayed_work.
pcie_boot_timeout_schedule(s) == [cancel_delayed_work(s) EXCEPT ![s] = TRUE]

\* The directory and its five nodes, or no trace of them (see the last disjunct
\* of pcie_handle_add_locked).
pcie_create_proc_nodes(e) == [e EXCEPT !.proc_dir = TRUE]

\* pcie_init_slot resets every field of the entry.
InitEntry(d) ==
  [pcie_create_proc_nodes(FreeEntry) EXCEPT !.in_use = TRUE, !.pdev = d]

\* How pcie_map_boot_bar can end: no usable BAR; BAR known but not mapped
\* (config write or pci_iomap failed); mapped.
MapResult == {"no_bar", "not_mapped", "mapped"}

\* A device that has left the list has given its resources back, so that
\* pcie_map_boot_bar finds no res->parent and retries up to -ETIMEDOUT.
pcie_boot_bar_ensure_mapped(e, r) ==
  IF e.boot_mem_base # NULL \/ r = "no_bar" THEN e
  ELSE [e EXCEPT !.boot_bar = IF @ = NULL THEN e.pdev ELSE @,
                 !.boot_mem_base = IF r = "mapped" /\ bus[e.pdev] = "present"
                                   THEN e.pdev ELSE NULL]

ReadBoardInfo(e) ==
  IF e.board_info = NULL THEN [e EXCEPT !.board_info = e.boot_mem_base] ELSE e

pcie_dev_refresh_board_info_locked(e, r) ==
  IF e.state = "DISCONNECTED" /\ e.pdev # NULL
  THEN ReadBoardInfo(pcie_boot_bar_ensure_mapped(e, r))
  ELSE e

pcie_query_dev_info_locked(e, r) ==
  IF e.in_use THEN pcie_dev_refresh_board_info_locked(e, r) ELSE e

----------------------------------------------------------------------------
(* Bus notifier: hot-add.                                                  *)

pcie_try_reconnect_booting_locked(d, s) ==
  /\ devs' = [devs EXCEPT ![s].pdev = d, ![s].state = "CONNECTED"]
  /\ refs' = pci_dev_get(d)
  /\ timer' = cancel_delayed_work(s)

\* The entry handle_add leaves for a device of an unused slot.
AddedEntry(d) ==
  [InitEntry(d) EXCEPT !.state = IF DevKind[d] = "virtio"
                                 THEN "CONNECTED" ELSE @]

\* Defect: the device is stored without pci_dev_get.
pcie_init_slot_NoGet(d, s) ==
  /\ devs' = [devs EXCEPT ![s] = AddedEntry(d)]
  /\ UNCHANGED <<refs, timer>>

pcie_init_slot(d, s) ==
  /\ devs' = [devs EXCEPT ![s] = AddedEntry(d)]
  /\ refs' = pci_dev_get(d)
  /\ UNCHANGED timer

\* Defect: any function on the bus of a booting slot reconnects it.
Reconnects_AnyKind(d, s) ==
  OnSlot(d, s) /\ devs[s].in_use /\ devs[s].state = "BOOTING"

Reconnects(d, s) ==
  /\ OnSlot(d, s) /\ devs[s].in_use
  /\ devs[s].state = "BOOTING" /\ DevKind[d] = "virtio"

Inits(d, s) ==
  OnSlot(d, s) /\ ~devs[s].in_use /\ DevKind[d] \in {"boot", "virtio"}

\* The last disjunct: no slot, slot busy, function not ours, or no memory for
\* the proc nodes (pcie_create_proc_nodes undoes what it created).
pcie_handle_add_locked(d) ==
  \/ \E s \in Slot : Reconnects(d, s) /\ pcie_try_reconnect_booting_locked(d, s)
  \/ \E s \in Slot : Inits(d, s) /\ pcie_init_slot(d, s)
  \/ /\ ~ \E s \in Slot : Reconnects(d, s)
     /\ UNCHANGED <<devs, refs, timer>>

\* PCI core, external: a scan allocates a pci_dev and puts it on the list.
BusScan(d) ==
  /\ op = "none" /\ bus[d] = "free"
  /\ "multi" \notin Env => \A c \in Dev : bus[c] = "present" => DevBus[c] # DevBus[d]
  /\ bus' = [bus EXCEPT ![d] = "present"]
  /\ op' = "add" /\ op_dev' = d
  /\ UNCHANGED <<refs, op_by, devs, timer, worker, mod, exit_i, th>>

\* pcie_pci_bus_notify(BUS_NOTIFY_ADD_DEVICE).
BusAddNotify ==
  /\ op = "add"
  /\ \/ Registered /\ LockFree /\ pcie_handle_add_locked(op_dev)
     \/ ~Registered /\ UNCHANGED <<devs, refs, timer>>
  /\ op' = "none" /\ op_dev' = NULL
  /\ UNCHANGED <<bus, op_by, worker, mod, exit_i, th>>

----------------------------------------------------------------------------
(* Bus notifier: hot-remove.                                               *)

\* Defect: pci_dev_put left out.
Detach_NoPut(s) == UNCHANGED <<refs, bus>>

Detach(s) ==
  /\ refs' = pci_dev_put(devs[s].pdev)
  /\ bus' = BusAfterPut(devs[s].pdev)

\* pcie_release_dev up to the wait inside remove_proc_subtree: the device is
\* detached and the timeout cancelled; a proc node stays within reach until
\* remove_proc_subtree has got to it.
pcie_release_dev_begin(s) ==
  /\ Detach(s)
  /\ devs' = [devs EXCEPT ![s] = pcie_entry_detach_pdev(@)]
  /\ timer' = cancel_delayed_work(s)

\* Defect: board data of the old card kept.
pcie_release_dev_end_KeepsBoard(s) ==
  devs' = [devs EXCEPT ![s] = [FreeEntry EXCEPT !.board_info = devs[s].board_info]]

\* pcie_release_dev after remove_proc_subtree.
pcie_release_dev_end(s) == devs' = [devs EXCEPT ![s] = FreeEntry]

\* Defect: a removal while BOOTING is taken for the driver's own and ignored.
pcie_handle_del_locked_IgnoresBooting(d) ==
  \/ /\ \A s \in Slot : OnSlot(d, s) /\ devs[s].in_use => devs[s].state = "BOOTING"
     /\ op' = "unlink"
     /\ UNCHANGED <<bus, refs, devs, timer>>
  \/ \E s \in Slot :
       /\ OnSlot(d, s) /\ devs[s].in_use /\ devs[s].state # "BOOTING"
       /\ pcie_release_dev_begin(s)
       /\ op' = "rundown"

pcie_handle_del_locked(d) ==
  \/ /\ ~ \E s \in Slot : OnSlot(d, s) /\ devs[s].in_use
     /\ op' = "unlink"
     /\ UNCHANGED <<bus, refs, devs, timer>>
  \/ \E s \in Slot :
       /\ OnSlot(d, s) /\ devs[s].in_use /\ devs[s].state = "BOOTING"
       /\ Detach(s)
       /\ devs' = [devs EXCEPT ![s] = pcie_entry_detach_pdev(@)]
       /\ op' = "unlink"
       /\ UNCHANGED timer
  \/ \E s \in Slot :
       /\ OnSlot(d, s) /\ devs[s].in_use /\ devs[s].state # "BOOTING"
       /\ pcie_release_dev_begin(s)
       /\ op' = "rundown"

\* PCI core, external: someone else starts removing d.
BusRemove(d) ==
  /\ "unplug" \in Env
  /\ op = "none" /\ bus[d] = "present"
  /\ op' = "del" /\ op_dev' = d
  /\ UNCHANGED <<bus, refs, op_by, devs, timer, worker, mod, exit_i, th>>

\* pcie_pci_bus_notify(BUS_NOTIFY_DEL_DEVICE), sent before d leaves the list.
BusDelNotify ==
  /\ op = "del"
  /\ \/ Registered /\ LockFree /\ pcie_handle_del_locked(op_dev)
     \/ ~Registered /\ op' = "unlink" /\ UNCHANGED <<bus, refs, devs, timer>>
  /\ UNCHANGED <<op_dev, op_by, worker, mod, exit_i, th>>

\* Defect: pcie_release_dev leaves the proc nodes to themselves.
BusDelRundown_NoWait ==
  /\ op = "rundown"
  /\ \E s \in Slot : OnSlot(op_dev, s) /\ pcie_release_dev_end(s)
  /\ op' = "unlink"
  /\ UNCHANGED <<bus, refs, op_dev, op_by, timer, worker, mod, exit_i, th>>

\* Defect: cancel_delayed_work_sync, which waits for a work function that
\* waits for the lock.
BusDelRundown_SyncCancel ==
  /\ op = "rundown"
  /\ \E s \in Slot :
       OnSlot(op_dev, s) /\ ProcQuiet(s) /\ ~worker[s] /\ pcie_release_dev_end(s)
  /\ op' = "unlink"
  /\ UNCHANGED <<bus, refs, op_dev, op_by, timer, worker, mod, exit_i, th>>

BusDelRundown ==
  /\ op = "rundown"
  /\ \E s \in Slot :
       OnSlot(op_dev, s) /\ ProcQuiet(s) /\ pcie_release_dev_end(s)
  /\ op' = "unlink"
  /\ UNCHANGED <<bus, refs, op_dev, op_by, timer, worker, mod, exit_i, th>>

\* PCI core, external: d leaves the list, the core drops its own reference,
\* and pci_stop_and_remove_bus_device_locked returns to its caller.
BusUnlink ==
  /\ op = "unlink"
  /\ bus' = [bus EXCEPT ![op_dev] = IF refs[op_dev] = 0 THEN "free" ELSE "gone"]
  /\ th' = IF op_by = NULL THEN th ELSE [th EXCEPT ![op_by] = Idle]
  /\ op' = "none" /\ op_dev' = NULL /\ op_by' = NULL
  /\ UNCHANGED <<refs, devs, timer, worker, mod, exit_i>>

----------------------------------------------------------------------------
(* Boot timeout.                                                           *)

\* Workqueue, external: 60 s have passed, the work function starts.
TimerFire(s) ==
  /\ timer[s] /\ ~worker[s]
  /\ timer' = [timer EXCEPT ![s] = FALSE]
  /\ worker' = [worker EXCEPT ![s] = TRUE]
  /\ UNCHANGED <<coreVars, devs, modVars, th>>

\* Defect: only a slot that still has its device times out.
TimedOut_NeedsPdev(e) ==
  IF e.in_use /\ e.pdev # NULL /\ e.state = "BOOTING"
  THEN [e EXCEPT !.state = "BOOT_FAILED"] ELSE e

\* Defect: the state is not looked at again once the lock is there.
TimedOut_AnyState(e) == IF e.in_use THEN [e EXCEPT !.state = "BOOT_FAILED"] ELSE e

TimedOut(e) ==
  IF e.in_use /\ e.state = "BOOTING" THEN [e EXCEPT !.state = "BOOT_FAILED"] ELSE e

pcie_boot_timeout_fn(s) ==
  /\ worker[s] /\ LockFree
  /\ devs' = [devs EXCEPT ![s] = TimedOut(@)]
  /\ worker' = [worker EXCEPT ![s] = FALSE]
  /\ UNCHANGED <<coreVars, timer, modVars, th>>


----------------------------------------------------------------------------
(* ioctls of the control device.                                           *)

QueryPlatformInfo ==
  /\ Registered /\ LockFree
  /\ \E r \in [Slot -> MapResult] :
       devs' = [s \in Slot |-> pcie_query_dev_info_locked(devs[s], r[s])]
  /\ UNCHANGED <<coreVars, workVars, modVars, th>>

\* A request that ends in an error after the slot has been found ready: no
\* mapping, the endpoint not online in time, or a ring transfer that failed.
XferFirmwareFails(s) ==
  /\ Registered /\ LockFree
  /\ devs[s].in_use /\ devs[s].state = "DISCONNECTED"
  /\ \E r \in MapResult :
       devs' = [devs EXCEPT ![s] = pcie_dev_refresh_board_info_locked(@, r)]
  /\ UNCHANGED <<coreVars, workVars, modVars, th>>

\* Defect: the state is not looked at, a second request may follow the first.
XferFirmware_AnyState(t, s) ==
  /\ th[t] = Idle /\ Registered /\ LockFree
  /\ devs[s].in_use
  /\ \E r \in MapResult :
       LET e == pcie_dev_refresh_board_info_locked(devs[s], r) IN
       /\ e.boot_mem_base # NULL
       /\ devs' = [devs EXCEPT ![s] = [e EXCEPT !.state = "BOOTING"]]
  /\ timer' = pcie_boot_timeout_schedule(s)
  /\ th' = [th EXCEPT ![t] = [op |-> "fw", pc |-> "check", slot |-> s, ptr |-> NULL]]
  /\ UNCHANGED <<coreVars, worker, modVars>>

\* The locked part of a request whose three images all reached the endpoint.
XferFirmware(t, s) ==
  /\ th[t] = Idle /\ Registered /\ LockFree
  /\ devs[s].in_use /\ devs[s].state = "DISCONNECTED"
  /\ \E r \in MapResult :
       LET e == pcie_dev_refresh_board_info_locked(devs[s], r) IN
       /\ e.boot_mem_base # NULL
       /\ devs' = [devs EXCEPT ![s] = [e EXCEPT !.state = "BOOTING"]]
  /\ timer' = pcie_boot_timeout_schedule(s)
  /\ th' = [th EXCEPT ![t] = [op |-> "fw", pc |-> "check", slot |-> s, ptr |-> NULL]]
  /\ UNCHANGED <<coreVars, worker, modVars>>

\* if (e_hot && e_hot->pdev), after the unlock.
FwCheck(t) ==
  /\ th[t].op = "fw" /\ th[t].pc = "check"
  /\ th' = [th EXCEPT ![t] = IF devs[th[t].slot].pdev = NULL THEN Idle
                             ELSE [@ EXCEPT !.pc = "load"]]
  /\ UNCHANGED <<coreVars, devs, workVars, modVars>>

\* e->pdev is loaded without the lock.  For the firmware ioctl and the net
\* nodes this is the second load of an expression that first tested it; a
\* compiler that keeps one load makes both steps one.
PdevLoad(t) ==
  /\ th[t].pc = "load"
  /\ th' = [th EXCEPT ![t].pc = "call", ![t].ptr = devs[th[t].slot].pdev]
  /\ UNCHANGED <<coreVars, devs, workVars, modVars>>

\* pci_stop_and_remove_bus_device_locked(ptr): takes the rescan mutex.
RemoveCall(t) ==
  /\ th[t].op \in {"fw", "rb"} /\ th[t].pc = "call" /\ op = "none"
  /\ \/ /\ th[t].ptr # NULL /\ bus[th[t].ptr] = "present"
        /\ op' = "del" /\ op_dev' = th[t].ptr /\ op_by' = t
        /\ th' = [th EXCEPT ![t].pc = "remove"]
     \/ /\ th[t].ptr # NULL /\ bus[th[t].ptr] # "present"
        /\ th' = [th EXCEPT ![t] = Idle]
        /\ UNCHANGED <<op, op_dev, op_by>>
     \/ /\ th[t].ptr # NULL => bus[th[t].ptr] = "free"
        /\ th' = [th EXCEPT ![t].pc = "ub"]
        /\ op' = "dead"
        /\ UNCHANGED <<op_dev, op_by>>
  /\ UNCHANGED <<bus, refs, devs, workVars, modVars>>

----------------------------------------------------------------------------
(* Proc nodes of a slot.  Every handler may be entered while the slot has  *)
(* its directory, whatever the module is doing.                            *)

EnterProc(t, s, o, pc) ==
  /\ th[t] = Idle /\ devs[s].proc_dir
  /\ th' = [th EXCEPT ![t] = [op |-> o, pc |-> pc, slot |-> s, ptr |-> NULL]]
  /\ UNCHANGED <<coreVars, devs, workVars, modVars>>

\* A write of "1" that has passed the checks in front of the lock.
RebootEnter(t, s) == "reboot" \in ProcOps /\ EnterProc(t, s, "rb", "lock")

RebootLocked(t) ==
  LET s == th[t].slot
      ok == devs[s].pdev # NULL /\ devs[s].state = "CONNECTED"
  IN
  /\ th[t].op = "rb" /\ th[t].pc = "lock" /\ LockFree
  /\ devs' = IF ok THEN [devs EXCEPT ![s].state = "REBOOTING"] ELSE devs
  /\ th' = [th EXCEPT ![t] = IF ok THEN [@ EXCEPT !.pc = "load"] ELSE Idle]
  /\ UNCHANGED <<coreVars, workVars, modVars>>

DevInfoEnter(t, s) == "dev_info" \in ProcOps /\ EnterProc(t, s, "info", "lock")

DevInfoLocked(t) ==
  /\ th[t].op = "info" /\ th[t].pc = "lock" /\ LockFree
  /\ \E r \in MapResult :
       devs' = [devs EXCEPT ![th[t].slot] = pcie_query_dev_info_locked(@, r)]
  /\ th' = [th EXCEPT ![t] = Idle]
  /\ UNCHANGED <<coreVars, workVars, modVars>>

\* net and dev_log: e->pdev ? e->pdev->bus->number : e->phy_slot.bus, with no
\* lock held.  A reader that finds no device changes nothing.
NetEnter(t, s) ==
  "net" \in ProcOps /\ devs[s].pdev # NULL /\ EnterProc(t, s, "net", "load")

\* Reading freed memory returns garbage or faults; a NULL pointer faults.  A
\* thread that faults stays inside the handler as far as procfs can tell.
NetDeref(t) ==
  /\ th[t].op = "net" /\ th[t].pc = "call"
  /\ \/ /\ th[t].ptr # NULL
        /\ th' = [th EXCEPT ![t] = Idle]
     \/ /\ th[t].ptr # NULL => bus[th[t].ptr] = "free"
        /\ th' = [th EXCEPT ![t].pc = "ub"]
  /\ UNCHANGED <<coreVars, devs, workVars, modVars>>

----------------------------------------------------------------------------
(* Module load and unload.                                                 *)

\* amba_pci_platform_init up to the registration of the notifier.
ModuleInit ==
  /\ mod = "unloaded"
  /\ mod' = "registered"
  /\ devs' = [s \in Slot |-> FreeEntry]
  /\ timer' = [s \in Slot |-> FALSE]
  /\ UNCHANGED <<coreVars, worker, exit_i, th>>

\* The devices pci_get_device finds for slot s: those with the boot IDs only.
Existing(s) ==
  {d \in Dev : bus[d] = "present" /\ DevKind[d] = "boot" /\ OnSlot(d, s)}

\* add[s] is the device that gets slot s, NULL when there is none or when its
\* proc nodes could not be created.
pcie_enumerate_existed_devs ==
  /\ mod = "registered" /\ LockFree
  /\ "init_race" \notin Env => op # "unlink"
  /\ \E add \in [Slot -> OrNull(Dev)] :
       /\ \A s \in Slot : add[s] # NULL => add[s] \in Existing(s) /\ ~devs[s].in_use
       /\ devs' = [s \in Slot |-> IF add[s] = NULL THEN devs[s] ELSE AddedEntry(add[s])]
       /\ refs' = [d \in Dev |-> IF \E s \in Slot : add[s] = d
                                 THEN refs[d] + 1 ELSE refs[d]]
  /\ mod' = "live"
  /\ UNCHANGED <<bus, op, op_dev, op_by, workVars, exit_i, th>>

\* rmmod: no file of the control device is open, a running notifier is waited
\* for, and from here on no notification is delivered.
ExitUnregister ==
  /\ "rmmod" \in Env /\ mod = "live"
  /\ \A t \in Thread : th[t].op # "fw"
  /\ op # "rundown"
  /\ mod' = "exit_cancel"
  /\ UNCHANGED <<coreVars, devs, workVars, exit_i, th>>

\* Defect: cancel_delayed_work instead of cancel_delayed_work_sync.
ExitCancelSync_NoSync ==
  /\ mod = "exit_cancel"
  /\ timer' = [s \in Slot |-> FALSE]
  /\ mod' = "release" /\ exit_i' = 0
  /\ UNCHANGED <<coreVars, devs, worker, th>>

\* cancel_delayed_work_sync on every slot, then mutex_lock: with no notifier
\* left nothing keeps the lock across steps.
ExitCancelSync ==
  /\ mod = "exit_cancel"
  /\ \A s \in Slot : ~worker[s]
  /\ timer' = [s \in Slot |-> FALSE]
  /\ mod' = "release" /\ exit_i' = 0
  /\ UNCHANGED <<coreVars, devs, worker, th>>

\* One round of the release loop, under the lock.
ExitRelease ==
  /\ mod = "release" /\ exit_i < DevMax
  /\ \/ /\ ~devs[exit_i].in_use
        /\ exit_i' = exit_i + 1
        /\ UNCHANGED <<bus, refs, devs, timer, mod>>
     \/ /\ devs[exit_i].in_use
        /\ pcie_release_dev_begin(exit_i)
        /\ mod' = "rundown"
        /\ UNCHANGED exit_i
  /\ UNCHANGED <<op, op_dev, op_by, worker, th>>

ExitRundown ==
  /\ mod = "rundown" /\ ProcQuiet(exit_i)
  /\ pcie_release_dev_end(exit_i)
  /\ mod' = "release" /\ exit_i' = exit_i + 1
  /\ UNCHANGED <<coreVars, workVars, th>>

ExitDone ==
  /\ mod = "release" /\ exit_i = DevMax
  /\ mod' = "unloaded" /\ exit_i' = 0
  /\ UNCHANGED <<coreVars, devs, workVars, th>>

----------------------------------------------------------------------------
BusNext ==
  \/ \E d \in Dev : BusScan(d) \/ BusRemove(d)
  \/ BusAddNotify \/ BusDelNotify \/ BusDelRundown \/ BusUnlink

WorkNext == \E s \in Slot : TimerFire(s) \/ pcie_boot_timeout_fn(s)

IoctlNext ==
  \/ QueryPlatformInfo
  \/ \E s \in Slot : XferFirmwareFails(s)
  \/ \E t \in Thread, s \in Slot : XferFirmware(t, s)
  \/ \E t \in Thread : FwCheck(t) \/ PdevLoad(t) \/ RemoveCall(t)

ProcNext ==
  \/ \E t \in Thread, s \in Slot :
       RebootEnter(t, s) \/ DevInfoEnter(t, s) \/ NetEnter(t, s)
  \/ \E t \in Thread : RebootLocked(t) \/ DevInfoLocked(t) \/ NetDeref(t)

ModNext ==
  \/ ModuleInit \/ pcie_enumerate_existed_devs
  \/ ExitUnregister \/ ExitCancelSync \/ ExitRelease \/ ExitRundown \/ ExitDone

Next == BusNext \/ WorkNext \/ IoctlNext \/ ProcNext \/ ModNext

Spec == Init /\ [][Next]_vars

(***************************************************************************)
(* Fairness.  A step that only needs its own thread to run is weakly fair. *)
(* A step that waits for a mutex is strongly fair: a mutex of the kernel   *)
(* is handed to its first waiter.  So is the wait of remove_proc_subtree,  *)
(* which turns new users away, node by node.  Users, hot-plug, load and    *)
(* unload requests are never obliged to come.                              *)
(***************************************************************************)
Fairness ==
  /\ WF_vars(BusAddNotify) /\ WF_vars(BusDelNotify)
  /\ SF_vars(BusDelRundown) /\ WF_vars(BusUnlink)
  /\ \A s \in Slot : WF_vars(TimerFire(s)) /\ SF_vars(pcie_boot_timeout_fn(s))
  /\ \A t \in Thread :
       /\ WF_vars(FwCheck(t)) /\ WF_vars(PdevLoad(t)) /\ WF_vars(NetDeref(t))
       /\ SF_vars(RemoveCall(t))
       /\ SF_vars(RebootLocked(t)) /\ SF_vars(DevInfoLocked(t))
  /\ SF_vars(pcie_enumerate_existed_devs)
  /\ SF_vars(ExitCancelSync) /\ WF_vars(ExitRelease)
  /\ SF_vars(ExitRundown) /\ WF_vars(ExitDone)

FairSpec == Spec /\ Fairness

----------------------------------------------------------------------------
(* Properties.                                                             *)

TypeOK ==
  /\ bus \in [Dev -> {"free", "present", "gone"}]
  /\ refs \in [Dev -> Nat]
  /\ op \in {"none", "add", "del", "rundown", "unlink", "dead"}
  /\ op_dev \in OrNull(Dev)
  /\ op_by \in OrNull(Thread)
  /\ devs \in [Slot -> Entry]
  /\ timer \in [Slot -> BOOLEAN]
  /\ worker \in [Slot -> BOOLEAN]
  /\ mod \in {"unloaded", "registered", "live", "exit_cancel", "release", "rundown"}
  /\ exit_i \in 0 .. DevMax
  /\ th \in [Thread -> Call]

\* pci_dev_get and pci_dev_put pair up whatever hot-plug, firmware boot,
\* reboot, timeout and unload do to a slot: the driver holds one reference
\* on a device while a slot points to it and none otherwise.
RefsBalanced ==
  \A d \in Dev : refs[d] = IF \E s \in Slot : devs[s].pdev = d THEN 1 ELSE 0

\* The BAR mapping of a slot is always one of the device the slot points to,
\* so that pci_iounmap in pcie_boot_bar_unmap gets the device it was mapped
\* from, and is never left behind by a detach.
MappedOwn ==
  \A s \in Slot : devs[s].boot_mem_base # NULL =>
    devs[s].in_use /\ devs[s].boot_mem_base = devs[s].pdev

\* The state reported to users fits the function that is on the bus: firmware
\* can only be sent to a boot function, a card is only connected, or rebooted,
\* as a virtio function, and board data shown for a card that waits for its
\* firmware was read from that card.
KindMatchesState ==
  \A s \in Slot : LET e == devs[s] IN e.pdev # NULL =>
    /\ e.in_use
    /\ e.state = "DISCONNECTED" =>
         DevKind[e.pdev] = "boot" /\ {e.boot_bar, e.board_info} \subseteq {NULL, e.pdev}
    /\ e.state \in {"CONNECTED", "REBOOTING"} => DevKind[e.pdev] = "virtio"

\* While the driver listens, a slot in BOOTING has its timeout pending or
\* running: no cancel, late work item or re-plug leaves it booting for ever.
BootTimerArmed ==
  Registered => \A s \in Slot :
    devs[s].state = "BOOTING" => timer[s] \/ worker[s]

\* Nothing of a released card survives in its slot: no proc directory, no
\* device, no mapping, no BAR or board data, no pending timeout.
FreeSlotClean ==
  \A s \in Slot : ~devs[s].in_use => devs[s] = FreeEntry /\ ~timer[s]

\* After rmmod nothing refers to the module or is owned by it: no timeout
\* pending or running, no thread in one of its handlers, no slot, no device
\* reference.
UnloadQuiescent ==
  mod = "unloaded" =>
    /\ \A s \in Slot : ~timer[s] /\ ~worker[s] /\ ~devs[s].in_use
    /\ \A t \in Thread : th[t] = Idle
    /\ \A d \in Dev : refs[d] = 0

\* While the driver listens, a slot never points to a device that has left
\* the bus: every removal reaches the slot before the device is unlinked.
PdevOnBus ==
  Registered => \A s \in Slot : devs[s].pdev # NULL => bus[devs[s].pdev] = "present"

\* WARN_ONCE(e->pdev, "reconnect with existing pdev") is never reached: when
\* the virtio function of a booting card appears, its boot function is gone.
ReconnectWithoutPdev ==
  op = "add" /\ Registered =>
    \A s \in Slot : Reconnects(op_dev, s) => devs[s].pdev = NULL

\* No thread uses a NULL e->pdev or a freed pci_dev, although the firmware
\* ioctl and the reboot node load e->pdev after they dropped the lock.
PtrSafe == op # "dead" /\ \A t \in Thread : th[t].pc # "ub"

\* The unlocked e->pdev->bus of the net and dev_log nodes meets a freed device
\* only because of a boot: while the driver listens, the removal of a card that
\* waits for its firmware, is connected or has failed frees the device after
\* the readers of its nodes have left, so that a reader whose device is gone is
\* always in a slot that has been through BOOTING since.
FreedOnlyByBoot ==
  Registered => \A t \in Thread : LET d == th[t].ptr IN
    th[t].op = "net" /\ th[t].pc = "call" /\ d # NULL /\ bus[d] = "free" =>
      devs[th[t].slot].in_use /\ devs[th[t].slot].state # "DISCONNECTED"

\* Sending firmware settles: a slot that starts to boot becomes CONNECTED or
\* BOOT_FAILED, or is released.
BootResolves ==
  \A s \in Slot : devs[s].state = "BOOTING" ~> devs[s].state # "BOOTING"

\* The driver never holds up the PCI core: every hot-add or hot-remove that
\* takes the rescan mutex gives it back.  ("dead" is no operation: see
\* RemoveCall.)
BusOpCompletes == op \notin {"none", "dead"} ~> op = "none"

\* A write to a reboot node returns to its caller.
RebootReturns ==
  \A t \in Thread : th[t].op = "rb" ~> th[t].op # "rb"

=============================================================================
