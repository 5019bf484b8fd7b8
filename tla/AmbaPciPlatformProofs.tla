----------------------- MODULE AmbaPciPlatformProofs -----------------------
(***************************************************************************)
(* Theorems about the slot table, for any number of slots, any bus, any    *)
(* number of user threads and any choice of ProcOps and Env.               *)
(***************************************************************************)
EXTENDS AmbaPciPlatform, TLAPS

----------------------------------------------------------------------------
(* The inductive invariant.                                                *)

\* The PCI core's operation names its device from start to finish.
OpHasDev == op \in {"add", "del", "rundown", "unlink"} => op_dev \in Dev

\* A thread inside a handler works on a slot.
CallHasSlot == \A t \in Thread : th[t].pc # "idle" => th[t].slot \in Slot

\* A slot's device is on the slot's bus and referenced, so that no two slots
\* share one and every pci_dev_put has its pci_dev_get.
PdevOwn ==
  \A s \in Slot : devs[s].pdev # NULL =>
    OnSlot(devs[s].pdev, s) /\ refs[devs[s].pdev] >= 1

\* The slot whose proc nodes are being removed has no timeout pending.
RundownTimerOff ==
  /\ op = "rundown" => \A s \in Slot : OnSlot(op_dev, s) => ~timer[s]
  /\ mod = "rundown" => exit_i \in Slot /\ ~timer[exit_i]

IInv ==
  /\ TypeOK /\ OpHasDev /\ CallHasSlot /\ PdevOwn /\ RundownTimerOff
  /\ FreeSlotClean /\ BootTimerArmed

----------------------------------------------------------------------------
(* What the operations on an entry return.                                 *)

\* What pcie_release_dev leaves is an entry.
LEMMA FreeEntryType == FreeEntry \in Entry
  BY DEF FreeEntry, Entry, State, OrNull

\* A thread outside the driver.
LEMMA IdleType == Idle \in Call /\ Idle.pc = "idle" /\ Idle.op = "none"
  BY DEF Idle, Call, OrNull

\* Detaching keeps everything but the device and its mapping.
LEMMA DetachEntry ==
  ASSUME NEW e \in Entry
  PROVE  LET f == pcie_entry_detach_pdev(e) IN
         /\ f \in Entry /\ f.pdev = NULL
         /\ f.in_use = e.in_use /\ f.state = e.state
  BY DEF pcie_entry_detach_pdev, pcie_boot_bar_unmap, Entry, OrNull

\* A refresh of the board data changes neither device, state nor use.
LEMMA RefreshEntry ==
  ASSUME NEW e \in Entry, NEW r \in MapResult
  PROVE  LET f == pcie_dev_refresh_board_info_locked(e, r) IN
         /\ f \in Entry /\ f.pdev = e.pdev
         /\ f.in_use = e.in_use /\ f.state = e.state
<1> DEFINE m == pcie_boot_bar_ensure_mapped(e, r)
<1>1. ASSUME e.pdev # NULL
      PROVE  /\ m \in Entry /\ m.pdev = e.pdev
             /\ m.in_use = e.in_use /\ m.state = e.state
  BY <1>1 DEF pcie_boot_bar_ensure_mapped, Entry, OrNull
<1> HIDE DEF m
<1>2. ASSUME m \in Entry
      PROVE  LET f == ReadBoardInfo(m) IN
             /\ f \in Entry /\ f.pdev = m.pdev
             /\ f.in_use = m.in_use /\ f.state = m.state
  BY <1>2 DEF ReadBoardInfo, Entry, OrNull
<1> QED
  BY <1>1, <1>2 DEF pcie_dev_refresh_board_info_locked, m

\* Nor does a query, which leaves an unused slot alone altogether.
LEMMA QueryEntry ==
  ASSUME NEW e \in Entry, NEW r \in MapResult
  PROVE  LET f == pcie_query_dev_info_locked(e, r) IN
         /\ f \in Entry /\ f.pdev = e.pdev
         /\ f.in_use = e.in_use /\ f.state = e.state
         /\ ~e.in_use => f = e
  BY RefreshEntry DEF pcie_query_dev_info_locked

\* A new slot is in use, has its device, and is not booting.
LEMMA AddedEntryType ==
  ASSUME NEW d \in Dev
  PROVE  /\ AddedEntry(d) \in Entry /\ AddedEntry(d).pdev = d
         /\ AddedEntry(d).in_use /\ AddedEntry(d).state # "BOOTING"
  BY DEF AddedEntry, InitEntry, pcie_create_proc_nodes, FreeEntry, Entry, State, OrNull

\* A reconnected slot has its device and is not booting.
LEMMA ReconnectedEntry ==
  ASSUME NEW e \in Entry, NEW d \in Dev
  PROVE  LET f == [e EXCEPT !.pdev = d, !.state = "CONNECTED"] IN
         /\ f \in Entry /\ f.pdev = d /\ f.in_use = e.in_use /\ f.state = "CONNECTED"
  BY DEF Entry, State, OrNull

\* Timers stay Booleans.
LEMMA TimerType ==
  ASSUME timer \in [Slot -> BOOLEAN], NEW s \in Slot
  PROVE  /\ cancel_delayed_work(s) \in [Slot -> BOOLEAN]
         /\ pcie_boot_timeout_schedule(s) \in [Slot -> BOOLEAN]
  BY DEF cancel_delayed_work, pcie_boot_timeout_schedule

\* A timeout leaves a used slot used and no slot booting.
LEMMA TimedOutEntry ==
  ASSUME NEW e \in Entry
  PROVE  LET f == TimedOut(e) IN
         /\ f \in Entry /\ f.pdev = e.pdev /\ f.in_use = e.in_use
         /\ ~e.in_use => f = e
         /\ e.in_use => f.state # "BOOTING"
         /\ f.state = "BOOTING" => e.state = "BOOTING"
  BY DEF TimedOut, Entry, State, OrNull

\* Two slots never stand for the same bus.
LEMMA SlotUnique ==
  ASSUME NEW d \in Dev, NEW s \in Slot, NEW u \in Slot, OnSlot(d, s), OnSlot(d, u)
  PROVE  s = u
  BY PlatformAssumption DEF OnSlot, pcie_physical_slots, Slot

----------------------------------------------------------------------------
(* The invariant holds at the start and is kept by every action.           *)

\* Before the module is loaded.
LEMMA InitInv == Init => IInv
<1> SUFFICES ASSUME Init PROVE IInv
  OBVIOUS
<1>1. TypeOK
  BY PlatformAssumption, FreeEntryType, IdleType DEF Init, TypeOK, OrNull, Slot
<1>2. OpHasDev /\ CallHasSlot /\ RundownTimerOff
  BY IdleType DEF Init, OpHasDev, CallHasSlot, RundownTimerOff
<1>3. PdevOwn /\ FreeSlotClean /\ BootTimerArmed
  BY DEF Init, PdevOwn, FreeSlotClean, BootTimerArmed, FreeEntry, Registered
<1> QED
  BY <1>1, <1>2, <1>3 DEF IInv

\* Steps of the PCI core before and after the notifier, and hot-add.
LEMMA AddInv ==
  ASSUME IInv, \/ \E d \in Dev : BusScan(d) \/ BusRemove(d)
               \/ BusAddNotify \/ BusUnlink
  PROVE  IInv'
<1> USE PlatformAssumption
<1>1. CASE \E d \in Dev : BusScan(d) \/ BusRemove(d)
  <2> PICK d \in Dev : BusScan(d) \/ BusRemove(d)
    BY <1>1
  <2> QED
    BY DEF BusScan, BusRemove, IInv, TypeOK, OpHasDev, CallHasSlot, PdevOwn,
           RundownTimerOff, FreeSlotClean, BootTimerArmed, Registered, OrNull, OnSlot
<1>2. CASE BusUnlink
  <2>1. TypeOK'
    BY <1>2, IdleType DEF BusUnlink, IInv, TypeOK, OpHasDev, OrNull
  <2>2. CallHasSlot'
    BY <1>2, IdleType DEF BusUnlink, IInv, TypeOK, CallHasSlot, OrNull
  <2> QED
    BY <1>2, <2>1, <2>2
    DEF BusUnlink, IInv, OpHasDev, PdevOwn, RundownTimerOff,
        FreeSlotClean, BootTimerArmed, Registered, OnSlot
<1>3. CASE BusAddNotify /\ UNCHANGED <<devs, refs, timer>>
  BY <1>3 DEF BusAddNotify, IInv, TypeOK, OpHasDev, CallHasSlot, PdevOwn,
              RundownTimerOff, FreeSlotClean, BootTimerArmed, Registered, OrNull, OnSlot
<1>4. ASSUME NEW s \in Slot, BusAddNotify, Reconnects(op_dev, s),
             pcie_try_reconnect_booting_locked(op_dev, s)
      PROVE  IInv'
  <2> op_dev \in Dev
    BY <1>4 DEF BusAddNotify, IInv, OpHasDev
  <2> DEFINE f == [devs[s] EXCEPT !.pdev = op_dev, !.state = "CONNECTED"]
  <2>a. f \in Entry
    BY ReconnectedEntry DEF IInv, TypeOK
  <2>b. devs' = [devs EXCEPT ![s] = f]
    BY <1>4 DEF pcie_try_reconnect_booting_locked, IInv, TypeOK
  <2> HIDE DEF f
  <2>c. devs' \in [Slot -> Entry]
    BY <2>a, <2>b DEF IInv, TypeOK
  <2>d. refs' \in [Dev -> Nat]
    BY <1>4 DEF pcie_try_reconnect_booting_locked, pci_dev_get, IInv, TypeOK
  <2>e. timer' \in [Slot -> BOOLEAN]
    BY <1>4, TimerType DEF pcie_try_reconnect_booting_locked, IInv, TypeOK
  <2>1. TypeOK'
    BY <1>4, <2>c, <2>d, <2>e DEF BusAddNotify, IInv, TypeOK, OrNull
  <2>2. PdevOwn'
    BY <1>4 DEF BusAddNotify, Reconnects, pcie_try_reconnect_booting_locked, pci_dev_get,
                IInv, TypeOK, PdevOwn, OnSlot, Entry, OrNull
  <2>3. FreeSlotClean' /\ BootTimerArmed'
    BY <1>4 DEF BusAddNotify, Reconnects, pcie_try_reconnect_booting_locked,
                cancel_delayed_work, IInv, TypeOK, FreeSlotClean, BootTimerArmed,
                Registered, Entry
  <2>4. OpHasDev' /\ CallHasSlot' /\ RundownTimerOff'
    BY <1>4 DEF BusAddNotify, pcie_try_reconnect_booting_locked, cancel_delayed_work,
                IInv, TypeOK, OpHasDev, CallHasSlot, RundownTimerOff
  <2> QED
    BY <2>1, <2>2, <2>3, <2>4 DEF IInv
<1>5. ASSUME NEW s \in Slot, BusAddNotify, Inits(op_dev, s), pcie_init_slot(op_dev, s)
      PROVE  IInv'
  <2> op_dev \in Dev
    BY <1>5 DEF BusAddNotify, IInv, OpHasDev
  <2> DEFINE f == AddedEntry(op_dev)
  <2>0. f \in Entry /\ f.pdev = op_dev /\ f.in_use /\ f.state # "BOOTING"
    BY AddedEntryType
  <2> HIDE DEF f
  <2>a. devs' = [devs EXCEPT ![s] = f]
    BY <1>5 DEF pcie_init_slot, f
  <2>1. TypeOK'
    BY <1>5, <2>0, <2>a DEF BusAddNotify, pcie_init_slot, pci_dev_get, IInv, TypeOK, OrNull
  <2>2. PdevOwn'
    BY <1>5, <2>0, <2>a DEF Inits, pcie_init_slot, pci_dev_get, IInv, TypeOK, PdevOwn, OnSlot,
                            Entry, OrNull
  <2>3. FreeSlotClean' /\ BootTimerArmed'
    BY <1>5, <2>0, <2>a DEF BusAddNotify, pcie_init_slot, IInv, TypeOK, FreeSlotClean,
                            BootTimerArmed, Registered
  <2>4. OpHasDev' /\ CallHasSlot' /\ RundownTimerOff'
    BY <1>5 DEF BusAddNotify, pcie_init_slot, IInv, OpHasDev, CallHasSlot, RundownTimerOff
  <2> QED
    BY <2>1, <2>2, <2>3, <2>4 DEF IInv
<1> QED
  BY <1>1, <1>2, <1>3, <1>4, <1>5 DEF BusAddNotify, pcie_handle_add_locked

\* The reference dropped by a release or a detach is one the slot held, and
\* no other slot loses its own.
LEMMA DetachInv ==
  ASSUME IInv, NEW s \in Slot, Detach(s),
         devs' = [devs EXCEPT ![s] = pcie_entry_detach_pdev(@)]
  PROVE  /\ refs' \in [Dev -> Nat] /\ bus' \in [Dev -> {"free", "present", "gone"}]
         /\ devs' \in [Slot -> Entry] /\ PdevOwn'
         /\ \A u \in Slot : devs'[u].in_use = devs[u].in_use /\ devs'[u].state = devs[u].state
         /\ \A u \in Slot : ~devs[u].in_use /\ u # s => devs'[u] = devs[u]
<1> USE PlatformAssumption
<1> DEFINE f == pcie_entry_detach_pdev(devs[s])
<1>1. devs[s] \in Entry
  BY DEF IInv, TypeOK
<1>2. f \in Entry /\ f.pdev = NULL /\ f.in_use = devs[s].in_use /\ f.state = devs[s].state
  BY <1>1, DetachEntry
<1> HIDE DEF f
<1>3. devs' = [devs EXCEPT ![s] = f]
  BY DEF f
<1>4. refs' \in [Dev -> Nat]
  BY <1>1 DEF Detach, pci_dev_put, IInv, TypeOK, PdevOwn, Entry, OrNull
<1>5. bus' \in [Dev -> {"free", "present", "gone"}]
  BY <1>1 DEF Detach, BusAfterPut, IInv, TypeOK, Entry, OrNull
<1>6. ASSUME NEW u \in Slot, devs'[u].pdev # NULL
      PROVE  OnSlot(devs'[u].pdev, u) /\ refs'[devs'[u].pdev] >= 1
  <2>1. u # s /\ devs'[u] = devs[u]
    BY <1>2, <1>3, <1>6 DEF IInv, TypeOK
  <2>2. devs[u].pdev \in Dev /\ OnSlot(devs[u].pdev, u) /\ refs[devs[u].pdev] >= 1
    BY <1>6, <2>1 DEF IInv, TypeOK, PdevOwn, Entry, OrNull
  <2>3. devs[s].pdev # devs[u].pdev
    BY <2>1, <2>2, SlotUnique DEF IInv, PdevOwn
  <2> QED
    BY <1>1, <2>1, <2>2, <2>3 DEF Detach, pci_dev_put, IInv, TypeOK, Entry, OrNull
<1>7. PdevOwn'
  BY <1>6 DEF PdevOwn, OnSlot
<1> QED
  BY <1>2, <1>3, <1>4, <1>5, <1>7 DEF IInv, TypeOK

\* Hot-remove.
LEMMA DelInv ==
  ASSUME IInv, BusDelNotify \/ BusDelRundown
  PROVE  IInv'
<1> USE PlatformAssumption
<1>1. CASE BusDelNotify /\ op' = "unlink" /\ UNCHANGED <<bus, refs, devs, timer>>
  BY <1>1 DEF BusDelNotify, IInv, TypeOK, OpHasDev, CallHasSlot, PdevOwn,
              RundownTimerOff, FreeSlotClean, BootTimerArmed, Registered, OrNull, OnSlot
<1>2. ASSUME NEW s \in Slot, BusDelNotify, OnSlot(op_dev, s), devs[s].in_use, Detach(s),
             devs' = [devs EXCEPT ![s] = pcie_entry_detach_pdev(@)],
             timer' \in [Slot -> BOOLEAN],
             \A u \in Slot : u # s => timer'[u] = timer[u],
             \/ op' = "unlink" /\ timer' = timer
             \/ op' = "rundown" /\ ~timer'[s] /\ devs[s].state # "BOOTING"
      PROVE  IInv'
  <2> DEFINE Kept ==
        /\ refs' \in [Dev -> Nat] /\ bus' \in [Dev -> {"free", "present", "gone"}]
        /\ devs' \in [Slot -> Entry] /\ PdevOwn'
        /\ \A u \in Slot : devs'[u].in_use = devs[u].in_use /\ devs'[u].state = devs[u].state
        /\ \A u \in Slot : ~devs[u].in_use /\ u # s => devs'[u] = devs[u]
  <2>1. Kept
    BY <1>2, DetachInv
  <2>2. op_dev \in Dev /\ UNCHANGED <<op_dev, op_by, worker, mod, exit_i, th>> /\ op = "del"
    BY <1>2 DEF BusDelNotify, IInv, OpHasDev
  <2>3. TypeOK'
    BY <1>2, <2>1, <2>2 DEF IInv, TypeOK
  <2>4. OpHasDev' /\ CallHasSlot'
    BY <2>2 DEF IInv, OpHasDev, CallHasSlot
  <2>5. FreeSlotClean'
    BY <1>2, <2>1 DEF IInv, TypeOK, FreeSlotClean
  <2>6. BootTimerArmed'
    BY <1>2, <2>1, <2>2 DEF IInv, TypeOK, BootTimerArmed, Registered
  <2>7. RundownTimerOff'
    <3>1. \A u \in Slot : OnSlot(op_dev, u) => u = s
      BY <1>2, <2>2, SlotUnique
    <3>2. (op = "rundown" => \A u \in Slot : OnSlot(op_dev, u) => ~timer[u])'
      BY <1>2, <2>2, <3>1 DEF OnSlot
    <3>3. (mod = "rundown" => exit_i \in Slot /\ ~timer[exit_i])'
      BY <1>2, <2>2 DEF IInv, TypeOK, RundownTimerOff
    <3> QED
      BY <3>2, <3>3 DEF RundownTimerOff
  <2> QED
    BY <2>1, <2>3, <2>4, <2>5, <2>6, <2>7 DEF IInv
<1>3. ASSUME NEW s \in Slot, BusDelNotify, OnSlot(op_dev, s), devs[s].in_use,
             devs[s].state # "BOOTING", pcie_release_dev_begin(s), op' = "rundown"
      PROVE  IInv'
  <2>1. timer' \in [Slot -> BOOLEAN] /\ ~timer'[s]
    BY <1>3 DEF pcie_release_dev_begin, cancel_delayed_work, IInv, TypeOK
  <2>2. \A u \in Slot : u # s => timer'[u] = timer[u]
    BY <1>3 DEF pcie_release_dev_begin, cancel_delayed_work, IInv, TypeOK
  <2> QED
    BY <1>2, <1>3, <2>1, <2>2 DEF pcie_release_dev_begin
<1>4. ASSUME NEW s \in Slot, BusDelNotify, OnSlot(op_dev, s), devs[s].in_use, Detach(s),
             devs' = [devs EXCEPT ![s] = pcie_entry_detach_pdev(@)],
             op' = "unlink", UNCHANGED timer
      PROVE  IInv'
  BY <1>2, <1>4 DEF IInv, TypeOK
<1>5. CASE BusDelRundown
  <2> PICK s \in Slot : OnSlot(op_dev, s) /\ pcie_release_dev_end(s)
    BY <1>5 DEF BusDelRundown
  <2>1. devs' = [devs EXCEPT ![s] = FreeEntry] /\ ~timer[s]
    BY <1>5 DEF BusDelRundown, pcie_release_dev_end, IInv, RundownTimerOff
  <2>2. FreeEntry.pdev = NULL /\ FreeEntry.state # "BOOTING" /\ FreeEntry.in_use = FALSE
    BY DEF FreeEntry
  <2>3. TypeOK'
    BY <1>5, <2>1, FreeEntryType DEF BusDelRundown, IInv, TypeOK
  <2>4. PdevOwn'
    BY <1>5, <2>1, <2>2 DEF BusDelRundown, IInv, TypeOK, PdevOwn, OnSlot
  <2>5. FreeSlotClean' /\ BootTimerArmed'
    BY <1>5, <2>1, <2>2 DEF BusDelRundown, IInv, TypeOK, FreeSlotClean, BootTimerArmed,
                            Registered
  <2>6. OpHasDev' /\ CallHasSlot' /\ RundownTimerOff'
    BY <1>5 DEF BusDelRundown, IInv, OpHasDev, CallHasSlot, RundownTimerOff
  <2> QED
    BY <2>3, <2>4, <2>5, <2>6 DEF IInv
<1> QED
  BY <1>1, <1>3, <1>4, <1>5 DEF BusDelNotify, pcie_handle_del_locked

\* Boot timeout.
LEMMA WorkInv ==
  ASSUME IInv, NEW s \in Slot, TimerFire(s) \/ pcie_boot_timeout_fn(s)
  PROVE  IInv'
<1> USE PlatformAssumption
<1>1. CASE TimerFire(s)
  <2>1. TypeOK'
    BY <1>1 DEF TimerFire, coreVars, modVars, IInv, TypeOK
  <2>2. FreeSlotClean' /\ BootTimerArmed' /\ RundownTimerOff'
    BY <1>1 DEF TimerFire, coreVars, modVars, IInv, TypeOK, FreeSlotClean, BootTimerArmed,
                RundownTimerOff, Registered, OnSlot
  <2>3. OpHasDev' /\ CallHasSlot' /\ PdevOwn'
    BY <1>1 DEF TimerFire, coreVars, IInv, OpHasDev, CallHasSlot, PdevOwn, OnSlot
  <2> QED
    BY <2>1, <2>2, <2>3 DEF IInv
<1>2. CASE pcie_boot_timeout_fn(s)
  <2> DEFINE f == TimedOut(devs[s])
  <2>0. devs[s] \in Entry
    BY DEF IInv, TypeOK
  <2>1. /\ f \in Entry /\ f.pdev = devs[s].pdev /\ f.in_use = devs[s].in_use
        /\ ~devs[s].in_use => f = devs[s]
        /\ devs[s].in_use => f.state # "BOOTING"
    BY <2>0, TimedOutEntry
  <2> HIDE DEF f
  <2>2. devs' = [devs EXCEPT ![s] = f]
    BY <1>2 DEF pcie_boot_timeout_fn, f
  <2>3. UNCHANGED <<bus, refs, op, op_dev, op_by, timer, mod, exit_i, th>>
    BY <1>2 DEF pcie_boot_timeout_fn, coreVars, modVars
  <2>4. worker' = [worker EXCEPT ![s] = FALSE]
    BY <1>2 DEF pcie_boot_timeout_fn
  <2>5. TypeOK'
    BY <2>1, <2>2, <2>3, <2>4 DEF IInv, TypeOK
  <2>6. FreeSlotClean'
    BY <2>1, <2>2, <2>3 DEF IInv, TypeOK, FreeSlotClean
  <2>7. f.state # "BOOTING"
    BY <2>1 DEF IInv, FreeSlotClean, FreeEntry
  <2>8. BootTimerArmed'
    BY <2>2, <2>3, <2>4, <2>7 DEF IInv, TypeOK, BootTimerArmed, Registered
  <2>9. OpHasDev' /\ CallHasSlot' /\ PdevOwn' /\ RundownTimerOff'
    BY <2>1, <2>2, <2>3 DEF IInv, TypeOK, OpHasDev, CallHasSlot, PdevOwn, RundownTimerOff,
                            OnSlot
  <2> QED
    BY <2>5, <2>6, <2>8, <2>9 DEF IInv
<1> QED
  BY <1>1, <1>2

\* Threads that move on without touching a slot's device, state or timer.
LEMMA CalmInv ==
  ASSUME IInv, UNCHANGED <<bus, refs, op, op_dev, op_by, timer, worker, mod, exit_i>>,
         devs' \in [Slot -> Entry],
         \A s \in Slot :
           /\ devs'[s].pdev = devs[s].pdev
           /\ devs'[s].in_use = devs[s].in_use
           /\ devs'[s].state = "BOOTING" => devs[s].state = "BOOTING"
           /\ ~devs[s].in_use => devs'[s] = devs[s],
         th' \in [Thread -> Call], CallHasSlot'
  PROVE  IInv'
<1>1. TypeOK'
  BY DEF IInv, TypeOK
<1>2. OpHasDev' /\ RundownTimerOff'
  BY DEF IInv, OpHasDev, RundownTimerOff, OnSlot
<1>3. PdevOwn'
  BY DEF IInv, PdevOwn, OnSlot
<1>4. FreeSlotClean' /\ BootTimerArmed'
  BY DEF IInv, FreeSlotClean, BootTimerArmed, Registered
<1> QED
  BY <1>1, <1>2, <1>3, <1>4 DEF IInv

\* The steps of the firmware ioctl and of the proc handlers that only move
\* their thread.
LEMMA CallInv ==
  ASSUME IInv, NEW t \in Thread, NEW c \in Call, c.pc # "idle" => c.slot \in Slot,
         th' = [th EXCEPT ![t] = c],
         UNCHANGED <<bus, refs, op, op_dev, op_by, timer, worker, mod, exit_i>>, UNCHANGED devs
  PROVE  IInv'
<1>1. th' \in [Thread -> Call] /\ CallHasSlot'
  BY DEF IInv, TypeOK, CallHasSlot
<1> QED
  BY <1>1, CalmInv DEF IInv, TypeOK

\* ioctls: queries, failed and successful firmware requests, and the steps a
\* request takes after it has dropped the lock.
LEMMA IoctlInv ==
  ASSUME IInv, \/ QueryPlatformInfo
               \/ \E s \in Slot : XferFirmwareFails(s)
               \/ \E t \in Thread, s \in Slot : XferFirmware(t, s)
               \/ \E t \in Thread : FwCheck(t) \/ PdevLoad(t) \/ RemoveCall(t)
  PROVE  IInv'
<1> USE PlatformAssumption
<1>t. devs \in [Slot -> Entry] /\ th \in [Thread -> Call] /\ CallHasSlot
  BY DEF IInv, TypeOK
<1>1. CASE QueryPlatformInfo
  <2> PICK r \in [Slot -> MapResult] :
        devs' = [s \in Slot |-> pcie_query_dev_info_locked(devs[s], r[s])]
    BY <1>1 DEF QueryPlatformInfo
  <2>1. \A s \in Slot : devs[s] \in Entry /\ r[s] \in MapResult
    BY <1>t
  <2>2. \A s \in Slot : devs'[s] = pcie_query_dev_info_locked(devs[s], r[s])
    OBVIOUS
  <2>3. \A s \in Slot :
          /\ devs'[s] \in Entry
          /\ devs'[s].pdev = devs[s].pdev /\ devs'[s].in_use = devs[s].in_use
          /\ devs'[s].state = devs[s].state
          /\ ~devs[s].in_use => devs'[s] = devs[s]
    BY <2>1, <2>2, QueryEntry
  <2>4. devs' \in [Slot -> Entry]
    BY <2>2, <2>3
  <2>5. UNCHANGED <<bus, refs, op, op_dev, op_by, timer, worker, mod, exit_i, th>>
    BY <1>1 DEF QueryPlatformInfo, coreVars, workVars, modVars
  <2>6. th' \in [Thread -> Call] /\ CallHasSlot'
    BY <1>t, <2>5 DEF CallHasSlot
  <2> QED
    BY <2>3, <2>4, <2>5, <2>6, CalmInv
<1>2. ASSUME NEW s \in Slot, XferFirmwareFails(s) PROVE IInv'
  <2> PICK r \in MapResult :
        devs' = [devs EXCEPT ![s] = pcie_dev_refresh_board_info_locked(@, r)]
    BY <1>2 DEF XferFirmwareFails
  <2> DEFINE f == pcie_dev_refresh_board_info_locked(devs[s], r)
  <2>1. /\ f \in Entry /\ f.pdev = devs[s].pdev
        /\ f.in_use = devs[s].in_use /\ f.state = devs[s].state
        /\ devs[s].in_use
    BY <1>t, <1>2, RefreshEntry DEF XferFirmwareFails
  <2>2. devs' = [devs EXCEPT ![s] = f]
    OBVIOUS
  <2> HIDE DEF f
  <2>3. UNCHANGED <<bus, refs, op, op_dev, op_by, timer, worker, mod, exit_i, th>>
    BY <1>2 DEF XferFirmwareFails, coreVars, workVars, modVars
  <2>4. th' \in [Thread -> Call] /\ CallHasSlot'
    BY <1>t, <2>3 DEF CallHasSlot
  <2>5. devs' \in [Slot -> Entry]
    BY <1>t, <2>1, <2>2
  <2> QED
    BY <1>t, <2>1, <2>2, <2>3, <2>4, <2>5, CalmInv
<1>3. ASSUME NEW t \in Thread, NEW s \in Slot, XferFirmware(t, s) PROVE IInv'
  <2> PICK r \in MapResult :
        devs' = [devs EXCEPT ![s] =
                   [pcie_dev_refresh_board_info_locked(devs[s], r) EXCEPT !.state = "BOOTING"]]
    BY <1>3 DEF XferFirmware
  <2> DEFINE e == pcie_dev_refresh_board_info_locked(devs[s], r)
             f == [e EXCEPT !.state = "BOOTING"]
             c == [op |-> "fw", pc |-> "check", slot |-> s, ptr |-> NULL]
  <2>1. e \in Entry /\ e.pdev = devs[s].pdev /\ e.in_use
    BY <1>t, <1>3, RefreshEntry DEF XferFirmware
  <2>a. devs' = [devs EXCEPT ![s] = f] /\ th' = [th EXCEPT ![t] = c]
    BY <1>3 DEF XferFirmware
  <2>b. c \in Call /\ c.slot = s
    BY DEF Call, OrNull
  <2> HIDE DEF e
  <2>2. f \in Entry /\ f.pdev = devs[s].pdev /\ f.in_use
    BY <2>1 DEF Entry, State
  <2> HIDE DEF f, c
  <2>3. UNCHANGED <<bus, refs, op, op_dev, op_by, worker, mod, exit_i>> /\ LockFree
    BY <1>3 DEF XferFirmware, coreVars, modVars
  <2>4. timer' = [timer EXCEPT ![s] = TRUE]
    BY <1>3 DEF XferFirmware, pcie_boot_timeout_schedule, cancel_delayed_work, IInv, TypeOK
  <2>5. TypeOK'
    BY <2>a, <2>b, <2>2, <2>3, <2>4 DEF IInv, TypeOK
  <2>6. CallHasSlot'
    BY <1>t, <2>a, <2>b DEF CallHasSlot
  <2>7. PdevOwn'
    BY <1>t, <2>a, <2>2, <2>3 DEF IInv, PdevOwn, OnSlot
  <2>8. FreeSlotClean' /\ BootTimerArmed'
    BY <1>t, <2>a, <2>2, <2>3, <2>4 DEF IInv, TypeOK, FreeSlotClean, BootTimerArmed, Registered
  <2>9. OpHasDev' /\ RundownTimerOff'
    BY <2>3 DEF LockFree, IInv, OpHasDev, RundownTimerOff
  <2> QED
    BY <2>5, <2>6, <2>7, <2>8, <2>9 DEF IInv
<1>4. ASSUME NEW t \in Thread, FwCheck(t) PROVE IInv'
  <2> DEFINE c == IF devs[th[t].slot].pdev = NULL THEN Idle ELSE [th[t] EXCEPT !.pc = "load"]
  <2>1. th' = [th EXCEPT ![t] = c]
    BY <1>4 DEF FwCheck
  <2>2. c \in Call /\ (c.pc # "idle" => c.slot \in Slot)
    BY <1>t, <1>4, IdleType DEF FwCheck, CallHasSlot, Call
  <2> HIDE DEF c
  <2> QED
    BY <1>4, <2>1, <2>2, CallInv DEF FwCheck, coreVars, workVars, modVars
<1>5. ASSUME NEW t \in Thread, PdevLoad(t) PROVE IInv'
  <2> DEFINE c == [th[t] EXCEPT !.pc = "call", !.ptr = devs[th[t].slot].pdev]
  <2>0. th[t] \in Call /\ th[t].slot \in Slot
    BY <1>t, <1>5 DEF PdevLoad, CallHasSlot
  <2>1. th' = [th EXCEPT ![t] = c]
    BY <1>t, <1>5 DEF PdevLoad
  <2>2. devs[th[t].slot].pdev \in OrNull(Dev)
    BY <1>t, <2>0 DEF Entry
  <2>3. c \in Call /\ c.slot = th[t].slot
    BY <2>0, <2>2 DEF Call
  <2> HIDE DEF c
  <2> QED
    BY <1>5, <2>0, <2>1, <2>3, CallInv DEF PdevLoad, coreVars, workVars, modVars
<1>6. ASSUME NEW t \in Thread, RemoveCall(t) PROVE IInv'
  <2>0. th[t] \in Call /\ th[t].slot \in Slot
    BY <1>t, <1>6 DEF RemoveCall, CallHasSlot
  <2>1. UNCHANGED <<bus, refs, devs, timer, worker, mod, exit_i>>
    BY <1>6 DEF RemoveCall, workVars, modVars
  <2>2. /\ op' \in {"none", "del", "dead"} /\ op_dev' \in OrNull(Dev)
        /\ op_by' \in OrNull(Thread)
        /\ op' = "del" => op_dev' \in Dev
    BY <1>6, <2>0 DEF RemoveCall, Call, OrNull, IInv, TypeOK
  <2>3. PICK c \in Call : th' = [th EXCEPT ![t] = c] /\ (c.pc # "idle" => c.slot \in Slot)
    <3>1. \A p \in {"remove", "ub"} :
            [th[t] EXCEPT !.pc = p] \in Call /\ [th[t] EXCEPT !.pc = p].slot = th[t].slot
      BY <2>0 DEF Call
    <3>2. \/ th' = [th EXCEPT ![t] = Idle]
          \/ \E p \in {"remove", "ub"} : th' = [th EXCEPT ![t] = [th[t] EXCEPT !.pc = p]]
      BY <1>t, <1>6 DEF RemoveCall
    <3>3. CASE th' = [th EXCEPT ![t] = Idle]
      BY <3>3, IdleType
    <3>4. CASE \E p \in {"remove", "ub"} : th' = [th EXCEPT ![t] = [th[t] EXCEPT !.pc = p]]
      BY <2>0, <3>1, <3>4
    <3> QED
      BY <3>2, <3>3, <3>4
  <2>4. TypeOK'
    BY <2>1, <2>2, <2>3 DEF IInv, TypeOK
  <2>5. CallHasSlot'
    BY <1>t, <2>3 DEF CallHasSlot
  <2>6. OpHasDev' /\ RundownTimerOff'
    BY <2>1, <2>2 DEF IInv, OpHasDev, RundownTimerOff
  <2>7. PdevOwn' /\ FreeSlotClean' /\ BootTimerArmed'
    BY <2>1 DEF IInv, PdevOwn, FreeSlotClean, BootTimerArmed, Registered, OnSlot
  <2> QED
    BY <2>4, <2>5, <2>6, <2>7 DEF IInv
<1> QED
  BY <1>1, <1>2, <1>3, <1>4, <1>5, <1>6

\* Proc nodes.
LEMMA ProcInv ==
  ASSUME IInv, NEW t \in Thread,
         \/ \E s \in Slot : RebootEnter(t, s) \/ DevInfoEnter(t, s) \/ NetEnter(t, s)
         \/ RebootLocked(t) \/ DevInfoLocked(t) \/ NetDeref(t)
  PROVE  IInv'
<1> USE PlatformAssumption
<1>t. devs \in [Slot -> Entry] /\ th \in [Thread -> Call] /\ CallHasSlot
  BY DEF IInv, TypeOK
<1>1. ASSUME NEW s \in Slot, NEW o \in {"rb", "info", "net"}, NEW p \in {"lock", "load"},
             EnterProc(t, s, o, p)
      PROVE  IInv'
  <2> DEFINE c == [op |-> o, pc |-> p, slot |-> s, ptr |-> NULL]
  <2>1. c \in Call /\ c.slot \in Slot
    BY DEF Call, OrNull
  <2>2. th' = [th EXCEPT ![t] = c]
    BY <1>1 DEF EnterProc
  <2> HIDE DEF c
  <2> QED
    BY <1>1, <2>1, <2>2, CallInv DEF EnterProc, coreVars, workVars, modVars
<1>2. CASE \E s \in Slot : RebootEnter(t, s) \/ DevInfoEnter(t, s) \/ NetEnter(t, s)
  BY <1>1, <1>2 DEF RebootEnter, DevInfoEnter, NetEnter
<1>3. CASE NetDeref(t)
  <2>0. th[t] \in Call /\ th[t].slot \in Slot
    BY <1>t, <1>3 DEF NetDeref, CallHasSlot
  <2> DEFINE c == [th[t] EXCEPT !.pc = "ub"]
  <2>1. c \in Call /\ c.slot \in Slot
    BY <2>0 DEF Call
  <2>2. th' = [th EXCEPT ![t] = Idle] \/ th' = [th EXCEPT ![t] = c]
    BY <1>t, <1>3 DEF NetDeref
  <2> HIDE DEF c
  <2> QED
    BY <1>3, <2>1, <2>2, IdleType, CallInv DEF NetDeref, coreVars, workVars, modVars
<1>4. CASE DevInfoLocked(t)
  <2>0. th[t].slot \in Slot
    BY <1>t, <1>4 DEF DevInfoLocked, CallHasSlot
  <2> PICK r \in MapResult :
        devs' = [devs EXCEPT ![th[t].slot] = pcie_query_dev_info_locked(@, r)]
    BY <1>4 DEF DevInfoLocked
  <2> DEFINE s == th[t].slot
             f == pcie_query_dev_info_locked(devs[s], r)
  <2>1. /\ f \in Entry /\ f.pdev = devs[s].pdev
        /\ f.in_use = devs[s].in_use /\ f.state = devs[s].state
        /\ ~devs[s].in_use => f = devs[s]
    BY <1>t, <2>0, QueryEntry
  <2>2. devs' = [devs EXCEPT ![s] = f]
    OBVIOUS
  <2> HIDE DEF f
  <2>3. UNCHANGED <<bus, refs, op, op_dev, op_by, timer, worker, mod, exit_i>>
    BY <1>4 DEF DevInfoLocked, coreVars, workVars, modVars
  <2>4. th' \in [Thread -> Call] /\ CallHasSlot'
    BY <1>t, <1>4, IdleType DEF DevInfoLocked, CallHasSlot
  <2>5. devs' \in [Slot -> Entry]
    BY <1>t, <2>0, <2>1, <2>2
  <2> QED
    BY <1>t, <2>0, <2>1, <2>2, <2>3, <2>4, <2>5, CalmInv
<1>5. CASE RebootLocked(t)
  <2> DEFINE s == th[t].slot
             ok == devs[s].pdev # NULL /\ devs[s].state = "CONNECTED"
             f == [devs[s] EXCEPT !.state = "REBOOTING"]
             c == [th[t] EXCEPT !.pc = "load"]
  <2>0. th[t] \in Call /\ s \in Slot /\ devs[s] \in Entry
    BY <1>t, <1>5 DEF RebootLocked, CallHasSlot
  <2>1. UNCHANGED <<bus, refs, op, op_dev, op_by, timer, worker, mod, exit_i>>
    BY <1>5 DEF RebootLocked, coreVars, workVars, modVars
  <2>2. CASE ok
    <3>1. devs' = [devs EXCEPT ![s] = f] /\ th' = [th EXCEPT ![t] = c]
      BY <1>t, <1>5, <2>0, <2>2 DEF RebootLocked
    <3>2. f \in Entry /\ f.pdev = devs[s].pdev /\ f.in_use = devs[s].in_use
          /\ f.state = "REBOOTING"
      BY <2>0 DEF Entry, State
    <3>3. c \in Call /\ c.slot = s
      BY <2>0 DEF Call
    <3>4. devs[s].in_use
      BY <2>0, <2>2 DEF IInv, FreeSlotClean, FreeEntry
    <3> HIDE DEF f, c, ok
    <3>5. th' \in [Thread -> Call] /\ CallHasSlot'
      BY <1>t, <2>0, <3>1, <3>3 DEF CallHasSlot
    <3>6. devs' \in [Slot -> Entry]
      BY <1>t, <2>0, <3>1, <3>2
    <3> QED
      BY <1>t, <2>0, <2>1, <3>1, <3>2, <3>4, <3>5, <3>6, CalmInv
  <2>3. CASE ~ok
    <3>1. UNCHANGED devs /\ th' = [th EXCEPT ![t] = Idle]
      BY <1>5, <2>3 DEF RebootLocked
    <3> QED
      BY <2>1, <3>1, IdleType, CallInv
  <2> QED
    BY <2>2, <2>3
<1> QED
  BY <1>2, <1>3, <1>4, <1>5

\* Module load and unload.
LEMMA ModInv ==
  ASSUME IInv, ModNext
  PROVE  IInv'
<1> USE PlatformAssumption
<1>f. FreeEntry.pdev = NULL /\ FreeEntry.state # "BOOTING" /\ FreeEntry.in_use = FALSE
  BY DEF FreeEntry
<1>1. CASE ModuleInit
  <2>1. TypeOK'
    BY <1>1, FreeEntryType DEF ModuleInit, coreVars, IInv, TypeOK
  <2>2. OpHasDev' /\ CallHasSlot' /\ RundownTimerOff'
    BY <1>1 DEF ModuleInit, coreVars, IInv, OpHasDev, CallHasSlot, RundownTimerOff
  <2>3. PdevOwn' /\ FreeSlotClean' /\ BootTimerArmed'
    BY <1>1, <1>f DEF ModuleInit, PdevOwn, FreeSlotClean, BootTimerArmed
  <2> QED
    BY <2>1, <2>2, <2>3 DEF IInv
<1>2. CASE pcie_enumerate_existed_devs
  <2> PICK add \in [Slot -> OrNull(Dev)] :
        /\ \A s \in Slot : add[s] # NULL => add[s] \in Existing(s) /\ ~devs[s].in_use
        /\ devs' = [s \in Slot |-> IF add[s] = NULL THEN devs[s] ELSE AddedEntry(add[s])]
        /\ refs' = [d \in Dev |-> IF \E s \in Slot : add[s] = d
                                  THEN refs[d] + 1 ELSE refs[d]]
    BY <1>2 DEF pcie_enumerate_existed_devs
  <2>1. UNCHANGED <<bus, op, op_dev, op_by, timer, worker, exit_i, th>>
        /\ mod = "registered" /\ mod' = "live" /\ LockFree
    BY <1>2 DEF pcie_enumerate_existed_devs, workVars
  <2>2. \A s \in Slot :
          IF add[s] = NULL THEN devs'[s] = devs[s] /\ devs'[s] \in Entry
          ELSE /\ add[s] \in Dev /\ OnSlot(add[s], s)
               /\ devs'[s] \in Entry /\ devs'[s].pdev = add[s]
               /\ devs'[s].in_use /\ devs'[s].state # "BOOTING"
    <3> SUFFICES ASSUME NEW s \in Slot
        PROVE IF add[s] = NULL THEN devs'[s] = devs[s] /\ devs'[s] \in Entry
              ELSE /\ add[s] \in Dev /\ OnSlot(add[s], s)
                   /\ devs'[s] \in Entry /\ devs'[s].pdev = add[s]
                   /\ devs'[s].in_use /\ devs'[s].state # "BOOTING"
      OBVIOUS
    <3>1. CASE add[s] = NULL
      BY <3>1 DEF IInv, TypeOK
    <3>2. CASE add[s] # NULL
      <4>1. add[s] \in Dev /\ OnSlot(add[s], s)
        BY <3>2 DEF Existing
      <4>2. devs'[s] = AddedEntry(add[s])
        BY <3>2
      <4> QED
        BY <3>2, <4>1, <4>2, AddedEntryType
    <3> QED
      BY <3>1, <3>2
  <2>3. devs' \in [Slot -> Entry]
    <3>1. \A s \in Slot : devs'[s] \in Entry
      BY <2>2
    <3> QED
      BY <3>1
  <2>4. refs' \in [Dev -> Nat] /\ \A d \in Dev : refs'[d] >= refs[d]
    BY DEF IInv, TypeOK
  <2>5. \A s \in Slot : add[s] # NULL => refs'[add[s]] >= 1
    BY <2>2 DEF IInv, TypeOK
  <2>6. TypeOK'
    BY <2>1, <2>3, <2>4 DEF IInv, TypeOK
  <2>7. PdevOwn'
    <3> SUFFICES ASSUME NEW s \in Slot, devs'[s].pdev # NULL
        PROVE OnSlot(devs'[s].pdev, s) /\ refs'[devs'[s].pdev] >= 1
      BY DEF PdevOwn, OnSlot
    <3>1. CASE add[s] = NULL
      <4>1. devs'[s] = devs[s] /\ devs[s].pdev \in Dev
        BY <2>2, <3>1 DEF IInv, TypeOK, Entry, OrNull
      <4> QED
        BY <2>4, <4>1 DEF IInv, TypeOK, PdevOwn
    <3>2. CASE add[s] # NULL
      BY <2>2, <2>5, <3>2
    <3> QED
      BY <3>1, <3>2
  <2>8. FreeSlotClean' /\ BootTimerArmed'
    BY <2>1, <2>2 DEF IInv, FreeSlotClean, BootTimerArmed, Registered
  <2>9. OpHasDev' /\ CallHasSlot' /\ RundownTimerOff'
    BY <2>1 DEF IInv, OpHasDev, CallHasSlot, RundownTimerOff, OnSlot
  <2> QED
    BY <2>6, <2>7, <2>8, <2>9 DEF IInv
<1>3. CASE ExitUnregister \/ ExitDone
  BY <1>3 DEF ExitUnregister, ExitDone, coreVars, workVars, IInv, TypeOK, OpHasDev,
              CallHasSlot, PdevOwn, RundownTimerOff, FreeSlotClean, BootTimerArmed,
              Registered, OnSlot
<1>4. CASE ExitCancelSync
  <2>1. TypeOK'
    BY <1>4 DEF ExitCancelSync, coreVars, IInv, TypeOK
  <2> QED
    BY <1>4, <2>1 DEF ExitCancelSync, coreVars, IInv, OpHasDev, CallHasSlot, PdevOwn,
                      RundownTimerOff, FreeSlotClean, BootTimerArmed, Registered, OnSlot
<1>5. CASE ExitRelease /\ ~devs[exit_i].in_use /\ UNCHANGED <<bus, refs, devs, timer, mod>>
  BY <1>5 DEF ExitRelease, IInv, TypeOK, OpHasDev, CallHasSlot, PdevOwn,
              RundownTimerOff, FreeSlotClean, BootTimerArmed, Registered, OnSlot
<1>6. CASE ExitRelease /\ devs[exit_i].in_use /\ pcie_release_dev_begin(exit_i)
           /\ mod' = "rundown" /\ UNCHANGED exit_i
  <2>1. exit_i \in Slot /\ UNCHANGED <<op, op_dev, op_by, worker, th>>
    BY <1>6 DEF ExitRelease, IInv, TypeOK, Slot
  <2>2. Detach(exit_i) /\ devs' = [devs EXCEPT ![exit_i] = pcie_entry_detach_pdev(@)]
    BY <1>6 DEF pcie_release_dev_begin
  <2>3. /\ refs' \in [Dev -> Nat] /\ bus' \in [Dev -> {"free", "present", "gone"}]
        /\ devs' \in [Slot -> Entry] /\ PdevOwn'
        /\ \A u \in Slot : devs'[u].in_use = devs[u].in_use
        /\ \A u \in Slot : ~devs[u].in_use /\ u # exit_i => devs'[u] = devs[u]
    BY <2>1, <2>2, DetachInv
  <2>4. timer' = [timer EXCEPT ![exit_i] = FALSE]
    BY <1>6 DEF pcie_release_dev_begin, cancel_delayed_work
  <2>5. TypeOK'
    BY <1>6, <2>1, <2>3, <2>4 DEF IInv, TypeOK
  <2>6. FreeSlotClean' /\ BootTimerArmed'
    BY <1>6, <2>1, <2>3, <2>4 DEF IInv, TypeOK, FreeSlotClean, BootTimerArmed, Registered
  <2>7. OpHasDev' /\ CallHasSlot' /\ RundownTimerOff'
    BY <1>6, <2>1, <2>4 DEF IInv, TypeOK, OpHasDev, CallHasSlot, RundownTimerOff, OnSlot
  <2> QED
    BY <2>3, <2>5, <2>6, <2>7 DEF IInv
<1>7. CASE ExitRundown
  <2>1. exit_i \in Slot /\ ~timer[exit_i]
    BY <1>7 DEF ExitRundown, IInv, RundownTimerOff
  <2>2. devs' = [devs EXCEPT ![exit_i] = FreeEntry]
    BY <1>7 DEF ExitRundown, pcie_release_dev_end
  <2>3. TypeOK'
    BY <1>7, <2>1, <2>2, FreeEntryType DEF ExitRundown, coreVars, workVars, IInv, TypeOK, Slot
  <2>4. PdevOwn' /\ FreeSlotClean' /\ BootTimerArmed'
    BY <1>7, <1>f, <2>1, <2>2 DEF ExitRundown, coreVars, workVars, IInv, TypeOK, PdevOwn,
                                  FreeSlotClean, BootTimerArmed, Registered, OnSlot
  <2>5. OpHasDev' /\ CallHasSlot' /\ RundownTimerOff'
    BY <1>7 DEF ExitRundown, coreVars, workVars, IInv, OpHasDev, CallHasSlot,
                RundownTimerOff, OnSlot
  <2> QED
    BY <2>3, <2>4, <2>5 DEF IInv
<1> QED
  BY <1>1, <1>2, <1>3, <1>4, <1>5, <1>6, <1>7 DEF ModNext, ExitRelease

\* Every step keeps the invariant.
LEMMA NextInv == IInv /\ [Next]_vars => IInv'
<1> SUFFICES ASSUME IInv, [Next]_vars PROVE IInv'
  OBVIOUS
<1>1. CASE BusNext
  BY <1>1, AddInv, DelInv DEF BusNext
<1>2. CASE WorkNext
  BY <1>2, WorkInv DEF WorkNext
<1>3. CASE IoctlNext
  BY <1>3, IoctlInv DEF IoctlNext
<1>4. CASE ProcNext
  BY <1>4, ProcInv DEF ProcNext
<1>5. CASE ModNext
  BY <1>5, ModInv
<1>6. CASE UNCHANGED vars
  BY <1>6 DEF vars, IInv, TypeOK, OpHasDev, CallHasSlot, PdevOwn, RundownTimerOff,
              FreeSlotClean, BootTimerArmed, Registered, OnSlot
<1> QED
  BY <1>1, <1>2, <1>3, <1>4, <1>5, <1>6 DEF Next

----------------------------------------------------------------------------
(* The results.                                                            *)

\* The inductive invariant: besides the three properties below, every slot's
\* device is on the slot's bus and referenced, whatever users, hot-plug, the
\* work item and rmmod do.
THEOREM InvariantHolds == Spec => []IInv
  BY InitInv, NextInv, PTL DEF Spec

\* Type correctness.  The part that takes an argument is refs: no sequence of
\* hot-plug, firmware boot, reboot, timeout, load and unload makes the driver
\* drop a pci_dev reference it does not hold.
THEOREM TypeCorrect == Spec => []TypeOK
<1>1. IInv => TypeOK
  BY DEF IInv
<1> QED
  BY <1>1, InvariantHolds, PTL

\* pcie_release_dev leaves nothing behind: a slot that is not in use is in its
\* initial state and has no timeout pending, under every interleaving of the
\* notifier, the work, the ioctls, the proc nodes and module unload.
THEOREM ReleasedSlotClean == Spec => []FreeSlotClean
<1>1. IInv => FreeSlotClean
  BY DEF IInv
<1> QED
  BY <1>1, InvariantHolds, PTL

\* While the driver listens to the bus a BOOTING slot has its timeout pending
\* or running: cancel_delayed_work in the wrong place would lose it.
THEOREM BootingHasTimeout == Spec => []BootTimerArmed
<1>1. IInv => BootTimerArmed
  BY DEF IInv
<1> QED
  BY <1>1, InvariantHolds, PTL
=============================================================================
