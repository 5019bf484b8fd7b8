---------------------- MODULE AmbaPciPlatformLifetime ----------------------
(***************************************************************************)
(* Theorems about the lifetime of devices, mappings and handlers, for any  *)
(* number of slots, devices and user threads, as long as no two functions  *)
(* share a bus at a time and the load-time scan does not meet a device     *)
(* that is leaving the bus.  LInv and QuietOK are inductive relative to    *)
(* the invariant IInv of AmbaPciPlatformProofs; PInv and NInv, for the two *)
(* pointers loaded without the lock, are inductive relative to all three.  *)
(* The last part proves, from the same invariants, that the slot table     *)
(* implements SlotLifecycle.                                               *)
(***************************************************************************)
EXTENDS AmbaPciPlatformProofs, AmbaPciPlatformCards

\* The two things the driver does not cope with stay out.
Handled == "multi" \notin Env /\ "init_race" \notin Env

----------------------------------------------------------------------------
(* The inductive invariant.                                                *)

\* A slot on its own: its mapping is one of its device, and its state fits
\* the function it points to.
EntryOK(e) ==
  /\ e.boot_mem_base # NULL => e.in_use /\ e.boot_mem_base = e.pdev
  /\ e.pdev # NULL =>
       /\ e.in_use
       /\ e.state = "DISCONNECTED" => {e.boot_bar, e.board_info} \subseteq {NULL, e.pdev}
       /\ e.state \in {"DISCONNECTED", "BOOTING"} => DevKind[e.pdev] = "boot"
       /\ e.state \in {"CONNECTED", "REBOOTING"} => DevKind[e.pdev] = "virtio"

EntriesOK == \A s \in Slot : EntryOK(devs[s])

\* One function per bus, and a device whose arrival is announced is there.
BusOK ==
  /\ \A c, d \in Dev :
       bus[c] = "present" /\ bus[d] = "present" /\ DevBus[c] = DevBus[d] => c = d
  /\ op = "add" => bus[op_dev] = "present"

\* A device about to be unlinked is in no slot, and a slot whose proc nodes
\* are being removed has no device.
LeavingOK ==
  /\ op = "unlink" /\ Registered => \A s \in Slot : devs[s].pdev # op_dev
  /\ op = "rundown" => \A s \in Slot : OnSlot(op_dev, s) => devs[s].pdev = NULL
  /\ mod = "rundown" => devs[exit_i].pdev = NULL

\* The release loop of the exit function leaves no used slot behind it.
ExitOK ==
  /\ mod \in {"release", "rundown"} => \A s \in Slot : s < exit_i => ~devs[s].in_use
  /\ mod = "unloaded" => \A s \in Slot : ~devs[s].in_use

LInv == EntriesOK /\ BusOK /\ LeavingOK /\ ExitOK /\ RefsBalanced /\ PdevOnBus

\* No handler runs and no work is pending where the exit function, or the
\* removal of a slot's proc nodes, has already waited for it.
QuietOK ==
  /\ mod \in {"release", "rundown", "unloaded"} => \A s \in Slot : ~timer[s] /\ ~worker[s]
  /\ ~Registered => \A t \in Thread : th[t].op # "fw"
  /\ \A t \in Thread : th[t].op \in {"rb", "info", "net"} =>
       th[t].slot \in Slot /\ devs[th[t].slot].proc_dir
  /\ \A t \in Thread : th[t].op = "none" => th[t] = Idle

----------------------------------------------------------------------------
(* What the operations on an entry keep.                                   *)

\* A blank slot.
LEMMA FreeOK ==
  /\ EntryOK(FreeEntry) /\ FreeEntry.pdev = NULL
  /\ FreeEntry.in_use = FALSE /\ FreeEntry.proc_dir = FALSE
  BY DEF EntryOK, FreeEntry

\* Detaching unmaps the BAR together with the device.
LEMMA DetachOK ==
  ASSUME NEW e \in Entry, EntryOK(e)
  PROVE  LET f == pcie_entry_detach_pdev(e) IN
         EntryOK(f) /\ f.pdev = NULL /\ f.proc_dir = e.proc_dir /\ f.in_use = e.in_use
  BY DEF EntryOK, pcie_entry_detach_pdev, pcie_boot_bar_unmap, Entry, OrNull

\* A refresh maps the slot's own device and reads from it.
LEMMA RefreshOK ==
  ASSUME NEW e \in Entry, NEW r \in MapResult, EntryOK(e)
  PROVE  LET f == pcie_dev_refresh_board_info_locked(e, r) IN
         EntryOK(f) /\ f.proc_dir = e.proc_dir
<1> DEFINE m == pcie_boot_bar_ensure_mapped(e, r)
           f == ReadBoardInfo(m)
<1>1. CASE ~(e.state = "DISCONNECTED" /\ e.pdev # NULL)
  BY <1>1 DEF pcie_dev_refresh_board_info_locked
<1>2. CASE e.state = "DISCONNECTED" /\ e.pdev # NULL
  <2>1. /\ m \in Entry /\ m.pdev = e.pdev /\ m.in_use = e.in_use
        /\ m.state = e.state /\ m.proc_dir = e.proc_dir /\ m.board_info = e.board_info
    BY <1>2 DEF pcie_boot_bar_ensure_mapped, Entry, OrNull
  <2>2. m.boot_mem_base \in {NULL, e.pdev} /\ m.boot_bar \in {NULL, e.pdev}
    BY <1>2 DEF pcie_boot_bar_ensure_mapped, Entry, OrNull, EntryOK
  <2>3. e.in_use /\ DevKind[e.pdev] = "boot" /\ e.board_info \in {NULL, e.pdev}
    BY <1>2 DEF EntryOK
  <2> HIDE DEF m
  <2>4. /\ f \in Entry /\ f.pdev = m.pdev /\ f.in_use = m.in_use /\ f.state = m.state
        /\ f.proc_dir = m.proc_dir /\ f.boot_mem_base = m.boot_mem_base
        /\ f.boot_bar = m.boot_bar /\ f.board_info \in {m.board_info, m.boot_mem_base}
    BY <2>1 DEF ReadBoardInfo, Entry, OrNull
  <2>5. pcie_dev_refresh_board_info_locked(e, r) = f
    BY <1>2 DEF pcie_dev_refresh_board_info_locked, m
  <2> HIDE DEF f
  <2>6. EntryOK(f)
    BY <1>2, <2>1, <2>2, <2>3, <2>4 DEF EntryOK
  <2> QED
    BY <2>1, <2>4, <2>5, <2>6
<1> QED
  BY <1>1, <1>2

\* So does a query.
LEMMA QueryOK ==
  ASSUME NEW e \in Entry, NEW r \in MapResult, EntryOK(e)
  PROVE  LET f == pcie_query_dev_info_locked(e, r) IN
         EntryOK(f) /\ f.proc_dir = e.proc_dir
  BY RefreshOK DEF pcie_query_dev_info_locked

\* A new slot waits for firmware with a boot function, and is connected with
\* a virtio function.
LEMMA AddedOK ==
  ASSUME NEW d \in Dev, DevKind[d] \in {"boot", "virtio"}
  PROVE  EntryOK(AddedEntry(d)) /\ AddedEntry(d).proc_dir
<1> DEFINE f == AddedEntry(d)
<1>1. /\ f.in_use /\ f.proc_dir /\ f.pdev = d /\ f.boot_mem_base = NULL
      /\ f.boot_bar = NULL /\ f.board_info = NULL
      /\ f.state = IF DevKind[d] = "virtio" THEN "CONNECTED" ELSE "DISCONNECTED"
  BY DEF AddedEntry, InitEntry, pcie_create_proc_nodes, FreeEntry
<1> HIDE DEF f
<1>2. EntryOK(f)
  BY <1>1 DEF EntryOK
<1> QED
  BY <1>1, <1>2 DEF f

\* Reconnecting a slot that has lost its boot function.
LEMMA ReconnectedOK ==
  ASSUME NEW e \in Entry, NEW d \in Dev, EntryOK(e), e.in_use, e.pdev = NULL,
         DevKind[d] = "virtio"
  PROVE  LET f == [e EXCEPT !.pdev = d, !.state = "CONNECTED"] IN
         EntryOK(f) /\ f.proc_dir = e.proc_dir
  BY DEF EntryOK, Entry, OrNull

\* Starting a boot, a reboot, and the timeout.
LEMMA StateOK ==
  ASSUME NEW e \in Entry, EntryOK(e), NEW x \in State,
         \/ e.state = "DISCONNECTED" /\ x = "BOOTING"
         \/ e.state = "CONNECTED" /\ x = "REBOOTING"
         \/ x = "BOOT_FAILED"
  PROVE  LET f == [e EXCEPT !.state = x] IN
         /\ EntryOK(f) /\ f.proc_dir = e.proc_dir
         /\ f.pdev = e.pdev /\ f.in_use = e.in_use
  BY DEF EntryOK, Entry, OrNull, State

----------------------------------------------------------------------------
(* LInv holds at the start and is kept by every action.                    *)

\* Before the module is loaded.
LEMMA LInit == Init => LInv
<1> SUFFICES ASSUME Init PROVE LInv
  OBVIOUS
<1>1. EntriesOK /\ ExitOK /\ PdevOnBus
  BY FreeOK DEF Init, EntriesOK, ExitOK, PdevOnBus
<1>2. BusOK /\ LeavingOK
  BY FreeOK DEF Init, BusOK, LeavingOK
<1>3. RefsBalanced
  BY FreeOK, PlatformAssumption DEF Init, RefsBalanced
<1> QED
  BY <1>1, <1>2, <1>3 DEF LInv

\* Steps that give no slot another device and leave the PCI core alone, but
\* for the start of a removal.
LEMMA LCalm ==
  ASSUME IInv, LInv,
         \A s \in Slot : /\ EntryOK(devs'[s]) /\ devs'[s].pdev = devs[s].pdev
                         /\ devs'[s].in_use = devs[s].in_use,
         UNCHANGED <<bus, refs, mod, exit_i>>,
         UNCHANGED <<op, op_dev>> \/ op' \in {"del", "dead"}
  PROVE  LInv'
<1>1. EntriesOK' /\ ExitOK' /\ PdevOnBus'
  BY DEF LInv, EntriesOK, ExitOK, PdevOnBus, Registered
<1>2. BusOK'
  BY DEF LInv, BusOK
<1>3. LeavingOK'
  <2>1. mod = "rundown" => exit_i \in Slot
    BY DEF IInv, RundownTimerOff
  <2> QED
    BY <2>1 DEF LInv, LeavingOK, OnSlot, Registered
<1>4. RefsBalanced'
  BY DEF LInv, RefsBalanced
<1> QED
  BY <1>1, <1>2, <1>3, <1>4 DEF LInv

\* A device on the bus of a slot that has none is stored with a reference.
LEMMA LAttach ==
  ASSUME IInv, LInv, Registered, op' = "none", UNCHANGED <<bus, mod, exit_i>>,
         NEW d \in Dev, NEW s \in Slot, OnSlot(d, s), devs[s].pdev = NULL,
         bus[d] = "present", refs' = pci_dev_get(d),
         NEW f \in Entry, EntryOK(f), f.pdev = d, devs' = [devs EXCEPT ![s] = f]
  PROVE  LInv'
<1>t. devs \in [Slot -> Entry] /\ refs \in [Dev -> Nat]
  BY DEF IInv, TypeOK
<1>1. devs'[s] = f /\ \A u \in Slot : u # s => devs'[u] = devs[u]
  BY <1>t
<1>2. EntriesOK'
  BY <1>1 DEF LInv, EntriesOK
<1>3. BusOK' /\ LeavingOK' /\ ExitOK'
  BY DEF LInv, BusOK, LeavingOK, ExitOK, Registered
<1>4. PdevOnBus'
  BY <1>1 DEF LInv, PdevOnBus, Registered
<1>5. \A u \in Slot : devs[u].pdev # d
  BY PlatformAssumption, SlotUnique DEF IInv, PdevOwn
<1>6. RefsBalanced'
  <2> SUFFICES ASSUME NEW c \in Dev
               PROVE  refs'[c] = IF \E u \in Slot : devs'[u].pdev = c THEN 1 ELSE 0
    BY DEF RefsBalanced
  <2>1. CASE c = d
    BY <1>t, <1>1, <1>5, <2>1 DEF LInv, RefsBalanced, pci_dev_get
  <2>2. CASE c # d
    <3>1. refs'[c] = refs[c]
      BY <1>t, <2>2 DEF pci_dev_get
    <3>2. (\E u \in Slot : devs'[u].pdev = c) <=> (\E u \in Slot : devs[u].pdev = c)
      BY <1>1, <2>2, PlatformAssumption
    <3> QED
      BY <3>1, <3>2 DEF LInv, RefsBalanced
  <2> QED
    BY <2>1, <2>2
<1> QED
  BY <1>2, <1>3, <1>4, <1>6 DEF LInv

\* What dropping a slot's device does: the reference goes with it, and only a
\* device that is off the bus already can be freed by it.
LEMMA LDetach ==
  ASSUME IInv, LInv, NEW s \in Slot, Detach(s),
         devs' = [devs EXCEPT ![s] = pcie_entry_detach_pdev(@)]
  PROVE  /\ EntriesOK' /\ RefsBalanced'
         /\ devs'[s].pdev = NULL /\ \A u \in Slot : u # s => devs'[u] = devs[u]
         /\ \A u \in Slot : devs'[u].in_use = devs[u].in_use
         /\ \A d \in Dev : bus'[d] = "present" <=> bus[d] = "present"
<1>t. /\ devs \in [Slot -> Entry] /\ refs \in [Dev -> Nat] /\ devs[s] \in Entry
      /\ bus \in [Dev -> {"free", "present", "gone"}]
  BY DEF IInv, TypeOK
<1> DEFINE p == devs[s].pdev
           f == pcie_entry_detach_pdev(devs[s])
<1>1. EntryOK(f) /\ f.pdev = NULL /\ f.in_use = devs[s].in_use
  BY <1>t, DetachOK DEF LInv, EntriesOK
<1>2. devs' = [devs EXCEPT ![s] = f]
  OBVIOUS
<1> HIDE DEF f
<1>3. devs'[s] = f /\ \A u \in Slot : u # s => devs'[u] = devs[u]
  BY <1>t, <1>2
<1>4. EntriesOK'
  BY <1>1, <1>3 DEF LInv, EntriesOK
<1>5. \A d \in Dev : bus'[d] = "present" <=> bus[d] = "present"
  BY <1>t DEF Detach, BusAfterPut
<1>6. p # NULL => p \in Dev /\ OnSlot(p, s)
  BY <1>t DEF Entry, OrNull, IInv, PdevOwn
<1>7. p # NULL => \A u \in Slot : devs[u].pdev = p => u = s
  BY <1>6, SlotUnique DEF IInv, PdevOwn
<1>8. RefsBalanced'
  <2> SUFFICES ASSUME NEW c \in Dev
               PROVE  refs'[c] = IF \E u \in Slot : devs'[u].pdev = c THEN 1 ELSE 0
    BY DEF RefsBalanced
  <2>a. c # NULL
    BY PlatformAssumption
  <2>1. CASE c = p
    <3>1. refs[c] = 1
      BY <2>1 DEF LInv, RefsBalanced
    <3>2. refs'[c] = 0
      BY <1>t, <2>1, <2>a, <3>1 DEF Detach, pci_dev_put
    <3>3. ~ \E u \in Slot : devs'[u].pdev = c
      BY <1>1, <1>3, <1>7, <2>1, <2>a
    <3> QED
      BY <3>2, <3>3
  <2>2. CASE c # p
    <3>1. refs'[c] = refs[c]
      BY <1>t, <2>2 DEF Detach, pci_dev_put
    <3>2. (\E u \in Slot : devs'[u].pdev = c) <=> (\E u \in Slot : devs[u].pdev = c)
      BY <1>1, <1>3, <2>2, <2>a
    <3> QED
      BY <3>1, <3>2 DEF LInv, RefsBalanced
  <2> QED
    BY <2>1, <2>2
<1> QED
  BY <1>1, <1>3, <1>4, <1>5, <1>8

\* Nothing in a slot that is not in use.
LEMMA UnusedSlot ==
  ASSUME IInv, NEW s \in Slot, ~devs[s].in_use
  PROVE  devs[s] = FreeEntry /\ devs[s].pdev = NULL
  BY FreeOK DEF IInv, FreeSlotClean

\* The assertion in pcie_try_reconnect_booting_locked: a slot that reconnects
\* has no device, because its boot function would share the bus with the
\* virtio function.
LEMMA NoPdevOnReconnect ==
  ASSUME IInv, LInv, Registered, op = "add", NEW s \in Slot, Reconnects(op_dev, s)
  PROVE  devs[s].pdev = NULL
<1> SUFFICES ASSUME devs[s].pdev # NULL PROVE FALSE
  OBVIOUS
<1> DEFINE p == devs[s].pdev
<1>1. p \in Dev /\ op_dev \in Dev
  BY DEF IInv, TypeOK, Entry, OrNull, OpHasDev
<1>2. DevKind[p] = "boot" /\ DevKind[op_dev] = "virtio"
  BY DEF LInv, EntriesOK, EntryOK, Reconnects
<1>3. bus[p] = "present" /\ bus[op_dev] = "present"
  BY DEF LInv, PdevOnBus, BusOK
<1>4. DevBus[p] = DevBus[op_dev]
  BY DEF IInv, PdevOwn, OnSlot, Reconnects
<1> QED
  BY <1>1, <1>2, <1>3, <1>4 DEF LInv, BusOK

\* Hot-add.
LEMMA LAdd ==
  ASSUME Handled, IInv, LInv, BusAddNotify \/ \E d \in Dev : BusScan(d)
  PROVE  LInv'
<1>t. devs \in [Slot -> Entry] /\ bus \in [Dev -> {"free", "present", "gone"}]
  BY DEF IInv, TypeOK
<1>1. ASSUME NEW d \in Dev, BusScan(d) PROVE LInv'
  <2>1. /\ bus' = [bus EXCEPT ![d] = "present"] /\ op' = "add" /\ op_dev' = d
        /\ UNCHANGED <<refs, devs, mod, exit_i>>
    BY <1>1 DEF BusScan
  <2>2. EntriesOK' /\ RefsBalanced' /\ ExitOK'
    BY <2>1 DEF LInv, EntriesOK, RefsBalanced, ExitOK
  <2>3. BusOK'
    BY <1>t, <1>1, <2>1 DEF BusScan, Handled, LInv, BusOK
  <2>4. LeavingOK'
    BY <2>1 DEF LInv, LeavingOK
  <2>5. PdevOnBus'
    BY <1>t, <2>1 DEF LInv, PdevOnBus, Registered, Entry, OrNull
  <2> QED
    BY <2>2, <2>3, <2>4, <2>5 DEF LInv
<1>2. CASE BusAddNotify
  <2>1. /\ op = "add" /\ op' = "none" /\ UNCHANGED <<bus, mod, exit_i>>
        /\ op_dev \in Dev /\ bus[op_dev] = "present"
    BY <1>2 DEF BusAddNotify, IInv, OpHasDev, LInv, BusOK
  <2>2. CASE UNCHANGED <<devs, refs, timer>>
    <3>1. EntriesOK' /\ RefsBalanced' /\ ExitOK' /\ PdevOnBus'
      BY <2>1, <2>2 DEF LInv, EntriesOK, RefsBalanced, ExitOK, PdevOnBus, Registered
    <3>2. BusOK' /\ LeavingOK'
      BY <2>1, <2>2 DEF LInv, BusOK, LeavingOK
    <3> QED
      BY <3>1, <3>2 DEF LInv
  <2>3. ASSUME Registered, NEW s \in Slot, Reconnects(op_dev, s),
               pcie_try_reconnect_booting_locked(op_dev, s)
        PROVE  LInv'
    <3> DEFINE f == [devs[s] EXCEPT !.pdev = op_dev, !.state = "CONNECTED"]
    <3>1. devs[s].pdev = NULL /\ devs[s].in_use /\ OnSlot(op_dev, s)
      BY <2>1, <2>3, NoPdevOnReconnect DEF Reconnects
    <3>2. EntryOK(f) /\ f \in Entry /\ f.pdev = op_dev
      BY <1>t, <2>1, <2>3, <3>1, ReconnectedOK, ReconnectedEntry
         DEF LInv, EntriesOK, Reconnects
    <3>3. devs' = [devs EXCEPT ![s] = f] /\ refs' = pci_dev_get(op_dev)
      BY <1>t, <2>3 DEF pcie_try_reconnect_booting_locked
    <3> HIDE DEF f
    <3> QED
      BY <2>1, <2>3, <3>1, <3>2, <3>3, LAttach
  <2>4. ASSUME Registered, NEW s \in Slot, Inits(op_dev, s), pcie_init_slot(op_dev, s)
        PROVE  LInv'
    <3>1. devs[s].pdev = NULL /\ OnSlot(op_dev, s)
      BY <2>4, UnusedSlot DEF Inits
    <3>2. /\ EntryOK(AddedEntry(op_dev)) /\ AddedEntry(op_dev) \in Entry
          /\ AddedEntry(op_dev).pdev = op_dev
      BY <2>1, <2>4, AddedOK, AddedEntryType DEF Inits
    <3> QED
      BY <2>1, <2>4, <3>1, <3>2, LAttach DEF pcie_init_slot
  <2> QED
    BY <1>2, <2>2, <2>3, <2>4 DEF BusAddNotify, pcie_handle_add_locked
<1> QED
  BY <1>1, <1>2

\* Hot-remove.
LEMMA LDel ==
  ASSUME IInv, LInv, BusDelNotify \/ BusDelRundown \/ BusUnlink
  PROVE  LInv'
<1>t. /\ devs \in [Slot -> Entry] /\ bus \in [Dev -> {"free", "present", "gone"}]
      /\ mod = "rundown" => exit_i \in Slot
  BY DEF IInv, TypeOK, RundownTimerOff
<1>1. ASSUME op = "del", UNCHANGED <<bus, refs, devs, op_dev, mod, exit_i>>, op' = "unlink",
             ~Registered \/ ~ \E s \in Slot : OnSlot(op_dev, s) /\ devs[s].in_use
      PROVE  LInv'
  <2>1. EntriesOK' /\ RefsBalanced' /\ ExitOK' /\ PdevOnBus' /\ BusOK'
    BY <1>1 DEF LInv, EntriesOK, RefsBalanced, ExitOK, PdevOnBus, Registered, BusOK
  <2>2. Registered => \A s \in Slot : devs[s].pdev # op_dev
    BY <1>1, UnusedSlot, PlatformAssumption DEF IInv, PdevOwn, OpHasDev
  <2>3. LeavingOK'
    BY <1>t, <1>1, <2>2 DEF LInv, LeavingOK, Registered
  <2> QED
    BY <2>1, <2>3 DEF LInv
<1>2. ASSUME op = "del", UNCHANGED <<op_dev, mod, exit_i>>, op' \in {"unlink", "rundown"},
             NEW s \in Slot, OnSlot(op_dev, s), Detach(s),
             devs' = [devs EXCEPT ![s] = pcie_entry_detach_pdev(@)]
      PROVE  LInv'
  <2>1. /\ EntriesOK' /\ RefsBalanced'
        /\ devs'[s].pdev = NULL /\ \A u \in Slot : u # s => devs'[u] = devs[u]
        /\ \A u \in Slot : devs'[u].in_use = devs[u].in_use
        /\ \A d \in Dev : bus'[d] = "present" <=> bus[d] = "present"
    BY <1>2, LDetach
  <2>2. ExitOK' /\ BusOK'
    BY <1>2, <2>1 DEF LInv, ExitOK, BusOK
  <2>3. PdevOnBus'
    BY <1>t, <1>2, <2>1 DEF LInv, PdevOnBus, Registered, Entry, OrNull
  <2>4. op_dev \in Dev /\ \A u \in Slot : OnSlot(op_dev, u) => u = s
    BY <1>2, SlotUnique DEF IInv, OpHasDev
  <2>5. \A u \in Slot : devs'[u].pdev # op_dev
    BY <2>1, <2>4, PlatformAssumption DEF IInv, PdevOwn
  <2>6. LeavingOK'
    BY <1>t, <1>2, <2>1, <2>4, <2>5 DEF LInv, LeavingOK, Registered, OnSlot
  <2> QED
    BY <2>1, <2>2, <2>3, <2>6 DEF LInv
<1>3. CASE BusDelNotify
  BY <1>1, <1>2, <1>3 DEF BusDelNotify, pcie_handle_del_locked, pcie_release_dev_begin
<1>4. CASE BusDelRundown
  <2> PICK s \in Slot : OnSlot(op_dev, s) /\ pcie_release_dev_end(s)
    BY <1>4 DEF BusDelRundown
  <2>1. /\ op = "rundown" /\ op' = "unlink" /\ devs' = [devs EXCEPT ![s] = FreeEntry]
        /\ UNCHANGED <<bus, refs, op_dev, mod, exit_i>> /\ devs[s].pdev = NULL
        /\ op_dev \in Dev
    BY <1>4 DEF BusDelRundown, pcie_release_dev_end, LInv, LeavingOK, IInv, OpHasDev
  <2>2. devs'[s] = FreeEntry /\ \A u \in Slot : u # s => devs'[u] = devs[u]
    BY <1>t, <2>1
  <2>3. \A u \in Slot : devs'[u].pdev = devs[u].pdev
    BY <2>1, <2>2, FreeOK
  <2>4. EntriesOK' /\ ExitOK'
    BY <2>1, <2>2, FreeOK DEF LInv, EntriesOK, ExitOK
  <2>5. RefsBalanced' /\ PdevOnBus' /\ BusOK'
    BY <2>1, <2>3 DEF LInv, RefsBalanced, PdevOnBus, BusOK, Registered
  <2>6. \A u \in Slot : devs[u].pdev # op_dev
    BY <2>1, SlotUnique, PlatformAssumption DEF IInv, PdevOwn
  <2>7. LeavingOK'
    BY <1>t, <2>1, <2>3, <2>6 DEF LInv, LeavingOK
  <2> QED
    BY <2>4, <2>5, <2>7 DEF LInv
<1>5. CASE BusUnlink
  <2>1. /\ op = "unlink" /\ op' = "none" /\ UNCHANGED <<refs, devs, mod, exit_i>>
        /\ bus' = [bus EXCEPT ![op_dev] = IF refs[op_dev] = 0 THEN "free" ELSE "gone"]
        /\ op_dev \in Dev
    BY <1>5 DEF BusUnlink, IInv, OpHasDev
  <2>2. EntriesOK' /\ ExitOK' /\ RefsBalanced' /\ LeavingOK'
    BY <2>1 DEF LInv, EntriesOK, ExitOK, RefsBalanced, LeavingOK
  <2>3. BusOK'
    BY <1>t, <2>1 DEF LInv, BusOK
  <2>4. PdevOnBus'
    BY <1>t, <2>1 DEF LInv, PdevOnBus, LeavingOK, Registered, Entry, OrNull
  <2> QED
    BY <2>2, <2>3, <2>4 DEF LInv
<1> QED
  BY <1>3, <1>4, <1>5

\* The timeout, the ioctls, the proc nodes and the start of a removal give no
\* slot another device, and use the one it has as its state allows.
LEMMA LUsers ==
  ASSUME IInv, LInv,
         WorkNext \/ IoctlNext \/ ProcNext \/ \E d \in Dev : BusRemove(d)
  PROVE  LInv'
<1>t. devs \in [Slot -> Entry] /\ \A s \in Slot : EntryOK(devs[s])
  BY DEF IInv, TypeOK, LInv, EntriesOK
<1>s. \A t \in Thread : th[t].pc # "idle" => th[t].slot \in Slot
  BY DEF IInv, CallHasSlot
<1>1. ASSUME UNCHANGED <<bus, refs, mod, exit_i, devs>>,
             UNCHANGED <<op, op_dev>> \/ op' \in {"del", "dead"}
      PROVE  LInv'
  BY <1>t, <1>1, LCalm
<1>2. ASSUME UNCHANGED <<bus, refs, op, op_dev, mod, exit_i>>, NEW s \in Slot, NEW f,
             EntryOK(f), f.pdev = devs[s].pdev, f.in_use = devs[s].in_use,
             devs' = [devs EXCEPT ![s] = f]
      PROVE  LInv'
  BY <1>t, <1>2, LCalm
<1>3. CASE \E d \in Dev : BusRemove(d)
  BY <1>1, <1>3 DEF BusRemove
<1>4. CASE WorkNext
  <2>1. ASSUME NEW s \in Slot, TimerFire(s) PROVE LInv'
    BY <1>1, <2>1 DEF TimerFire, coreVars, modVars
  <2>2. ASSUME NEW s \in Slot, pcie_boot_timeout_fn(s) PROVE LInv'
    <3>1. EntryOK(TimedOut(devs[s]))
      BY <1>t, StateOK DEF TimedOut, State
    <3>2. TimedOut(devs[s]).pdev = devs[s].pdev /\ TimedOut(devs[s]).in_use = devs[s].in_use
      BY <1>t, TimedOutEntry
    <3>3. /\ devs' = [devs EXCEPT ![s] = TimedOut(devs[s])]
          /\ UNCHANGED <<bus, refs, op, op_dev, mod, exit_i>>
      BY <2>2 DEF pcie_boot_timeout_fn, coreVars, modVars
    <3> QED
      BY <1>2, <3>1, <3>2, <3>3
  <2> QED
    BY <1>4, <2>1, <2>2 DEF WorkNext
<1>5. CASE QueryPlatformInfo
  <2> PICK r \in [Slot -> MapResult] :
        devs' = [s \in Slot |-> pcie_query_dev_info_locked(devs[s], r[s])]
    BY <1>5 DEF QueryPlatformInfo
  <2>1. \A s \in Slot : r[s] \in MapResult /\ devs[s] \in Entry
    BY <1>t
  <2>2. \A s \in Slot : devs'[s] = pcie_query_dev_info_locked(devs[s], r[s])
    OBVIOUS
  <2>3. \A s \in Slot : /\ EntryOK(devs'[s]) /\ devs'[s].pdev = devs[s].pdev
                        /\ devs'[s].in_use = devs[s].in_use
    BY <1>t, <2>1, <2>2, QueryOK, QueryEntry
  <2>4. UNCHANGED <<bus, refs, op, op_dev, mod, exit_i>>
    BY <1>5 DEF QueryPlatformInfo, coreVars, modVars
  <2> QED
    BY <2>3, <2>4, LCalm
<1>6. ASSUME NEW s \in Slot, XferFirmwareFails(s) PROVE LInv'
  <2> PICK r \in MapResult :
        devs' = [devs EXCEPT ![s] = pcie_dev_refresh_board_info_locked(@, r)]
    BY <1>6 DEF XferFirmwareFails
  <2> DEFINE f == pcie_dev_refresh_board_info_locked(devs[s], r)
  <2>1. EntryOK(f) /\ f.pdev = devs[s].pdev /\ f.in_use = devs[s].in_use
    BY <1>t, RefreshOK, RefreshEntry
  <2>2. devs' = [devs EXCEPT ![s] = f] /\ UNCHANGED <<bus, refs, op, op_dev, mod, exit_i>>
    BY <1>6 DEF XferFirmwareFails, coreVars, modVars
  <2> HIDE DEF f
  <2> QED
    BY <1>2, <2>1, <2>2
<1>7. ASSUME NEW t \in Thread, NEW s \in Slot, XferFirmware(t, s) PROVE LInv'
  <2> PICK r \in MapResult :
        devs' = [devs EXCEPT ![s] =
                   [pcie_dev_refresh_board_info_locked(devs[s], r) EXCEPT !.state = "BOOTING"]]
    BY <1>7 DEF XferFirmware
  <2> DEFINE e == pcie_dev_refresh_board_info_locked(devs[s], r)
             f == [e EXCEPT !.state = "BOOTING"]
  <2>1. /\ EntryOK(e) /\ e \in Entry /\ e.state = "DISCONNECTED"
        /\ e.pdev = devs[s].pdev /\ e.in_use = devs[s].in_use
    BY <1>t, <1>7, RefreshOK, RefreshEntry DEF XferFirmware
  <2>2. devs' = [devs EXCEPT ![s] = f] /\ UNCHANGED <<bus, refs, op, op_dev, mod, exit_i>>
    BY <1>7 DEF XferFirmware, coreVars, modVars
  <2> HIDE DEF e
  <2>3. EntryOK(f) /\ f.pdev = devs[s].pdev /\ f.in_use = devs[s].in_use
    BY <2>1, StateOK DEF State
  <2> HIDE DEF f
  <2> QED
    BY <1>2, <2>2, <2>3
<1>8. ASSUME NEW t \in Thread, FwCheck(t) \/ PdevLoad(t) \/ RemoveCall(t) PROVE LInv'
  BY <1>1, <1>8 DEF FwCheck, PdevLoad, RemoveCall, coreVars, modVars
<1>9. ASSUME NEW t \in Thread, NEW s \in Slot,
             RebootEnter(t, s) \/ DevInfoEnter(t, s) \/ NetEnter(t, s)
      PROVE  LInv'
  BY <1>1, <1>9 DEF RebootEnter, DevInfoEnter, NetEnter, EnterProc, coreVars, modVars
<1>10. ASSUME NEW t \in Thread, NetDeref(t) PROVE LInv'
  BY <1>1, <1>10 DEF NetDeref, coreVars, modVars
<1>11. ASSUME NEW t \in Thread, DevInfoLocked(t) PROVE LInv'
  <2> DEFINE s == th[t].slot
  <2> PICK r \in MapResult :
        devs' = [devs EXCEPT ![s] = pcie_query_dev_info_locked(@, r)]
    BY <1>11 DEF DevInfoLocked
  <2> DEFINE f == pcie_query_dev_info_locked(devs[s], r)
  <2>0. s \in Slot
    BY <1>s, <1>11 DEF DevInfoLocked
  <2>1. EntryOK(f) /\ f.pdev = devs[s].pdev /\ f.in_use = devs[s].in_use
    BY <1>t, <2>0, QueryOK, QueryEntry
  <2>2. devs' = [devs EXCEPT ![s] = f] /\ UNCHANGED <<bus, refs, op, op_dev, mod, exit_i>>
    BY <1>11 DEF DevInfoLocked, coreVars, modVars
  <2> HIDE DEF f, s
  <2> QED
    BY <1>2, <2>0, <2>1, <2>2
<1>12. ASSUME NEW t \in Thread, RebootLocked(t) PROVE LInv'
  <2> DEFINE s == th[t].slot
             f == [devs[s] EXCEPT !.state = "REBOOTING"]
  <2>0. s \in Slot /\ UNCHANGED <<bus, refs, op, op_dev, mod, exit_i>>
    BY <1>s, <1>12 DEF RebootLocked, coreVars, modVars
  <2>1. CASE devs' = devs
    BY <1>1, <2>0, <2>1
  <2>2. CASE devs[s].state = "CONNECTED" /\ devs' = [devs EXCEPT ![s].state = "REBOOTING"]
    <3>1. EntryOK(f) /\ f.pdev = devs[s].pdev /\ f.in_use = devs[s].in_use
      BY <1>t, <2>0, <2>2, StateOK DEF State
    <3>2. devs' = [devs EXCEPT ![s] = f]
      BY <1>t, <2>0, <2>2
    <3> HIDE DEF f, s
    <3> QED
      BY <1>2, <2>0, <3>1, <3>2
  <2> QED
    BY <1>12, <2>1, <2>2 DEF RebootLocked
<1> QED
  BY <1>3, <1>4, <1>5, <1>6, <1>7, <1>8, <1>9, <1>10, <1>11, <1>12 DEF IoctlNext, ProcNext

\* Module load and unload.
LEMMA LMod ==
  ASSUME Handled, IInv, LInv, ModNext
  PROVE  LInv'
<1>t. /\ devs \in [Slot -> Entry] /\ refs \in [Dev -> Nat] /\ exit_i \in 0 .. DevMax
      /\ op \in {"del", "rundown", "unlink", "add"} => op_dev \in Dev
  BY DEF IInv, TypeOK, OpHasDev
<1>1. CASE ModuleInit
  <2>1. /\ mod = "unloaded" /\ mod' = "registered" /\ devs' = [s \in Slot |-> FreeEntry]
        /\ UNCHANGED <<bus, refs, op, op_dev, exit_i>>
    BY <1>1 DEF ModuleInit, coreVars
  <2>2. \A s \in Slot : devs[s].pdev = NULL /\ devs'[s] = FreeEntry /\ devs'[s].pdev = NULL
    BY <2>1, UnusedSlot, FreeOK DEF LInv, ExitOK
  <2>3. EntriesOK' /\ PdevOnBus' /\ ExitOK' /\ BusOK'
    BY <2>1, <2>2, FreeOK DEF LInv, EntriesOK, PdevOnBus, ExitOK, BusOK
  <2>4. LeavingOK'
    BY <1>t, <2>1, <2>2, PlatformAssumption DEF LeavingOK
  <2>5. RefsBalanced'
    BY <2>1, <2>2 DEF LInv, RefsBalanced
  <2> QED
    BY <2>3, <2>4, <2>5 DEF LInv
<1>2. CASE pcie_enumerate_existed_devs
  <2> PICK add \in [Slot -> OrNull(Dev)] :
        /\ \A s \in Slot : add[s] # NULL => add[s] \in Existing(s) /\ ~devs[s].in_use
        /\ devs' = [s \in Slot |-> IF add[s] = NULL THEN devs[s] ELSE AddedEntry(add[s])]
        /\ refs' = [d \in Dev |-> IF \E s \in Slot : add[s] = d
                                  THEN refs[d] + 1 ELSE refs[d]]
    BY <1>2 DEF pcie_enumerate_existed_devs
  <2>1. /\ op \notin {"unlink", "rundown"} /\ mod = "registered" /\ mod' = "live"
        /\ UNCHANGED <<bus, op, op_dev, exit_i>>
    BY <1>2 DEF pcie_enumerate_existed_devs, Handled, LockFree
  <2>2. ASSUME NEW s \in Slot, add[s] # NULL
        PROVE  /\ add[s] \in Dev /\ bus[add[s]] = "present" /\ DevKind[add[s]] = "boot"
               /\ OnSlot(add[s], s) /\ devs[s].pdev = NULL
               /\ EntryOK(devs'[s]) /\ devs'[s].pdev = add[s]
    <3>1. add[s] \in Existing(s) /\ ~devs[s].in_use /\ devs'[s] = AddedEntry(add[s])
      BY <2>2
    <3>2. /\ add[s] \in Dev /\ bus[add[s]] = "present" /\ DevKind[add[s]] = "boot"
          /\ OnSlot(add[s], s)
      BY <3>1 DEF Existing
    <3> QED
      BY <3>1, <3>2, UnusedSlot, AddedOK, AddedEntryType
  <2>3. \A s \in Slot : add[s] = NULL => devs'[s] = devs[s]
    OBVIOUS
  <2>4. EntriesOK' /\ PdevOnBus'
    BY <2>1, <2>2, <2>3 DEF LInv, EntriesOK, PdevOnBus, Registered
  <2>5. ExitOK' /\ BusOK' /\ LeavingOK'
    BY <2>1 DEF LInv, ExitOK, BusOK, LeavingOK
  <2>6. RefsBalanced'
    <3> SUFFICES ASSUME NEW d \in Dev
                 PROVE  refs'[d] = IF \E u \in Slot : devs'[u].pdev = d THEN 1 ELSE 0
      BY DEF RefsBalanced
    <3>1. CASE \E s \in Slot : add[s] = d
      <4> PICK s \in Slot : add[s] = d
        BY <3>1
      <4>1. devs'[s].pdev = d /\ OnSlot(d, s) /\ devs[s].pdev = NULL
        BY <2>2, PlatformAssumption
      <4>2. ~ \E u \in Slot : devs[u].pdev = d
        BY <4>1, SlotUnique, PlatformAssumption DEF IInv, PdevOwn
      <4> QED
        BY <1>t, <3>1, <4>1, <4>2 DEF LInv, RefsBalanced
    <3>2. CASE ~ \E s \in Slot : add[s] = d
      <4>1. (\E u \in Slot : devs'[u].pdev = d) <=> (\E u \in Slot : devs[u].pdev = d)
        BY <2>2, <2>3, <3>2, PlatformAssumption
      <4> QED
        BY <1>t, <3>2, <4>1 DEF LInv, RefsBalanced
    <3> QED
      BY <3>1, <3>2
  <2> QED
    BY <2>4, <2>5, <2>6 DEF LInv
<1>3. CASE ExitUnregister \/ ExitCancelSync
  <2>1. /\ mod' \in {"exit_cancel", "release"} /\ (mod' = "release" => exit_i' = 0)
        /\ UNCHANGED <<bus, refs, op, op_dev, devs>>
    BY <1>3 DEF ExitUnregister, ExitCancelSync, coreVars
  <2>2. EntriesOK' /\ PdevOnBus' /\ BusOK' /\ RefsBalanced'
    BY <2>1 DEF LInv, EntriesOK, PdevOnBus, BusOK, RefsBalanced, Registered
  <2>3. LeavingOK'
    BY <2>1 DEF LInv, LeavingOK, Registered, OnSlot
  <2>4. ExitOK'
    BY <2>1, PlatformAssumption DEF ExitOK, Slot
  <2> QED
    BY <2>2, <2>3, <2>4 DEF LInv
<1>4. CASE ExitDone \/ (ExitRelease /\ ~devs[exit_i].in_use)
  <2>1. /\ mod = "release" /\ UNCHANGED <<bus, refs, op, op_dev, devs>>
        /\ \/ mod' = "unloaded" /\ exit_i = DevMax
           \/ mod' = "release" /\ exit_i < DevMax /\ ~devs[exit_i].in_use
              /\ exit_i' = exit_i + 1
    BY <1>4 DEF ExitDone, ExitRelease, coreVars
  <2>2. EntriesOK' /\ PdevOnBus' /\ BusOK' /\ RefsBalanced'
    BY <2>1 DEF LInv, EntriesOK, PdevOnBus, BusOK, RefsBalanced, Registered
  <2>3. LeavingOK'
    BY <2>1 DEF LInv, LeavingOK, Registered, OnSlot
  <2>4. \A s \in Slot : s < exit_i => ~devs[s].in_use
    BY <2>1 DEF LInv, ExitOK
  <2>5. ExitOK'
    BY <1>t, <2>1, <2>4, PlatformAssumption DEF ExitOK, Slot
  <2> QED
    BY <2>2, <2>3, <2>5 DEF LInv
<1>5. CASE ExitRelease /\ devs[exit_i].in_use
  <2>1. /\ mod = "release" /\ mod' = "rundown" /\ exit_i \in Slot
        /\ UNCHANGED <<op, op_dev, exit_i>> /\ Detach(exit_i)
        /\ devs' = [devs EXCEPT ![exit_i] = pcie_entry_detach_pdev(@)]
    BY <1>t, <1>5, PlatformAssumption DEF ExitRelease, pcie_release_dev_begin, Slot
  <2>2. /\ EntriesOK' /\ RefsBalanced'
        /\ devs'[exit_i].pdev = NULL /\ \A u \in Slot : u # exit_i => devs'[u] = devs[u]
        /\ \A u \in Slot : devs'[u].in_use = devs[u].in_use
        /\ \A d \in Dev : bus'[d] = "present" <=> bus[d] = "present"
    BY <2>1, LDetach
  <2>3. PdevOnBus' /\ ExitOK'
    BY <2>1, <2>2 DEF LInv, PdevOnBus, ExitOK, Registered
  <2>4. BusOK'
    BY <1>t, <2>1, <2>2 DEF LInv, BusOK
  <2>5. LeavingOK'
    BY <2>1, <2>2 DEF LInv, LeavingOK, Registered, OnSlot
  <2> QED
    BY <2>2, <2>3, <2>4, <2>5 DEF LInv
<1>6. CASE ExitRundown
  <2>1. /\ mod = "rundown" /\ mod' = "release" /\ exit_i \in Slot /\ exit_i' = exit_i + 1
        /\ UNCHANGED <<bus, refs, op, op_dev>> /\ devs[exit_i].pdev = NULL
        /\ devs' = [devs EXCEPT ![exit_i] = FreeEntry]
    BY <1>6 DEF ExitRundown, pcie_release_dev_end, coreVars, IInv, RundownTimerOff,
                LInv, LeavingOK
  <2>2. devs'[exit_i] = FreeEntry /\ \A u \in Slot : u # exit_i => devs'[u] = devs[u]
    BY <1>t, <2>1
  <2>3. \A u \in Slot : devs'[u].pdev = devs[u].pdev
    BY <2>1, <2>2, FreeOK
  <2>4. EntriesOK' /\ PdevOnBus' /\ BusOK'
    BY <2>1, <2>2, FreeOK DEF LInv, EntriesOK, PdevOnBus, BusOK, Registered
  <2>5. RefsBalanced'
    BY <2>1, <2>3 DEF LInv, RefsBalanced
  <2>6. LeavingOK'
    BY <2>1, <2>3 DEF LInv, LeavingOK, Registered, OnSlot
  <2>7. ExitOK'
    BY <1>t, <2>1, <2>2, FreeOK DEF LInv, ExitOK, Slot
  <2> QED
    BY <2>4, <2>5, <2>6, <2>7 DEF LInv
<1> QED
  BY <1>1, <1>2, <1>3, <1>4, <1>5, <1>6 DEF ModNext, ExitRelease

\* Every step keeps LInv.
LEMMA LNext == ASSUME Handled, IInv, LInv, [Next]_vars PROVE LInv'
<1>1. CASE UNCHANGED vars
  <2>1. \A s \in Slot : EntryOK(devs'[s])
    BY <1>1 DEF vars, LInv, EntriesOK
  <2> QED
    BY <1>1, <2>1, LCalm DEF vars
<1> QED
  BY <1>1, LAdd, LDel, LUsers, LMod DEF Next, BusNext

----------------------------------------------------------------------------
(* QuietOK holds at the start and is kept by every action.                 *)

\* A thread enters a handler only while the slot has its nodes, and the
\* firmware ioctl only while the module is in use; timeouts are only scheduled
\* then; nodes only go when nobody is inside.
LEMMA QStep ==
  ASSUME QuietOK, mod' = mod,
         Registered \/ \A s \in Slot : timer'[s] \/ worker'[s] => timer[s] \/ worker[s],
         \A s \in Slot : devs[s].proc_dir => devs'[s].proc_dir \/ ProcQuiet(s),
         \A t \in Thread :
           \/ th'[t] = th[t] \/ th'[t] = Idle
           \/ th'[t].op = th[t].op /\ th'[t].slot = th[t].slot /\ th[t].op # "none"
           \/ th'[t].op = "fw" /\ Registered
           \/ /\ th'[t].op \in {"rb", "info", "net"} /\ th'[t].slot \in Slot
              /\ devs'[th'[t].slot].proc_dir
  PROVE  QuietOK'
<1>i. Idle.op = "none"
  BY DEF Idle
<1>1. (mod \in {"release", "rundown", "unloaded"} =>
         \A s \in Slot : ~timer[s] /\ ~worker[s])'
  BY DEF QuietOK, Registered
<1>2. (~Registered => \A t \in Thread : th[t].op # "fw")'
  BY <1>i DEF QuietOK, Registered
<1>3. (\A t \in Thread : th[t].op \in {"rb", "info", "net"} =>
         th[t].slot \in Slot /\ devs[th[t].slot].proc_dir)'
  BY <1>i DEF QuietOK, ProcQuiet, InProc
<1>4. (\A t \in Thread : th[t].op = "none" => th[t] = Idle)'
  BY DEF QuietOK, Idle
<1> QED
  BY <1>1, <1>2, <1>3, <1>4 DEF QuietOK

\* The PCI core and the notifier.
LEMMA QBus ==
  ASSUME IInv, LInv, QuietOK, BusNext
  PROVE  QuietOK'
<1>t. /\ devs \in [Slot -> Entry] /\ \A s \in Slot : EntryOK(devs[s])
      /\ timer \in [Slot -> BOOLEAN] /\ th \in [Thread -> Call]
      /\ op \in {"add", "del", "rundown", "unlink"} => op_dev \in Dev
  BY DEF IInv, TypeOK, LInv, EntriesOK, OpHasDev
<1>c. ASSUME NEW s \in Slot, timer' = cancel_delayed_work(s)
      PROVE  \A u \in Slot : timer'[u] => timer[u]
  BY <1>t, <1>c DEF cancel_delayed_work
<1>1. CASE \E d \in Dev : BusScan(d) \/ BusRemove(d)
  BY <1>1, QStep DEF BusScan, BusRemove
<1>2. CASE BusAddNotify
  <2>0. UNCHANGED <<worker, mod, th>> /\ op_dev \in Dev /\ op = "add"
    BY <1>t, <1>2 DEF BusAddNotify
  <2>1. CASE UNCHANGED <<devs, refs, timer>>
    BY <2>0, <2>1, QStep
  <2>2. ASSUME NEW s \in Slot, Reconnects(op_dev, s), Registered,
               pcie_try_reconnect_booting_locked(op_dev, s)
        PROVE  QuietOK'
    <3>1. \A u \in Slot : devs'[u].proc_dir = devs[u].proc_dir
      BY <1>t, <2>2 DEF pcie_try_reconnect_booting_locked, Entry
    <3> QED
      BY <2>0, <2>2, <3>1, QStep
  <2>3. ASSUME NEW s \in Slot, Inits(op_dev, s), Registered, pcie_init_slot(op_dev, s)
        PROVE  QuietOK'
    <3>1. AddedEntry(op_dev).proc_dir
      BY <2>0, <2>3, AddedOK DEF Inits
    <3>2. \A u \in Slot : devs[u].proc_dir => devs'[u].proc_dir
      BY <1>t, <2>3, <3>1 DEF pcie_init_slot
    <3> QED
      BY <2>0, <2>3, <3>2, QStep
  <2> QED
    BY <1>2, <2>1, <2>2, <2>3 DEF BusAddNotify, pcie_handle_add_locked
<1>3. CASE BusDelNotify
  <2>0. UNCHANGED <<worker, mod, th>>
    BY <1>3 DEF BusDelNotify
  <2>1. CASE UNCHANGED <<bus, refs, devs, timer>>
    BY <2>0, <2>1, QStep
  <2>2. ASSUME NEW s \in Slot, devs' = [devs EXCEPT ![s] = pcie_entry_detach_pdev(@)],
               UNCHANGED timer \/ timer' = cancel_delayed_work(s)
        PROVE  QuietOK'
    <3>1. pcie_entry_detach_pdev(devs[s]).proc_dir = devs[s].proc_dir
      BY <1>t, DetachOK
    <3>2. \A u \in Slot : devs'[u].proc_dir = devs[u].proc_dir
      BY <1>t, <2>2, <3>1
    <3>3. \A u \in Slot : timer'[u] => timer[u]
      BY <1>c, <2>2
    <3> QED
      BY <2>0, <3>2, <3>3, QStep
  <2> QED
    BY <1>3, <2>1, <2>2 DEF BusDelNotify, pcie_handle_del_locked, pcie_release_dev_begin
<1>4. CASE BusDelRundown
  <2> PICK s \in Slot : OnSlot(op_dev, s) /\ ProcQuiet(s) /\ pcie_release_dev_end(s)
    BY <1>4 DEF BusDelRundown
  <2>1. \A u \in Slot : devs[u].proc_dir => devs'[u].proc_dir \/ ProcQuiet(u)
    BY <1>t DEF pcie_release_dev_end
  <2>2. UNCHANGED <<timer, worker, mod, th>>
    BY <1>4 DEF BusDelRundown
  <2> QED
    BY <2>1, <2>2, QStep
<1>5. CASE BusUnlink
  <2>1. \A t \in Thread : th'[t] = th[t] \/ th'[t] = Idle
    BY <1>t, <1>5 DEF BusUnlink
  <2>2. UNCHANGED <<devs, timer, worker, mod>>
    BY <1>5 DEF BusUnlink
  <2> QED
    BY <2>1, <2>2, QStep
<1> QED
  BY <1>1, <1>2, <1>3, <1>4, <1>5 DEF BusNext

\* The timeout, the ioctls and the proc nodes.
LEMMA QUsers ==
  ASSUME IInv, LInv, QuietOK, WorkNext \/ IoctlNext \/ ProcNext
  PROVE  QuietOK'
<1>t. /\ devs \in [Slot -> Entry] /\ \A s \in Slot : EntryOK(devs[s])
      /\ timer \in [Slot -> BOOLEAN] /\ worker \in [Slot -> BOOLEAN]
      /\ th \in [Thread -> Call]
  BY DEF IInv, TypeOK, LInv, EntriesOK
<1>s. \A t \in Thread : th[t].pc # "idle" => th[t].slot \in Slot
  BY DEF IInv, CallHasSlot
<1>1. ASSUME NEW s \in Slot, TimerFire(s) PROVE QuietOK'
  <2>1. \A u \in Slot : timer'[u] \/ worker'[u] => timer[u] \/ worker[u]
    BY <1>t, <1>1 DEF TimerFire
  <2>2. UNCHANGED <<devs, mod, th>>
    BY <1>1 DEF TimerFire, modVars
  <2> QED
    BY <2>1, <2>2, QStep
<1>2. ASSUME NEW s \in Slot, pcie_boot_timeout_fn(s) PROVE QuietOK'
  <2>0. TimedOut(devs[s]).proc_dir = devs[s].proc_dir
    BY <1>t DEF TimedOut, Entry
  <2>1. \A u \in Slot : timer'[u] \/ worker'[u] => timer[u] \/ worker[u]
    BY <1>t, <1>2 DEF pcie_boot_timeout_fn
  <2>2. \A u \in Slot : devs'[u].proc_dir = devs[u].proc_dir
    BY <1>t, <1>2, <2>0 DEF pcie_boot_timeout_fn
  <2>3. UNCHANGED <<mod, th>>
    BY <1>2 DEF pcie_boot_timeout_fn, modVars
  <2> QED
    BY <2>1, <2>2, <2>3, QStep
<1>3. CASE QueryPlatformInfo
  <2> PICK r \in [Slot -> MapResult] :
        devs' = [s \in Slot |-> pcie_query_dev_info_locked(devs[s], r[s])]
    BY <1>3 DEF QueryPlatformInfo
  <2>1. \A s \in Slot : devs'[s] = pcie_query_dev_info_locked(devs[s], r[s])
    OBVIOUS
  <2>2. \A s \in Slot : devs'[s].proc_dir = devs[s].proc_dir
    BY <1>t, <2>1, QueryOK
  <2>3. UNCHANGED <<timer, worker, mod, th>>
    BY <1>3 DEF QueryPlatformInfo, workVars, modVars
  <2> QED
    BY <2>2, <2>3, QStep
<1>4. ASSUME NEW s \in Slot, XferFirmwareFails(s) PROVE QuietOK'
  <2> PICK r \in MapResult :
        devs' = [devs EXCEPT ![s] = pcie_dev_refresh_board_info_locked(@, r)]
    BY <1>4 DEF XferFirmwareFails
  <2>1. pcie_dev_refresh_board_info_locked(devs[s], r).proc_dir = devs[s].proc_dir
    BY <1>t, RefreshOK
  <2>2. \A u \in Slot : devs'[u].proc_dir = devs[u].proc_dir
    BY <1>t, <2>1
  <2>3. UNCHANGED <<timer, worker, mod, th>>
    BY <1>4 DEF XferFirmwareFails, workVars, modVars
  <2> QED
    BY <2>2, <2>3, QStep
<1>5. ASSUME NEW t \in Thread, NEW s \in Slot, XferFirmware(t, s) PROVE QuietOK'
  <2> PICK r \in MapResult :
        devs' = [devs EXCEPT ![s] =
                   [pcie_dev_refresh_board_info_locked(devs[s], r) EXCEPT !.state = "BOOTING"]]
    BY <1>5 DEF XferFirmware
  <2> DEFINE e == pcie_dev_refresh_board_info_locked(devs[s], r)
             f == [e EXCEPT !.state = "BOOTING"]
  <2>1. e \in Entry /\ e.proc_dir = devs[s].proc_dir
    BY <1>t, RefreshOK, RefreshEntry
  <2>2. devs' = [devs EXCEPT ![s] = f]
    OBVIOUS
  <2> HIDE DEF e
  <2>3. f.proc_dir = e.proc_dir
    BY <2>1 DEF Entry
  <2> HIDE DEF f
  <2>4. \A u \in Slot : devs'[u].proc_dir = devs[u].proc_dir
    BY <1>t, <2>1, <2>2, <2>3
  <2>5. \A u \in Thread : th'[u] = th[u] \/ th'[u].op = "fw"
    BY <1>t, <1>5 DEF XferFirmware
  <2>6. Registered /\ mod' = mod
    BY <1>5 DEF XferFirmware, modVars
  <2> QED
    BY <2>4, <2>5, <2>6, QStep
<1>6. ASSUME NEW t \in Thread, FwCheck(t) \/ PdevLoad(t) \/ RemoveCall(t) \/ NetDeref(t)
      PROVE  QuietOK'
  <2>0. th[t].op # "none"
    BY <1>6 DEF FwCheck, PdevLoad, RemoveCall, NetDeref, QuietOK, Idle
  <2>1. UNCHANGED <<devs, timer, worker, mod>>
    BY <1>6 DEF FwCheck, PdevLoad, RemoveCall, NetDeref, workVars, modVars
  <2>2. \A u \in Thread : u # t => th'[u] = th[u]
    BY <1>t, <1>6 DEF FwCheck, PdevLoad, RemoveCall, NetDeref
  <2>3. th'[t] = Idle \/ (th'[t].op = th[t].op /\ th'[t].slot = th[t].slot)
    BY <1>t, <1>6 DEF FwCheck, PdevLoad, RemoveCall, NetDeref, Call
  <2> QED
    BY <2>0, <2>1, <2>2, <2>3, QStep
<1>7. ASSUME NEW t \in Thread, NEW s \in Slot,
             RebootEnter(t, s) \/ DevInfoEnter(t, s) \/ NetEnter(t, s)
      PROVE  QuietOK'
  <2>1. UNCHANGED <<devs, timer, worker, mod>> /\ devs[s].proc_dir
    BY <1>7 DEF RebootEnter, DevInfoEnter, NetEnter, EnterProc, workVars, modVars
  <2>2. \A u \in Thread : u # t => th'[u] = th[u]
    BY <1>t, <1>7 DEF RebootEnter, DevInfoEnter, NetEnter, EnterProc
  <2>3. th'[t].op \in {"rb", "info", "net"} /\ th'[t].slot = s
    BY <1>t, <1>7 DEF RebootEnter, DevInfoEnter, NetEnter, EnterProc
  <2> QED
    BY <2>1, <2>2, <2>3, QStep
<1>8. ASSUME NEW t \in Thread, DevInfoLocked(t) PROVE QuietOK'
  <2> DEFINE s == th[t].slot
  <2> PICK r \in MapResult :
        devs' = [devs EXCEPT ![s] = pcie_query_dev_info_locked(@, r)]
    BY <1>8 DEF DevInfoLocked
  <2>0. s \in Slot
    BY <1>s, <1>8 DEF DevInfoLocked
  <2>1. pcie_query_dev_info_locked(devs[s], r).proc_dir = devs[s].proc_dir
    BY <1>t, <2>0, QueryOK
  <2>2. \A u \in Slot : devs'[u].proc_dir = devs[u].proc_dir
    BY <1>t, <2>1
  <2>3. UNCHANGED <<timer, worker, mod>> /\ \A u \in Thread : th'[u] = th[u] \/ th'[u] = Idle
    BY <1>t, <1>8 DEF DevInfoLocked, workVars, modVars
  <2> QED
    BY <2>2, <2>3, QStep
<1>9. ASSUME NEW t \in Thread, RebootLocked(t) PROVE QuietOK'
  <2>1. UNCHANGED <<timer, worker, mod>> /\ th[t].op = "rb" /\ th[t].slot \in Slot
    BY <1>s, <1>9 DEF RebootLocked, workVars, modVars
  <2>2. \A u \in Slot : devs'[u].proc_dir = devs[u].proc_dir
    BY <1>t, <1>9, <2>1 DEF RebootLocked, Entry
  <2>3. \A u \in Thread : u # t => th'[u] = th[u]
    BY <1>t, <1>9 DEF RebootLocked
  <2>4. th'[t] = Idle \/ (th'[t].op = th[t].op /\ th'[t].slot = th[t].slot)
    BY <1>t, <1>9 DEF RebootLocked, Call
  <2> QED
    BY <2>1, <2>2, <2>3, <2>4, QStep
<1> QED
  BY <1>1, <1>2, <1>3, <1>4, <1>5, <1>6, <1>7, <1>8, <1>9 DEF WorkNext, IoctlNext, ProcNext

\* Module load and unload: the notifier, the open files, the work items and
\* the handlers are waited for in this order.
LEMMA QMod ==
  ASSUME IInv, LInv, QuietOK, ModNext
  PROVE  QuietOK'
<1>t. /\ devs \in [Slot -> Entry] /\ timer \in [Slot -> BOOLEAN]
      /\ exit_i \in 0 .. DevMax /\ DevMax \in Nat \ {0}
  BY PlatformAssumption DEF IInv, TypeOK
<1>1. ASSUME th' = th,
             \A s \in Slot : devs[s].proc_dir => devs'[s].proc_dir \/ ProcQuiet(s),
             mod' \in {"release", "rundown", "unloaded"} =>
               \A s \in Slot : ~timer'[s] /\ ~worker'[s],
             mod' \in {"registered", "live"} \/ \A t \in Thread : th[t].op # "fw"
      PROVE  QuietOK'
  <2>1. (\A t \in Thread : th[t].op \in {"rb", "info", "net"} =>
           th[t].slot \in Slot /\ devs[th[t].slot].proc_dir)'
    BY <1>1 DEF QuietOK, ProcQuiet, InProc
  <2>2. (\A t \in Thread : th[t].op = "none" => th[t] = Idle)'
    BY <1>1 DEF QuietOK, Idle
  <2> QED
    BY <1>1, <2>1, <2>2 DEF QuietOK, Registered
<1>2. CASE ModuleInit
  <2>1. \A s \in Slot : ~devs[s].proc_dir
    BY <1>2, UnusedSlot, FreeOK DEF ModuleInit, LInv, ExitOK
  <2> QED
    BY <1>1, <1>2, <2>1 DEF ModuleInit
<1>3. CASE pcie_enumerate_existed_devs
  <2>1. \A s \in Slot : devs[s].proc_dir => devs[s].in_use
    BY UnusedSlot, FreeOK
  <2>2. \A s \in Slot : devs[s].in_use => devs'[s] = devs[s]
    BY <1>3 DEF pcie_enumerate_existed_devs
  <2>3. mod' = "live" /\ th' = th
    BY <1>3 DEF pcie_enumerate_existed_devs
  <2> QED
    BY <1>1, <2>1, <2>2, <2>3
<1>4. CASE ExitUnregister
  BY <1>1, <1>4 DEF ExitUnregister
<1>5. CASE ExitCancelSync
  BY <1>1, <1>5 DEF ExitCancelSync, QuietOK, Registered
<1>6. CASE ExitRelease
  <2>1. /\ mod = "release" /\ mod' \in {"release", "rundown"} /\ UNCHANGED <<worker, th>>
        /\ exit_i \in Slot
    BY <1>t, <1>6 DEF ExitRelease, Slot
  <2>2. \A s \in Slot : timer'[s] => timer[s]
    BY <1>t, <1>6 DEF ExitRelease, pcie_release_dev_begin, cancel_delayed_work
  <2>3. pcie_entry_detach_pdev(devs[exit_i]).proc_dir = devs[exit_i].proc_dir
    BY <1>t, <2>1, DetachOK DEF LInv, EntriesOK
  <2>4. \A s \in Slot : devs'[s].proc_dir = devs[s].proc_dir
    BY <1>t, <1>6, <2>3 DEF ExitRelease, pcie_release_dev_begin
  <2> QED
    BY <1>1, <2>1, <2>2, <2>4 DEF QuietOK, Registered
<1>7. CASE ExitRundown
  <2>1. /\ mod = "rundown" /\ mod' = "release" /\ UNCHANGED <<timer, worker, th>>
        /\ ProcQuiet(exit_i) /\ devs' = [devs EXCEPT ![exit_i] = FreeEntry]
    BY <1>7 DEF ExitRundown, pcie_release_dev_end, workVars
  <2> QED
    BY <1>t, <1>1, <2>1 DEF QuietOK, Registered
<1>8. CASE ExitDone
  BY <1>1, <1>8 DEF ExitDone, workVars, QuietOK, Registered
<1> QED
  BY <1>2, <1>3, <1>4, <1>5, <1>6, <1>7, <1>8 DEF ModNext

\* Every step keeps QuietOK.
LEMMA QNext == ASSUME IInv, LInv, QuietOK, [Next]_vars PROVE QuietOK'
<1>1. CASE UNCHANGED vars
  BY <1>1, QStep DEF vars
<1> QED
  BY <1>1, QBus, QUsers, QMod DEF Next

----------------------------------------------------------------------------
(* The results.                                                            *)

\* The inductive invariant of this module.
THEOREM LifetimeInvariant ==
  ASSUME Handled PROVE Spec => [](IInv /\ LInv /\ QuietOK)
<1>1. Init => IInv /\ LInv /\ QuietOK
  <2>1. Init => QuietOK
    BY DEF Init, QuietOK, Idle, Registered
  <2> QED
    BY <2>1, InitInv, LInit
<1>2. IInv /\ LInv /\ QuietOK /\ [Next]_vars => (IInv /\ LInv /\ QuietOK)'
  BY NextInv, LNext, QNext
<1> QED
  BY <1>1, <1>2, PTL DEF Spec

\* pci_dev_get and pci_dev_put pair up: one reference on every device a slot
\* points to, none on any other, through every interleaving of hot-plug,
\* firmware boot, reboot, timeout and unload.
THEOREM ReferencesBalanced ==
  ASSUME Handled PROVE Spec => []RefsBalanced
<1>1. LInv => RefsBalanced
  BY DEF LInv
<1> QED
  BY <1>1, LifetimeInvariant, PTL

\* pci_iounmap is always given the device the BAR was mapped from, and no
\* mapping outlives the slot's hold on its device.
THEOREM MappingsOwned ==
  ASSUME Handled PROVE Spec => []MappedOwn
<1>1. LInv => MappedOwn
  BY DEF LInv, EntriesOK, EntryOK, MappedOwn
<1> QED
  BY <1>1, LifetimeInvariant, PTL

\* The state a slot reports fits the function it points to, and board data
\* shown before the boot is that of the card in the slot.
THEOREM StateFitsFunction ==
  ASSUME Handled PROVE Spec => []KindMatchesState
<1>1. LInv => KindMatchesState
  BY DEF LInv, EntriesOK, EntryOK, KindMatchesState
<1> QED
  BY <1>1, LifetimeInvariant, PTL

\* While the driver listens, no slot points to a device that has left the bus.
THEOREM DevicesOnBus ==
  ASSUME Handled PROVE Spec => []PdevOnBus
<1>1. LInv => PdevOnBus
  BY DEF LInv
<1> QED
  BY <1>1, LifetimeInvariant, PTL

\* WARN_ONCE in pcie_try_reconnect_booting_locked is never reached.
THEOREM ReconnectClean ==
  ASSUME Handled PROVE Spec => []ReconnectWithoutPdev
<1>1. IInv /\ LInv => ReconnectWithoutPdev
  BY NoPdevOnReconnect DEF ReconnectWithoutPdev
<1> QED
  BY <1>1, LifetimeInvariant, PTL

\* When amba_pci_platform_exit has returned no work item, no thread, no slot
\* and no reference of the module is left.
THEOREM UnloadComplete ==
  ASSUME Handled PROVE Spec => []UnloadQuiescent
<1>1. IInv /\ LInv /\ QuietOK => UnloadQuiescent
  <2> SUFFICES ASSUME IInv, LInv, QuietOK, mod = "unloaded"
               PROVE  /\ \A s \in Slot : ~timer[s] /\ ~worker[s] /\ ~devs[s].in_use
                      /\ \A t \in Thread : th[t] = Idle
                      /\ \A d \in Dev : refs[d] = 0
    BY DEF UnloadQuiescent
  <2>1. \A s \in Slot : ~devs[s].in_use /\ devs[s].pdev = NULL /\ ~devs[s].proc_dir
    BY UnusedSlot, FreeOK DEF LInv, ExitOK
  <2>2. \A t \in Thread : th[t] = Idle
    <3>1. \A t \in Thread : th[t].op \in {"none", "fw", "rb", "info", "net"}
      BY DEF IInv, TypeOK, Call
    <3> QED
      BY <2>1, <3>1 DEF QuietOK, Registered
  <2>3. \A d \in Dev : refs[d] = 0
    BY <2>1, PlatformAssumption DEF LInv, RefsBalanced
  <2> QED
    BY <2>1, <2>2, <2>3 DEF QuietOK
<1> QED
  BY <1>1, LifetimeInvariant, PTL

----------------------------------------------------------------------------
(* The pointer that the firmware ioctl and the reboot node load without    *)
(* the lock.                                                               *)

\* Devices leave only through this driver, the module stays, and the readers
\* of net and dev_log, who hold nothing at all, are left out.
OnlyOwnRemovals == Env = {} /\ "net" \notin ProcOps

\* A call that is past its locked part and is about to remove, or is removing,
\* the device of its slot.
Remover(c) == c.op = "fw" \/ (c.op = "rb" /\ c.pc # "lock")

\* What the locked part of the call left the slot in, or what the timeout made
\* of it since.
SentOff(c, e) ==
  e.state \in IF c.op = "fw" THEN {"BOOTING", "BOOT_FAILED"} ELSE {"REBOOTING"}

\* Until a removal has been announced its slot keeps the device, which is the
\* one the thread has loaded; once it is done with the slot the device is gone.
RemoverOK(t) ==
  LET c == th[t]
      e == devs[c.slot]
  IN
  /\ c.slot \in Slot
  /\ c.pc \in {"check", "load", "call", "remove"}
  /\ c.pc # "remove" \/ op = "del" => e.pdev # NULL /\ SentOff(c, e)
  /\ c.pc = "call" => c.ptr = e.pdev
  /\ c.pc = "remove" =>
       /\ op \in {"del", "rundown", "unlink"} /\ op_by = t /\ OnSlot(op_dev, c.slot)
       /\ op = "del" => e.pdev = op_dev
       /\ op = "unlink" => e.pdev = NULL

\* Calls that do not remove anything wait for the lock, if for anything.
BystanderOK(c) ==
  c.op # "net" /\ (c.op \in {"rb", "info"} => c.pc = "lock")

\* A slot has one remover at most, and every hot-remove is one's own.
PInv ==
  /\ mod \in {"unloaded", "registered", "live"}
  /\ op # "dead"
  /\ op \in {"del", "rundown", "unlink"} =>
       op_by \in Thread /\ Remover(th[op_by]) /\ th[op_by].pc = "remove"
  /\ \A t \in Thread : IF Remover(th[t]) THEN RemoverOK(t) ELSE BystanderOK(th[t])
  /\ \A t, u \in Thread :
       Remover(th[t]) /\ Remover(th[u]) /\ th[t].slot = th[u].slot => t = u

\* Before the module is loaded nobody is inside it.
LEMMA PInit == Init => PInv
  BY IdleType DEF Init, PInv, Remover, BystanderOK

\* While a remover has the device of its slot, the driver is loaded and listens.
LEMMA PListens ==
  ASSUME IInv, LInv, PInv, NEW s \in Slot, devs[s].pdev # NULL
  PROVE  Registered /\ devs[s].in_use /\ devs[s].pdev \in Dev
<1>1. devs[s].in_use /\ devs[s].pdev \in Dev
  BY DEF LInv, EntriesOK, EntryOK, IInv, TypeOK, Entry, OrNull
<1> QED
  BY <1>1 DEF LInv, ExitOK, PInv, Registered

\* Steps that leave the removers where they are, and their slots with the
\* same device in the same state but for a timeout.
LEMMA PKeep ==
  ASSUME IInv, PInv, mod' \in {"unloaded", "registered", "live"},
         \/ UNCHANGED <<op, op_dev, op_by>>
         \/ {op, op'} \subseteq {"none", "add"},
         \A t \in Thread : \/ th'[t] = th[t]
                           \/ /\ Remover(th[t]) => th[t].pc # "remove"
                              /\ ~Remover(th'[t]) /\ BystanderOK(th'[t]),
         \A t \in Thread : Remover(th[t]) =>
           LET s == th[t].slot IN
           /\ devs'[s].pdev = devs[s].pdev
           /\ \/ devs'[s].state = devs[s].state
              \/ devs[s].state = "BOOTING" /\ devs'[s].state = "BOOT_FAILED"
  PROVE  PInv'
<1>1. ASSUME NEW t \in Thread, Remover(th'[t])
      PROVE  th'[t] = th[t] /\ RemoverOK(t)'
  <2>1. th'[t] = th[t] /\ Remover(th[t]) /\ RemoverOK(t)
    BY <1>1 DEF PInv
  <2>2. /\ devs'[th[t].slot].pdev = devs[th[t].slot].pdev
        /\ SentOff(th[t], devs[th[t].slot]) => SentOff(th[t], devs'[th[t].slot])
    BY <2>1 DEF SentOff
  <2> QED
    BY <2>1, <2>2 DEF RemoverOK, OnSlot
<1>2. (\A t \in Thread : IF Remover(th[t]) THEN RemoverOK(t) ELSE BystanderOK(th[t]))'
  BY <1>1 DEF PInv
<1>3. (\A t, u \in Thread :
         Remover(th[t]) /\ Remover(th[u]) /\ th[t].slot = th[u].slot => t = u)'
  BY <1>1 DEF PInv
<1>4. (op # "dead" /\ (op \in {"del", "rundown", "unlink"} =>
         op_by \in Thread /\ Remover(th[op_by]) /\ th[op_by].pc = "remove"))'
  BY DEF PInv
<1> QED
  BY <1>2, <1>3, <1>4 DEF PInv

\* The locked part of a call makes its thread a remover: nobody else is one on
\* a slot that waits for firmware, or is connected, with its device.
LEMMA PStart ==
  ASSUME IInv, PInv, NEW t \in Thread, NEW s \in Slot, NEW c \in Call, LockFree,
         ~Remover(th[t]), devs[s].pdev # NULL,
         devs[s].state \in {"DISCONNECTED", "CONNECTED"},
         Remover(c), c.slot = s, c.pc \in {"check", "load"}, SentOff(c, devs'[s]),
         th' = [th EXCEPT ![t] = c], devs'[s].pdev = devs[s].pdev,
         \A u \in Slot : u # s => devs'[u] = devs[u],
         UNCHANGED <<op, op_dev, op_by, mod>>
  PROVE  PInv'
<1>t. th'[t] = c /\ \A u \in Thread : u # t => th'[u] = th[u]
  BY DEF IInv, TypeOK
<1>1. ASSUME NEW u \in Thread, Remover(th[u])
      PROVE  u # t /\ th[u].slot # s /\ RemoverOK(u) /\ RemoverOK(u)'
  <2>1. RemoverOK(u) /\ u # t
    BY <1>1 DEF PInv
  <2>2. th[u].slot # s
    BY <2>1 DEF RemoverOK, SentOff, LockFree
  <2> QED
    BY <1>t, <2>1, <2>2 DEF RemoverOK, SentOff, OnSlot
<1>2. RemoverOK(t)'
  BY <1>t DEF RemoverOK, SentOff
<1>3. (\A u \in Thread : IF Remover(th[u]) THEN RemoverOK(u) ELSE BystanderOK(th[u]))'
  BY <1>t, <1>1, <1>2 DEF PInv
<1>4. (\A u, v \in Thread :
         Remover(th[u]) /\ Remover(th[v]) /\ th[u].slot = th[v].slot => u = v)'
  BY <1>t, <1>1 DEF PInv
<1>5. (op \in {"del", "rundown", "unlink"} =>
         op_by \in Thread /\ Remover(th[op_by]) /\ th[op_by].pc = "remove")'
  BY <1>t DEF PInv
<1> QED
  BY <1>3, <1>4, <1>5 DEF PInv

\* A remover on its way from the unlock to the call.
LEMMA PMove ==
  ASSUME IInv, PInv, NEW t \in Thread, NEW c \in Call,
         Remover(th[t]), th[t].pc # "remove",
         Remover(c), c.op = th[t].op, c.slot = th[t].slot, c.pc \in {"load", "call"},
         c.pc = "call" => c.ptr = devs[c.slot].pdev,
         th' = [th EXCEPT ![t] = c], UNCHANGED <<devs, op, op_dev, op_by, mod>>
  PROVE  PInv'
<1>t. th'[t] = c /\ \A u \in Thread : u # t => th'[u] = th[u]
  BY DEF IInv, TypeOK
<1>1. RemoverOK(t)'
  BY <1>t DEF PInv, RemoverOK, SentOff
<1>2. ASSUME NEW u \in Thread, u # t, Remover(th[u]) PROVE RemoverOK(u)'
  BY <1>t, <1>2 DEF PInv, RemoverOK, SentOff, OnSlot
<1>3. (\A u \in Thread : IF Remover(th[u]) THEN RemoverOK(u) ELSE BystanderOK(th[u]))'
  BY <1>t, <1>1, <1>2 DEF PInv
<1>4. (\A u, v \in Thread :
         Remover(th[u]) /\ Remover(th[v]) /\ th[u].slot = th[v].slot => u = v)'
  BY <1>t DEF PInv
<1>5. (op \in {"del", "rundown", "unlink"} =>
         op_by \in Thread /\ Remover(th[op_by]) /\ th[op_by].pc = "remove")'
  BY <1>t DEF PInv
<1> QED
  BY <1>3, <1>4, <1>5 DEF PInv

\* Hot-add leaves a slot that has a remover alone: it has its device until the
\* removal starts, and no device is announced between that and the unlink.
LEMMA PAdd ==
  ASSUME OnlyOwnRemovals, IInv, LInv, PInv, BusAddNotify \/ \E d \in Dev : BusScan(d)
  PROVE  PInv'
<1>t. devs \in [Slot -> Entry]
  BY DEF IInv, TypeOK
<1>1. op \in {"none", "add"} /\ op' \in {"none", "add"} /\ UNCHANGED <<mod, th>>
  BY DEF BusAddNotify, BusScan
<1>2. ASSUME NEW t \in Thread, Remover(th[t])
      PROVE  /\ devs'[th[t].slot].pdev = devs[th[t].slot].pdev
             /\ devs'[th[t].slot].state = devs[th[t].slot].state
  <2> DEFINE s == th[t].slot
  <2>1. s \in Slot /\ devs[s].pdev # NULL
    BY <1>1, <1>2 DEF PInv, RemoverOK
  <2>2. devs[s].in_use /\ Registered
    BY <2>1, PListens
  <2> HIDE DEF s
  <2>3. ASSUME NEW u \in Slot, BusAddNotify, Reconnects(op_dev, u),
               pcie_try_reconnect_booting_locked(op_dev, u)
        PROVE  devs'[s] = devs[s]
    <3>1. devs[u].pdev = NULL
      BY <2>2, <2>3, NoPdevOnReconnect DEF BusAddNotify
    <3>2. devs' = [devs EXCEPT ![u].pdev = op_dev, ![u].state = "CONNECTED"] /\ u # s
      BY <2>1, <2>3, <3>1 DEF pcie_try_reconnect_booting_locked
    <3> QED
      BY <1>t, <2>1, <3>2
  <2>4. ASSUME NEW u \in Slot, Inits(op_dev, u), pcie_init_slot(op_dev, u)
        PROVE  devs'[s] = devs[s]
    <3>1. devs' = [devs EXCEPT ![u] = AddedEntry(op_dev)] /\ u # s
      BY <2>2, <2>4 DEF Inits, pcie_init_slot
    <3> QED
      BY <1>t, <2>1, <3>1
  <2>5. devs'[s] = devs[s]
    <3>1. CASE devs' = devs
      BY <3>1
    <3> QED
      BY <2>3, <2>4, <3>1 DEF BusAddNotify, BusScan, pcie_handle_add_locked
  <2> QED
    BY <2>5 DEF s
<1> QED
  BY <1>1, <1>2, PKeep DEF PInv

\* A removal that is announced takes the device of its own slot.
LEMMA PDelNotify ==
  ASSUME IInv, LInv, PInv, BusDelNotify
  PROVE  PInv'
<1> DEFINE o == op_by
           s == th[o].slot
<1>t. devs \in [Slot -> Entry]
  BY DEF IInv, TypeOK
<1>1. /\ op = "del" /\ o \in Thread /\ Remover(th[o]) /\ th[o].pc = "remove"
      /\ UNCHANGED <<op_dev, op_by, mod, th>>
  BY DEF BusDelNotify, PInv
<1>2. s \in Slot /\ devs[s].pdev = op_dev /\ OnSlot(op_dev, s) /\ devs[s].pdev # NULL
  BY <1>1 DEF PInv, RemoverOK
<1>3. Registered /\ devs[s].in_use /\ op_dev \in Dev
  BY <1>2, PListens
<1> HIDE DEF o, s
<1>4. PICK u \in Slot : /\ OnSlot(op_dev, u) /\ op' \in {"rundown", "unlink"}
                        /\ devs' = [devs EXCEPT ![u] = pcie_entry_detach_pdev(@)]
  BY <1>2, <1>3 DEF BusDelNotify, pcie_handle_del_locked, pcie_release_dev_begin
<1>5. u = s
  BY <1>2, <1>3, <1>4, SlotUnique
<1>6. /\ devs'[s].pdev = NULL
      /\ \A v \in Slot : v # s => devs'[v] = devs[v]
  BY <1>t, <1>4, <1>5, DetachEntry
<1>7. ASSUME NEW t \in Thread, Remover(th[t]) PROVE RemoverOK(t)'
  <2>1. CASE t = o
    BY <1>1, <1>2, <1>4, <1>6, <1>7, <2>1 DEF PInv, RemoverOK, SentOff, OnSlot, s, o
  <2>2. CASE t # o
    <3>1. RemoverOK(t) /\ th[t].slot # s
      BY <1>1, <1>7, <2>2 DEF PInv, s
    <3>2. th[t].pc # "remove"
      BY <2>2, <3>1 DEF RemoverOK, o
    <3> QED
      BY <1>1, <1>6, <3>1, <3>2 DEF RemoverOK, SentOff, OnSlot
  <2> QED
    BY <2>1, <2>2
<1> QED
  BY <1>1, <1>4, <1>7 DEF PInv, o

\* The proc nodes have gone and the slot is blank.
LEMMA PDelRundown ==
  ASSUME IInv, PInv, BusDelRundown
  PROVE  PInv'
<1> DEFINE o == op_by
           s == th[o].slot
<1>t. devs \in [Slot -> Entry] /\ op_dev \in Dev
  BY DEF IInv, TypeOK, OpHasDev, BusDelRundown
<1>1. /\ op = "rundown" /\ op' = "unlink"
      /\ o \in Thread /\ Remover(th[o]) /\ th[o].pc = "remove"
      /\ UNCHANGED <<op_dev, op_by, mod, th>>
  BY DEF BusDelRundown, PInv
<1>2. s \in Slot /\ OnSlot(op_dev, s)
  BY <1>1 DEF PInv, RemoverOK
<1> HIDE DEF o, s
<1>3. PICK u \in Slot : OnSlot(op_dev, u) /\ devs' = [devs EXCEPT ![u] = FreeEntry]
  BY DEF BusDelRundown, pcie_release_dev_end
<1>4. u = s
  BY <1>t, <1>2, <1>3, SlotUnique
<1>5. devs'[s].pdev = NULL /\ \A v \in Slot : v # s => devs'[v] = devs[v]
  BY <1>t, <1>3, <1>4, FreeOK
<1>6. ASSUME NEW t \in Thread, Remover(th[t]) PROVE RemoverOK(t)'
  <2>1. CASE t = o
    BY <1>1, <1>2, <1>5, <1>6, <2>1 DEF PInv, RemoverOK, SentOff, OnSlot, s, o
  <2>2. CASE t # o
    <3>1. RemoverOK(t) /\ th[t].slot # s
      BY <1>1, <1>6, <2>2 DEF PInv, s
    <3>2. th[t].pc # "remove"
      BY <2>2, <3>1 DEF RemoverOK, o
    <3> QED
      BY <1>1, <1>5, <3>1, <3>2 DEF RemoverOK, SentOff, OnSlot
  <2> QED
    BY <2>1, <2>2
<1> QED
  BY <1>1, <1>6 DEF PInv, o

\* pci_stop_and_remove_bus_device_locked returns to its caller.
LEMMA PUnlink ==
  ASSUME IInv, PInv, BusUnlink
  PROVE  PInv'
<1>1. /\ op = "unlink" /\ op' = "none" /\ UNCHANGED <<devs, mod>>
      /\ op_by \in Thread /\ th' = [th EXCEPT ![op_by] = Idle]
  BY PlatformAssumption DEF BusUnlink, PInv
<1>2. th'[op_by] = Idle /\ \A t \in Thread : t # op_by => th'[t] = th[t]
  BY <1>1 DEF IInv, TypeOK
<1>3. ~Remover(Idle) /\ BystanderOK(Idle)
  BY DEF Idle, Remover, BystanderOK
<1>4. ASSUME NEW t \in Thread, Remover(th'[t])
      PROVE  t # op_by /\ th'[t] = th[t] /\ RemoverOK(t) /\ th[t].pc # "remove"
  BY <1>1, <1>2, <1>3, <1>4 DEF PInv, RemoverOK
<1>5. (\A t \in Thread : IF Remover(th[t]) THEN RemoverOK(t) ELSE BystanderOK(th[t]))'
  <2>1. \A t \in Thread : Remover(th'[t]) => RemoverOK(t)'
    BY <1>1, <1>4 DEF RemoverOK, SentOff
  <2> QED
    BY <1>2, <1>3, <2>1 DEF PInv
<1>6. (\A t, u \in Thread :
         Remover(th[t]) /\ Remover(th[u]) /\ th[t].slot = th[u].slot => t = u)'
  BY <1>4 DEF PInv
<1> QED
  BY <1>1, <1>5, <1>6 DEF PInv

\* The timeout, queries, failed requests and the calls that remove nothing.
LEMMA PCalm ==
  ASSUME OnlyOwnRemovals, IInv, LInv, QuietOK, PInv,
         \/ WorkNext
         \/ QueryPlatformInfo
         \/ \E s \in Slot : XferFirmwareFails(s)
         \/ \E t \in Thread, s \in Slot :
              RebootEnter(t, s) \/ DevInfoEnter(t, s) \/ NetEnter(t, s)
         \/ \E t \in Thread : DevInfoLocked(t) \/ NetDeref(t)
  PROVE  PInv'
<1>t. devs \in [Slot -> Entry] /\ th \in [Thread -> Call] /\ CallHasSlot
  BY DEF IInv, TypeOK
<1>i. ~Remover(Idle) /\ BystanderOK(Idle)
  BY DEF Idle, Remover, BystanderOK
<1>s. \A t \in Thread : Remover(th[t]) => th[t].slot \in Slot
  BY DEF PInv, RemoverOK
<1>1. ASSUME th' = th, UNCHANGED <<op, op_dev, op_by, mod>>,
             \A s \in Slot : /\ devs'[s].pdev = devs[s].pdev
                             /\ \/ devs'[s].state = devs[s].state
                                \/ devs[s].state = "BOOTING" /\ devs'[s].state = "BOOT_FAILED"
      PROVE  PInv'
  BY <1>1, <1>s, PKeep DEF PInv
<1>2. ASSUME NEW t \in Thread, NEW c \in Call, th' = [th EXCEPT ![t] = c],
             ~Remover(th[t]), ~Remover(c), BystanderOK(c), UNCHANGED <<op, op_dev, op_by, mod>>,
             \A s \in Slot : devs'[s].pdev = devs[s].pdev /\ devs'[s].state = devs[s].state
      PROVE  PInv'
  <2>1. th'[t] = c /\ \A u \in Thread : u # t => th'[u] = th[u]
    BY <1>t, <1>2
  <2> QED
    BY <1>2, <1>s, <2>1, PKeep DEF PInv
<1>3. CASE WorkNext
  <2> PICK s \in Slot : TimerFire(s) \/ pcie_boot_timeout_fn(s)
    BY <1>3 DEF WorkNext
  <2>1. CASE TimerFire(s)
    BY <1>1, <2>1 DEF TimerFire, coreVars, modVars
  <2>2. CASE pcie_boot_timeout_fn(s)
    <3> DEFINE f == TimedOut(devs[s])
    <3>1. /\ f.pdev = devs[s].pdev
          /\ \/ f.state = devs[s].state
             \/ devs[s].state = "BOOTING" /\ f.state = "BOOT_FAILED"
      BY <1>t DEF TimedOut, Entry, State, OrNull
    <3>2. /\ devs' = [devs EXCEPT ![s] = f]
          /\ UNCHANGED <<op, op_dev, op_by, mod, th>>
      BY <2>2 DEF pcie_boot_timeout_fn, coreVars, modVars
    <3> HIDE DEF f
    <3> QED
      BY <1>t, <1>1, <3>1, <3>2
  <2> QED
    BY <2>1, <2>2
<1>4. CASE QueryPlatformInfo
  <2> PICK r \in [Slot -> MapResult] :
        devs' = [s \in Slot |-> pcie_query_dev_info_locked(devs[s], r[s])]
    BY <1>4 DEF QueryPlatformInfo
  <2>1. \A s \in Slot : devs'[s].pdev = devs[s].pdev /\ devs'[s].state = devs[s].state
    BY <1>t, QueryEntry
  <2> QED
    BY <1>1, <1>4, <2>1 DEF QueryPlatformInfo, coreVars, modVars
<1>5. ASSUME NEW s \in Slot, XferFirmwareFails(s) PROVE PInv'
  <2> PICK r \in MapResult :
        devs' = [devs EXCEPT ![s] = pcie_dev_refresh_board_info_locked(@, r)]
    BY <1>5 DEF XferFirmwareFails
  <2> DEFINE f == pcie_dev_refresh_board_info_locked(devs[s], r)
  <2>1. f.pdev = devs[s].pdev /\ f.state = devs[s].state /\ devs' = [devs EXCEPT ![s] = f]
    BY <1>t, RefreshEntry
  <2> HIDE DEF f
  <2>2. \A u \in Slot : devs'[u].pdev = devs[u].pdev /\ devs'[u].state = devs[u].state
    BY <1>t, <2>1
  <2> QED
    BY <1>1, <1>5, <2>2 DEF XferFirmwareFails, coreVars, modVars
<1>6. ASSUME NEW t \in Thread, NEW s \in Slot, NEW o \in {"rb", "info"}, EnterProc(t, s, o, "lock")
      PROVE  PInv'
  <2> DEFINE c == [op |-> o, pc |-> "lock", slot |-> s, ptr |-> NULL]
  <2>1. c \in Call /\ ~Remover(c) /\ BystanderOK(c)
    BY DEF Call, OrNull, Remover, BystanderOK
  <2>2. th' = [th EXCEPT ![t] = c] /\ th[t] = Idle /\ UNCHANGED <<devs, op, op_dev, op_by, mod>>
    BY <1>6 DEF EnterProc, coreVars, modVars
  <2> HIDE DEF c
  <2> QED
    BY <1>2, <1>i, <2>1, <2>2
<1>7. ASSUME NEW t \in Thread, DevInfoLocked(t) PROVE PInv'
  <2> DEFINE s == th[t].slot
  <2> PICK r \in MapResult :
        devs' = [devs EXCEPT ![s] = pcie_query_dev_info_locked(@, r)]
    BY <1>7 DEF DevInfoLocked
  <2> DEFINE f == pcie_query_dev_info_locked(devs[s], r)
  <2>0. s \in Slot /\ ~Remover(th[t])
    BY <1>t, <1>7 DEF DevInfoLocked, CallHasSlot, Remover
  <2>1. f.pdev = devs[s].pdev /\ f.state = devs[s].state /\ devs' = [devs EXCEPT ![s] = f]
    BY <1>t, <2>0, QueryEntry
  <2>2. th' = [th EXCEPT ![t] = Idle] /\ UNCHANGED <<op, op_dev, op_by, mod>>
    BY <1>7 DEF DevInfoLocked, coreVars, modVars
  <2> HIDE DEF f, s
  <2>3. \A u \in Slot : devs'[u].pdev = devs[u].pdev /\ devs'[u].state = devs[u].state
    BY <1>t, <2>1
  <2> QED
    BY <1>2, <1>i, <2>0, <2>2, <2>3, IdleType
<1>8. ASSUME NEW t \in Thread, NetDeref(t) PROVE FALSE
  BY <1>8 DEF NetDeref, PInv, BystanderOK, Remover
<1> QED
  BY <1>3, <1>4, <1>5, <1>6, <1>7, <1>8
     DEF RebootEnter, DevInfoEnter, NetEnter, OnlyOwnRemovals

\* The two calls that remove a device: the locked part, which finds the slot
\* with its device and nobody else at it, and the steps after the unlock.
LEMMA PCalls ==
  ASSUME IInv, LInv, QuietOK, PInv, NEW t \in Thread,
         \/ \E s \in Slot : XferFirmware(t, s)
         \/ FwCheck(t) \/ PdevLoad(t) \/ RemoveCall(t) \/ RebootLocked(t)
  PROVE  PInv'
<1>t. devs \in [Slot -> Entry] /\ th \in [Thread -> Call] /\ CallHasSlot
  BY DEF IInv, TypeOK
<1>i. ~Remover(Idle) /\ BystanderOK(Idle)
  BY DEF Idle, Remover, BystanderOK
<1>1. ASSUME NEW s \in Slot, XferFirmware(t, s) PROVE PInv'
  <2> DEFINE c == [op |-> "fw", pc |-> "check", slot |-> s, ptr |-> NULL]
  <2> PICK r \in MapResult :
        LET e == pcie_dev_refresh_board_info_locked(devs[s], r) IN
        /\ e.boot_mem_base # NULL
        /\ devs' = [devs EXCEPT ![s] = [e EXCEPT !.state = "BOOTING"]]
    BY <1>1 DEF XferFirmware
  <2> DEFINE e == pcie_dev_refresh_board_info_locked(devs[s], r)
             f == [e EXCEPT !.state = "BOOTING"]
  <2>1. e \in Entry /\ e.pdev = devs[s].pdev /\ EntryOK(e) /\ e.boot_mem_base # NULL
    BY <1>t, RefreshEntry, RefreshOK DEF LInv, EntriesOK
  <2>2. devs' = [devs EXCEPT ![s] = f]
    OBVIOUS
  <2> HIDE DEF e
  <2>3. f.pdev = devs[s].pdev /\ f.state = "BOOTING" /\ devs[s].pdev # NULL
    BY <2>1 DEF EntryOK, Entry
  <2> HIDE DEF f
  <2>4. c \in Call /\ Remover(c) /\ c.slot = s /\ c.pc = "check" /\ c.op = "fw"
    BY DEF Call, OrNull, Remover
  <2>5. /\ LockFree /\ th[t] = Idle /\ th' = [th EXCEPT ![t] = c]
        /\ devs[s].state = "DISCONNECTED" /\ UNCHANGED <<op, op_dev, op_by, mod>>
    BY <1>1 DEF XferFirmware, coreVars, modVars
  <2> HIDE DEF c
  <2>6. devs'[s] = f /\ \A u \in Slot : u # s => devs'[u] = devs[u]
    BY <1>t, <2>2
  <2>7. SentOff(c, devs'[s])
    BY <2>3, <2>4, <2>6 DEF SentOff
  <2> QED
    BY <1>i, <2>3, <2>4, <2>5, <2>6, <2>7, PStart
<1>2. CASE RebootLocked(t)
  <2> DEFINE s == th[t].slot
             c == [th[t] EXCEPT !.pc = "load"]
  <2>0. /\ s \in Slot /\ ~Remover(th[t]) /\ LockFree /\ th[t].op = "rb"
        /\ UNCHANGED <<op, op_dev, op_by, mod>>
    BY <1>t, <1>2 DEF RebootLocked, CallHasSlot, Remover, coreVars, modVars
  <2>1. CASE devs' = devs /\ th' = [th EXCEPT ![t] = Idle]
    <3>1. th'[t] = Idle /\ \A u \in Thread : u # t => th'[u] = th[u]
      BY <1>t, <2>1
    <3> QED
      BY <1>i, <2>0, <2>1, <3>1, PKeep DEF PInv
  <2>2. CASE /\ devs[s].pdev # NULL /\ devs[s].state = "CONNECTED"
             /\ devs' = [devs EXCEPT ![s].state = "REBOOTING"]
             /\ th' = [th EXCEPT ![t].pc = "load"]
    <3>1. c \in Call /\ Remover(c) /\ c.slot = s /\ c.pc = "load" /\ c.op = "rb"
      BY <1>t, <2>0 DEF Call, Remover
    <3>2. th' = [th EXCEPT ![t] = c]
      BY <1>t, <2>2
    <3>3. /\ devs'[s].pdev = devs[s].pdev /\ devs'[s].state = "REBOOTING"
          /\ \A u \in Slot : u # s => devs'[u] = devs[u]
      BY <1>t, <2>0, <2>2 DEF Entry
    <3>4. SentOff(c, devs'[s])
      BY <3>1, <3>3 DEF SentOff
    <3> HIDE DEF c, s
    <3> QED
      BY <2>0, <2>2, <3>1, <3>2, <3>3, <3>4, PStart
  <2> QED
    BY <1>2, <2>1, <2>2 DEF RebootLocked
<1>3. CASE FwCheck(t)
  <2> DEFINE c == [th[t] EXCEPT !.pc = "load"]
  <2>1. /\ Remover(th[t]) /\ th[t].op = "fw" /\ th[t].pc = "check"
        /\ UNCHANGED <<devs, op, op_dev, op_by, mod>>
    BY <1>3 DEF FwCheck, Remover, coreVars, modVars
  <2>2. devs[th[t].slot].pdev # NULL
    BY <2>1 DEF PInv, RemoverOK
  <2>3. th' = [th EXCEPT ![t] = c]
    BY <1>t, <1>3, <2>2 DEF FwCheck
  <2>4. c \in Call /\ Remover(c) /\ c.op = th[t].op /\ c.slot = th[t].slot /\ c.pc = "load"
    BY <1>t, <2>1 DEF Call, Remover
  <2> HIDE DEF c
  <2> QED
    BY <2>1, <2>3, <2>4, PMove
<1>4. CASE PdevLoad(t)
  <2> DEFINE c == [th[t] EXCEPT !.pc = "call", !.ptr = devs[th[t].slot].pdev]
  <2>1. /\ Remover(th[t]) /\ th[t].pc = "load" /\ UNCHANGED <<devs, op, op_dev, op_by, mod>>
    <3>1. th[t].pc = "load" /\ UNCHANGED <<devs, op, op_dev, op_by, mod>>
      BY <1>4 DEF PdevLoad, coreVars, modVars
    <3>2. Remover(th[t])
      <4>1. th[t].op \in {"none", "fw", "rb", "info", "net"}
        BY <1>t DEF Call
      <4>2. th[t].op = "none" => th[t].pc = "idle"
        BY IdleType DEF QuietOK
      <4> QED
        BY <3>1, <4>1, <4>2 DEF PInv, Remover, BystanderOK
    <3> QED
      BY <3>1, <3>2
  <2>2. th[t].slot \in Slot
    BY <2>1 DEF PInv, RemoverOK
  <2>3. th' = [th EXCEPT ![t] = c]
    BY <1>t, <1>4 DEF PdevLoad
  <2>4. /\ c \in Call /\ c.op = th[t].op /\ c.slot = th[t].slot /\ c.pc = "call"
        /\ c.ptr = devs[th[t].slot].pdev
    BY <1>t, <2>2 DEF Call, Entry
  <2>5. Remover(c)
    BY <2>1, <2>4 DEF Remover
  <2> HIDE DEF c
  <2> QED
    BY <2>1, <2>3, <2>4, <2>5, PMove
<1>5. CASE RemoveCall(t)
  <2> DEFINE s == th[t].slot
             c == [th[t] EXCEPT !.pc = "remove"]
  <2>1. Remover(th[t]) /\ th[t].pc = "call" /\ op = "none" /\ UNCHANGED <<devs, mod>>
    BY <1>5 DEF RemoveCall, Remover, modVars
  <2>2. s \in Slot /\ devs[s].pdev # NULL /\ th[t].ptr = devs[s].pdev /\ SentOff(th[t], devs[s])
    BY <2>1 DEF PInv, RemoverOK
  <2>3. bus[th[t].ptr] = "present" /\ OnSlot(th[t].ptr, s)
    BY <2>2, PListens DEF LInv, PdevOnBus, IInv, PdevOwn
  <2>4. op' = "del" /\ op_dev' = th[t].ptr /\ op_by' = t /\ th' = [th EXCEPT ![t] = c]
    BY <1>t, <1>5, <2>2, <2>3 DEF RemoveCall
  <2>5. c.op = th[t].op /\ c.slot = s /\ c.pc = "remove" /\ Remover(c)
    BY <1>t, <2>1 DEF Call, Remover
  <2> HIDE DEF c
  <2>6. th'[t] = c /\ \A u \in Thread : u # t => th'[u] = th[u]
    BY <1>t, <2>4
  <2>7. RemoverOK(t)'
    BY <2>1, <2>2, <2>3, <2>4, <2>5, <2>6 DEF RemoverOK, SentOff, OnSlot
  <2>8. ASSUME NEW u \in Thread, u # t, Remover(th[u]) PROVE RemoverOK(u)'
    <3>1. RemoverOK(u) /\ th[u].pc # "remove"
      BY <2>1, <2>8 DEF PInv, RemoverOK
    <3> QED
      BY <2>1, <2>6, <2>8, <3>1 DEF RemoverOK, SentOff
  <2>9. (\A u, v \in Thread :
           Remover(th[u]) /\ Remover(th[v]) /\ th[u].slot = th[v].slot => u = v)'
    BY <2>1, <2>5, <2>6 DEF PInv
  <2> QED
    BY <2>1, <2>4, <2>5, <2>6, <2>7, <2>8, <2>9 DEF PInv
<1> QED
  BY <1>1, <1>2, <1>3, <1>4, <1>5

\* Load: the scan fills unused slots only, and nothing follows it.
LEMMA PMod ==
  ASSUME OnlyOwnRemovals, IInv, LInv, PInv, ModNext
  PROVE  PInv'
<1>1. CASE ModuleInit
  <2>1. mod = "unloaded" /\ mod' = "registered" /\ UNCHANGED <<op, op_dev, op_by, th>>
    BY <1>1 DEF ModuleInit, coreVars
  <2>2. \A s \in Slot : devs'[s] = devs[s]
    BY <1>1, <2>1, UnusedSlot DEF ModuleInit, LInv, ExitOK
  <2>3. \A t \in Thread : Remover(th[t]) => th[t].slot \in Slot
    BY DEF PInv, RemoverOK
  <2> QED
    BY <2>1, <2>2, <2>3, PKeep
<1>2. CASE pcie_enumerate_existed_devs
  <2>1. /\ mod' = "live" /\ op \notin {"rundown", "unlink"}
        /\ UNCHANGED <<op, op_dev, op_by, th>>
    BY <1>2 DEF pcie_enumerate_existed_devs, LockFree, OnlyOwnRemovals
  <2>2. ASSUME NEW t \in Thread, Remover(th[t])
        PROVE  devs'[th[t].slot] = devs[th[t].slot]
    <3>1. th[t].slot \in Slot /\ devs[th[t].slot].pdev # NULL
      BY <2>1, <2>2 DEF PInv, RemoverOK
    <3>2. devs[th[t].slot].in_use
      BY <3>1, PListens
    <3> QED
      BY <1>2, <3>1, <3>2 DEF pcie_enumerate_existed_devs
  <2> QED
    BY <2>1, <2>2, PKeep
<1>3. CASE ExitUnregister \/ ExitCancelSync \/ ExitRelease \/ ExitRundown \/ ExitDone
  BY <1>3 DEF ExitUnregister, ExitCancelSync, ExitRelease, ExitRundown, ExitDone,
              OnlyOwnRemovals, PInv
<1> QED
  BY <1>1, <1>2, <1>3 DEF ModNext

\* Every step keeps PInv.
LEMMA PNext ==
  ASSUME OnlyOwnRemovals, IInv, LInv, QuietOK, PInv, [Next]_vars
  PROVE  PInv'
<1>1. CASE UNCHANGED vars
  BY <1>1, PKeep DEF vars, PInv
<1>2. ASSUME NEW d \in Dev, BusRemove(d) PROVE FALSE
  BY <1>2 DEF BusRemove, OnlyOwnRemovals
<1> QED
  BY <1>1, <1>2, PAdd, PDelNotify, PDelRundown, PUnlink, PCalm, PCalls, PMod
     DEF Next, BusNext, IoctlNext, ProcNext

\* No thread uses a NULL e->pdev or a freed pci_dev: the firmware ioctl and the
\* reboot node load the pointer after the unlock, but as long as devices leave
\* only through them, the state they left the slot in keeps its device there
\* until their own removal takes it.
THEOREM PointersSafe ==
  ASSUME OnlyOwnRemovals PROVE Spec => []PtrSafe
<1>h. Handled
  BY DEF OnlyOwnRemovals, Handled
<1>1. Init => PInv
  BY PInit
<1>2. IInv /\ LInv /\ QuietOK /\ PInv /\ [Next]_vars => PInv'
  BY PNext
<1>3. IInv /\ QuietOK /\ PInv => PtrSafe
  <2> SUFFICES ASSUME IInv, QuietOK, PInv PROVE PtrSafe
    OBVIOUS
  <2>1. ASSUME NEW t \in Thread, th[t].pc = "ub" PROVE FALSE
    <3>1. th[t].op \in {"none", "fw", "rb", "info", "net"} /\ th[t].op # "none"
      BY <2>1, IdleType DEF IInv, TypeOK, Call, QuietOK
    <3> QED
      BY <2>1, <3>1 DEF PInv, Remover, RemoverOK, BystanderOK
  <2> QED
    BY <2>1 DEF PInv, PtrSafe
<1>4. Spec => [](IInv /\ LInv /\ QuietOK)
  BY <1>h, LifetimeInvariant
<1> QED
  BY <1>1, <1>2, <1>3, <1>4, PTL DEF Spec

----------------------------------------------------------------------------
(* The pointer that the readers of net and dev_log load without the lock.  *)

\* A reader has loaded the device it is about to look at.
Reading(t) == th[t].op = "net" /\ th[t].pc = "call" /\ th[t].ptr # NULL

\* In a slot that still waits for its firmware that device is the slot's, or
\* its removal waits for the reader.
ReaderOK(t) ==
  LET e == devs[th[t].slot] IN
  e.state = "DISCONNECTED" =>
    \/ e.pdev = th[t].ptr
    \/ op = "rundown" /\ op_dev = th[t].ptr /\ OnSlot(op_dev, th[t].slot)

\* A device is on the list until its removal has been through the notifier.
NInv ==
  /\ op \in {"del", "rundown"} => bus[op_dev] = "present"
  /\ Registered => \A t \in Thread : Reading(t) => ReaderOK(t)

\* A reader's slot is in use: its nodes would be gone otherwise.
LEMMA ReaderInUse ==
  ASSUME IInv, QuietOK, NEW t \in Thread, th[t].op = "net"
  PROVE  th[t].slot \in Slot /\ devs[th[t].slot].in_use
  BY FreeOK DEF QuietOK, IInv, FreeSlotClean

\* Steps that take no device from a slot that waits for firmware.
LEMMA NKeep ==
  ASSUME IInv, QuietOK, NInv, Registered' => Registered,
         op' \in {"del", "rundown"} => bus'[op_dev'] = "present",
         op = "rundown" => UNCHANGED <<op, op_dev>>,
         \A t \in Thread : Reading(t)' => th'[t] = th[t],
         \A s \in Slot : devs[s].in_use =>
           \/ devs'[s].state # "DISCONNECTED"
           \/ devs'[s].state = devs[s].state /\ devs'[s].pdev = devs[s].pdev
  PROVE  NInv'
<1>1. ASSUME Registered', NEW t \in Thread, Reading(t)' PROVE ReaderOK(t)'
  <2>1. th'[t] = th[t] /\ Reading(t) /\ ReaderOK(t)
    BY <1>1 DEF NInv, Reading
  <2>2. th[t].slot \in Slot /\ devs[th[t].slot].in_use
    BY <2>1, ReaderInUse DEF Reading
  <2> QED
    BY <2>1, <2>2 DEF ReaderOK, OnSlot
<1> QED
  BY <1>1 DEF NInv

\* Hot-add, and the PCI core's own steps.
LEMMA NBus ==
  ASSUME IInv, LInv, QuietOK, NInv,
         \/ \E d \in Dev : BusScan(d) \/ BusRemove(d)
         \/ BusAddNotify \/ BusUnlink
  PROVE  NInv'
<1>t. devs \in [Slot -> Entry] /\ th \in [Thread -> Call]
  BY DEF IInv, TypeOK
<1>1. CASE \E d \in Dev : BusScan(d) \/ BusRemove(d)
  BY <1>1, NKeep DEF BusScan, BusRemove, Registered, Reading
<1>2. CASE BusUnlink
  <2>1. \A t \in Thread : th'[t] = th[t] \/ th'[t] = Idle
    BY <1>t, <1>2 DEF BusUnlink
  <2>2. \A t \in Thread : Reading(t)' => th'[t] = th[t]
    BY <2>1, IdleType DEF Reading
  <2> QED
    BY <1>2, <2>2, NKeep DEF BusUnlink, Registered
<1>3. CASE BusAddNotify
  <2>1. op = "add" /\ op' = "none" /\ UNCHANGED <<mod, th>>
    BY <1>3 DEF BusAddNotify
  <2>2. \A s \in Slot : devs[s].in_use =>
          devs'[s].state # "DISCONNECTED" \/ devs'[s] = devs[s]
    <3>1. ASSUME NEW u \in Slot, pcie_try_reconnect_booting_locked(op_dev, u)
          PROVE  devs'[u].state = "CONNECTED" /\ \A s \in Slot : s # u => devs'[s] = devs[s]
      BY <1>t, <3>1 DEF pcie_try_reconnect_booting_locked, Entry
    <3>2. ASSUME NEW u \in Slot, Inits(op_dev, u), pcie_init_slot(op_dev, u)
          PROVE  \A s \in Slot : devs[s].in_use => devs'[s] = devs[s]
      BY <1>t, <3>2 DEF Inits, pcie_init_slot
    <3> QED
      BY <1>3, <3>1, <3>2 DEF BusAddNotify, pcie_handle_add_locked
  <2> QED
    BY <2>1, <2>2, NKeep DEF Registered, Reading
<1> QED
  BY <1>1, <1>2, <1>3

\* A card that waits for firmware is removed: its device stays on the list for
\* as long as pcie_release_dev waits for the readers.
LEMMA NDelNotify ==
  ASSUME IInv, LInv, QuietOK, NInv, BusDelNotify
  PROVE  NInv'
<1>t. devs \in [Slot -> Entry] /\ op_dev \in Dev
  BY DEF IInv, TypeOK, OpHasDev, BusDelNotify
<1>1. op = "del" /\ bus[op_dev] = "present" /\ UNCHANGED <<op_dev, mod, th>>
  BY DEF BusDelNotify, NInv
<1>2. CASE UNCHANGED <<bus, devs>>
  BY <1>1, <1>2, NKeep DEF Registered, Reading, BusDelNotify, pcie_handle_del_locked
<1>3. ASSUME Registered, NEW u \in Slot, OnSlot(op_dev, u), devs[u].in_use, Detach(u),
             devs' = [devs EXCEPT ![u] = pcie_entry_detach_pdev(@)],
             op' = "rundown" \/ (op' = "unlink" /\ devs[u].state = "BOOTING")
      PROVE  NInv'
  <2>1. /\ \A s \in Slot : s # u => devs'[s] = devs[s]
        /\ bus'[op_dev] = "present"
    BY <1>1, <1>3, <1>t, LDetach
  <2>2. devs'[u].state = devs[u].state
    BY <1>t, <1>3, DetachEntry
  <2>3. ASSUME NEW t \in Thread, Reading(t)' PROVE ReaderOK(t)'
    <3>1. Reading(t) /\ ReaderOK(t) /\ th'[t] = th[t]
      BY <1>1, <1>3, <2>3 DEF NInv, Reading
    <3>2. th[t].slot \in Slot
      BY <3>1, ReaderInUse DEF Reading
    <3>3. CASE th[t].slot # u
      BY <1>1, <2>1, <3>1, <3>2, <3>3 DEF ReaderOK
    <3>4. CASE th[t].slot = u /\ devs[u].state = "DISCONNECTED"
      <4>1. devs[u].pdev = th[t].ptr /\ th[t].ptr # NULL
        BY <1>1, <3>1, <3>4 DEF ReaderOK, Reading
      <4>2. /\ th[t].ptr \in Dev /\ bus[th[t].ptr] = "present"
            /\ DevBus[th[t].ptr] = DevBus[op_dev]
        BY <1>3, <1>t, <4>1 DEF Entry, OrNull, LInv, PdevOnBus, IInv, PdevOwn, OnSlot
      <4>3. th[t].ptr = op_dev
        BY <1>1, <1>t, <4>2 DEF LInv, BusOK
      <4> QED
        BY <1>1, <1>3, <3>1, <3>4, <4>3 DEF ReaderOK, OnSlot
    <3> QED
      BY <2>2, <3>1, <3>3, <3>4 DEF ReaderOK
  <2> QED
    BY <1>1, <2>1, <2>3 DEF NInv
<1> QED
  BY <1>2, <1>3 DEF BusDelNotify, pcie_handle_del_locked, pcie_release_dev_begin

\* Nobody is left to read when the wait is over.
LEMMA NDelRundown ==
  ASSUME IInv, QuietOK, NInv, BusDelRundown
  PROVE  NInv'
<1>t. devs \in [Slot -> Entry] /\ op_dev \in Dev
  BY DEF IInv, TypeOK, OpHasDev, BusDelRundown
<1>1. op = "rundown" /\ op' = "unlink" /\ UNCHANGED <<bus, op_dev, mod, th>>
  BY DEF BusDelRundown
<1>2. PICK u \in Slot :
        OnSlot(op_dev, u) /\ ProcQuiet(u) /\ devs' = [devs EXCEPT ![u] = FreeEntry]
  BY DEF BusDelRundown, pcie_release_dev_end
<1>3. ASSUME Registered', NEW t \in Thread, Reading(t)' PROVE ReaderOK(t)'
  <2>1. Reading(t) /\ ReaderOK(t)
    BY <1>1, <1>3 DEF NInv, Reading, Registered
  <2>2. th[t].slot \in Slot /\ th[t].slot # u
    BY <1>2, <2>1, ReaderInUse DEF Reading, ProcQuiet, InProc
  <2>3. ~OnSlot(op_dev, th[t].slot)
    BY <1>t, <1>2, <2>2, SlotUnique
  <2> QED
    BY <1>1, <1>2, <1>t, <2>1, <2>2, <2>3 DEF ReaderOK
<1> QED
  BY <1>1, <1>3 DEF NInv

\* The timeout and the users.
LEMMA NUsers ==
  ASSUME IInv, LInv, QuietOK, NInv, WorkNext \/ IoctlNext \/ ProcNext
  PROVE  NInv'
<1>t. devs \in [Slot -> Entry] /\ th \in [Thread -> Call] /\ CallHasSlot
  BY DEF IInv, TypeOK
<1>1. ASSUME th' = th, UNCHANGED <<bus, op, op_dev, mod>>,
             \A s \in Slot : \/ devs'[s].state # "DISCONNECTED"
                             \/ devs'[s].state = devs[s].state /\ devs'[s].pdev = devs[s].pdev
      PROVE  NInv'
  BY <1>1, NKeep DEF Registered, Reading, NInv
<1>2. ASSUME NEW t \in Thread, NEW c \in Call, th' = [th EXCEPT ![t] = c],
             c.op = "net" => c.pc # "call",
             op # "rundown" \/ op' = op,
             op' \in {"del", "rundown"} => bus[op_dev'] = "present",
             op = "rundown" => UNCHANGED <<op, op_dev>>, UNCHANGED <<bus, mod>>,
             \A s \in Slot : \/ devs'[s].state # "DISCONNECTED"
                             \/ devs'[s].state = devs[s].state /\ devs'[s].pdev = devs[s].pdev
      PROVE  NInv'
  <2>1. th'[t] = c /\ \A u \in Thread : u # t => th'[u] = th[u]
    BY <1>t, <1>2
  <2>2. \A u \in Thread : Reading(u)' => th'[u] = th[u]
    BY <1>2, <2>1 DEF Reading
  <2> QED
    BY <1>2, <2>2, NKeep DEF Registered
<1>3. CASE WorkNext
  <2> PICK s \in Slot : TimerFire(s) \/ pcie_boot_timeout_fn(s)
    BY <1>3 DEF WorkNext
  <2>1. CASE TimerFire(s)
    BY <1>1, <2>1 DEF TimerFire, coreVars, modVars
  <2>2. CASE pcie_boot_timeout_fn(s)
    <3> DEFINE f == TimedOut(devs[s])
    <3>1. /\ f.pdev = devs[s].pdev
          /\ f.state = devs[s].state \/ f.state = "BOOT_FAILED"
      BY <1>t DEF TimedOut, Entry, State, OrNull
    <3>2. devs' = [devs EXCEPT ![s] = f] /\ UNCHANGED <<bus, op, op_dev, mod, th>>
      BY <2>2 DEF pcie_boot_timeout_fn, coreVars, modVars
    <3> HIDE DEF f
    <3> QED
      BY <1>t, <1>1, <3>1, <3>2
  <2> QED
    BY <2>1, <2>2
<1>4. CASE QueryPlatformInfo
  <2> PICK r \in [Slot -> MapResult] :
        devs' = [s \in Slot |-> pcie_query_dev_info_locked(devs[s], r[s])]
    BY <1>4 DEF QueryPlatformInfo
  <2>1. \A s \in Slot : devs'[s].pdev = devs[s].pdev /\ devs'[s].state = devs[s].state
    BY <1>t, QueryEntry
  <2> QED
    BY <1>1, <1>4, <2>1 DEF QueryPlatformInfo, coreVars, modVars
<1>5. ASSUME NEW s \in Slot, XferFirmwareFails(s) PROVE NInv'
  <2> PICK r \in MapResult :
        devs' = [devs EXCEPT ![s] = pcie_dev_refresh_board_info_locked(@, r)]
    BY <1>5 DEF XferFirmwareFails
  <2> DEFINE f == pcie_dev_refresh_board_info_locked(devs[s], r)
  <2>1. f.pdev = devs[s].pdev /\ f.state = devs[s].state /\ devs' = [devs EXCEPT ![s] = f]
    BY <1>t, RefreshEntry
  <2> HIDE DEF f
  <2>2. \A u \in Slot : devs'[u].pdev = devs[u].pdev /\ devs'[u].state = devs[u].state
    BY <1>t, <2>1
  <2> QED
    BY <1>1, <1>5, <2>2 DEF XferFirmwareFails, coreVars, modVars
<1>6. ASSUME NEW t \in Thread, NEW s \in Slot, XferFirmware(t, s) PROVE NInv'
  <2> DEFINE c == [op |-> "fw", pc |-> "check", slot |-> s, ptr |-> NULL]
  <2>0. c \in Call /\ c.op = "fw"
    BY DEF Call, OrNull
  <2> PICK r \in MapResult :
        LET e == pcie_dev_refresh_board_info_locked(devs[s], r) IN
        devs' = [devs EXCEPT ![s] = [e EXCEPT !.state = "BOOTING"]]
    BY <1>6 DEF XferFirmware
  <2> DEFINE e == pcie_dev_refresh_board_info_locked(devs[s], r)
             f == [e EXCEPT !.state = "BOOTING"]
  <2>1. e \in Entry /\ devs' = [devs EXCEPT ![s] = f]
    BY <1>t, RefreshEntry
  <2> HIDE DEF e
  <2>2. f.state = "BOOTING"
    BY <2>1 DEF Entry
  <2> HIDE DEF f
  <2>3. \A u \in Slot : devs'[u].state # "DISCONNECTED" \/ devs'[u] = devs[u]
    BY <1>t, <2>1, <2>2
  <2>4. th' = [th EXCEPT ![t] = c] /\ UNCHANGED <<bus, op, op_dev, mod>>
    BY <1>6 DEF XferFirmware, coreVars, modVars
  <2> HIDE DEF c
  <2> QED
    BY <1>2, <2>0, <2>3, <2>4 DEF NInv
<1>7. ASSUME NEW t \in Thread, PdevLoad(t) PROVE NInv'
  <2> DEFINE s == th[t].slot
             c == [th[t] EXCEPT !.pc = "call", !.ptr = devs[s].pdev]
  <2>1. UNCHANGED <<bus, op, op_dev, mod, devs>> /\ s \in Slot
    BY <1>t, <1>7 DEF PdevLoad, coreVars, modVars, CallHasSlot
  <2>2. th' = [th EXCEPT ![t] = c]
    BY <1>t, <1>7 DEF PdevLoad
  <2>3. c.slot = s /\ c.ptr = devs[s].pdev
    BY <1>t DEF Call
  <2> HIDE DEF c
  <2>4. th'[t] = c /\ \A u \in Thread : u # t => th'[u] = th[u]
    BY <1>t, <2>2
  <2>5. ReaderOK(t)'
    BY <2>1, <2>3, <2>4 DEF ReaderOK, s
  <2>6. \A u \in Thread : u # t /\ Reading(u)' => Reading(u) /\ (ReaderOK(u) => ReaderOK(u)')
    BY <2>1, <2>4 DEF Reading, ReaderOK, OnSlot
  <2> QED
    BY <2>1, <2>5, <2>6 DEF NInv, Registered
<1>8. ASSUME NEW t \in Thread, FwCheck(t) \/ RemoveCall(t) \/ NetDeref(t) PROVE NInv'
  <2>1. PICK c \in Call : /\ th' = [th EXCEPT ![t] = c] /\ (c.op = "net" => c.pc # "call")
    <3>1. CASE th' = [th EXCEPT ![t] = Idle]
      BY <3>1, IdleType
    <3>2. CASE FwCheck(t) /\ th' = [th EXCEPT ![t] = [@ EXCEPT !.pc = "load"]]
      <4> DEFINE c == [th[t] EXCEPT !.pc = "load"]
      <4>1. c \in Call /\ c.pc = "load" /\ th' = [th EXCEPT ![t] = c]
        BY <1>t, <3>2 DEF Call
      <4> QED
        BY <4>1
    <3>3. CASE th' = [th EXCEPT ![t].pc = "remove"]
      <4> DEFINE c == [th[t] EXCEPT !.pc = "remove"]
      <4>1. c \in Call /\ c.pc = "remove" /\ th' = [th EXCEPT ![t] = c]
        BY <1>t, <3>3 DEF Call
      <4> QED
        BY <4>1
    <3>4. CASE th' = [th EXCEPT ![t].pc = "ub"]
      <4> DEFINE c == [th[t] EXCEPT !.pc = "ub"]
      <4>1. c \in Call /\ c.pc = "ub" /\ th' = [th EXCEPT ![t] = c]
        BY <1>t, <3>4 DEF Call
      <4> QED
        BY <4>1
    <3> QED
      BY <1>t, <1>8, <3>1, <3>2, <3>3, <3>4 DEF FwCheck, RemoveCall, NetDeref
  <2>2. /\ UNCHANGED <<bus, mod, devs>>
        /\ \/ UNCHANGED <<op, op_dev>>
           \/ op = "none" /\ op' = "del" /\ bus[op_dev'] = "present"
           \/ op = "none" /\ op' = "dead"
    BY <1>8 DEF FwCheck, RemoveCall, NetDeref, coreVars, modVars
  <2> QED
    BY <1>2, <2>1, <2>2 DEF NInv
<1>9. ASSUME NEW t \in Thread, NEW s \in Slot, NEW o \in {"rb", "info", "net"},
             NEW p \in {"lock", "load"}, EnterProc(t, s, o, p)
      PROVE  NInv'
  <2> DEFINE c == [op |-> o, pc |-> p, slot |-> s, ptr |-> NULL]
  <2>1. c \in Call /\ c.pc # "call"
    BY DEF Call, OrNull
  <2>2. th' = [th EXCEPT ![t] = c] /\ UNCHANGED <<bus, op, op_dev, mod, devs>>
    BY <1>9 DEF EnterProc, coreVars, modVars
  <2> HIDE DEF c
  <2> QED
    BY <1>2, <2>1, <2>2 DEF NInv
<1>10. ASSUME NEW t \in Thread, DevInfoLocked(t) PROVE NInv'
  <2> DEFINE s == th[t].slot
  <2> PICK r \in MapResult :
        devs' = [devs EXCEPT ![s] = pcie_query_dev_info_locked(@, r)]
    BY <1>10 DEF DevInfoLocked
  <2> DEFINE f == pcie_query_dev_info_locked(devs[s], r)
  <2>0. s \in Slot
    BY <1>t, <1>10 DEF DevInfoLocked, CallHasSlot
  <2>1. f.pdev = devs[s].pdev /\ f.state = devs[s].state /\ devs' = [devs EXCEPT ![s] = f]
    BY <1>t, <2>0, QueryEntry
  <2>2. th' = [th EXCEPT ![t] = Idle] /\ UNCHANGED <<bus, op, op_dev, mod>>
    BY <1>10 DEF DevInfoLocked, coreVars, modVars
  <2> HIDE DEF f, s
  <2>3. \A u \in Slot : devs'[u].pdev = devs[u].pdev /\ devs'[u].state = devs[u].state
    BY <1>t, <2>1
  <2> QED
    BY <1>2, <2>2, <2>3, IdleType DEF NInv
<1>11. ASSUME NEW t \in Thread, RebootLocked(t) PROVE NInv'
  <2> DEFINE s == th[t].slot
             c == [th[t] EXCEPT !.pc = "load"]
  <2>1. \A u \in Slot : devs'[u].state # "DISCONNECTED" \/ devs'[u] = devs[u]
    <3>1. CASE devs' = devs
      BY <3>1
    <3>2. CASE devs' = [devs EXCEPT ![s].state = "REBOOTING"]
      BY <1>t, <3>2 DEF Entry
    <3> QED
      BY <1>11, <3>1, <3>2 DEF RebootLocked
  <2>2. c \in Call /\ c.pc = "load"
    BY <1>t DEF Call
  <2>3. /\ th' = [th EXCEPT ![t] = Idle] \/ th' = [th EXCEPT ![t] = c]
        /\ UNCHANGED <<bus, op, op_dev, mod>>
    BY <1>t, <1>11 DEF RebootLocked, coreVars, modVars
  <2> HIDE DEF c, s
  <2> QED
    BY <1>2, <2>1, <2>2, <2>3, IdleType DEF NInv
<1> QED
  BY <1>3, <1>4, <1>5, <1>6, <1>7, <1>8, <1>9, <1>10, <1>11
     DEF IoctlNext, ProcNext, RebootEnter, DevInfoEnter, NetEnter

\* Load starts without readers, and the scan only fills unused slots; nobody
\* listens while the module is unloaded.
LEMMA NMod ==
  ASSUME Handled, IInv, LInv, QuietOK, NInv, ModNext
  PROVE  NInv'
<1>t. /\ devs \in [Slot -> Entry] /\ exit_i \in 0 .. DevMax
      /\ op \in {"del", "rundown"} => op_dev \in Dev
  BY DEF IInv, TypeOK, OpHasDev
<1>1. CASE ModuleInit
  <2>1. \A t \in Thread : ~Reading(t)
    BY <1>1, ReaderInUse DEF ModuleInit, Reading, LInv, ExitOK
  <2> QED
    BY <1>1, <2>1 DEF ModuleInit, coreVars, NInv, Reading
<1>2. CASE pcie_enumerate_existed_devs
  <2>1. /\ Registered /\ UNCHANGED <<bus, op, op_dev, th>>
        /\ \A s \in Slot : devs[s].in_use => devs'[s] = devs[s]
    BY <1>2 DEF pcie_enumerate_existed_devs, Registered
  <2> QED
    BY <2>1, NKeep DEF Reading, NInv
<1>3. CASE ExitUnregister \/ ExitCancelSync \/ ExitRundown \/ ExitDone
  <2>1. ~Registered' /\ UNCHANGED <<bus, op, op_dev>>
    BY <1>3 DEF ExitUnregister, ExitCancelSync, ExitRundown, ExitDone, coreVars, Registered
  <2> QED
    BY <2>1 DEF NInv
<1>4. CASE ExitRelease
  <2>1. ~Registered' /\ UNCHANGED <<op, op_dev>>
    BY <1>4 DEF ExitRelease, Registered
  <2>2. op \in {"del", "rundown"} => bus'[op_dev] = "present"
    <3>1. CASE UNCHANGED bus
      BY <3>1 DEF NInv
    <3>2. CASE pcie_release_dev_begin(exit_i)
      <4>1. exit_i \in Slot
        BY <1>t, <1>4, PlatformAssumption DEF ExitRelease, Slot
      <4> QED
        BY <1>t, <3>2, <4>1, LDetach DEF pcie_release_dev_begin, NInv
    <3> QED
      BY <1>4, <3>1, <3>2 DEF ExitRelease
  <2> QED
    BY <2>1, <2>2 DEF NInv
<1> QED
  BY <1>1, <1>2, <1>3, <1>4 DEF ModNext

\* While the driver listens, a reader of net or dev_log meets a freed device
\* only in a slot whose firmware has been sent: every other removal waits for
\* the readers before the device is unlinked.
THEOREM ReadersBeforeBoot ==
  ASSUME Handled PROVE Spec => []FreedOnlyByBoot
<1>1. Init => NInv
  BY DEF Init, NInv, Registered
<1>2. IInv /\ LInv /\ QuietOK /\ NInv /\ [Next]_vars => NInv'
  <2> SUFFICES ASSUME IInv, LInv, QuietOK, NInv, [Next]_vars PROVE NInv'
    OBVIOUS
  <2>1. CASE UNCHANGED vars
    BY <2>1, NKeep DEF vars, NInv, Registered, Reading
  <2> QED
    BY <2>1, NBus, NDelNotify, NDelRundown, NUsers, NMod DEF Next, BusNext
<1>3. IInv /\ LInv /\ QuietOK /\ NInv => FreedOnlyByBoot
  <2> SUFFICES ASSUME IInv, LInv, QuietOK, NInv, Registered, NEW t \in Thread,
                      Reading(t), bus[th[t].ptr] = "free"
               PROVE  devs[th[t].slot].in_use /\ devs[th[t].slot].state # "DISCONNECTED"
    BY DEF FreedOnlyByBoot, Reading
  <2>1. th[t].slot \in Slot /\ devs[th[t].slot].in_use
    BY ReaderInUse DEF Reading
  <2>2. ReaderOK(t) /\ th[t].ptr # NULL
    BY DEF NInv, Reading
  <2>3. devs[th[t].slot].pdev # th[t].ptr
    BY <2>1, <2>2 DEF LInv, PdevOnBus
  <2>4. ~(op = "rundown" /\ op_dev = th[t].ptr)
    BY DEF NInv
  <2> QED
    BY <2>1, <2>2, <2>3, <2>4 DEF ReaderOK
<1>4. Spec => [](IInv /\ LInv /\ QuietOK)
  BY LifetimeInvariant
<1> QED
  BY <1>1, <1>2, <1>3, <1>4, PTL DEF Spec

(***************************************************************************)
(* The slot table implements SlotLifecycle, for any number of slots,       *)
(* devices and threads.  Every step of AmbaPciPlatform changes each entry  *)
(* in a way that is a move of that slot (EntryMove), or leaves what users  *)
(* see of it alone; loading and unloading are Listen.                      *)
(***************************************************************************)

\* What SlotLifecycle allows, said of an entry before and after a step.
EntryMove(e, f) ==
  \/ CardStatus(f) = CardStatus(e) /\ CardFunction(f) = CardFunction(e)
  \/ /\ Registered /\ CardStatus(e) = "absent"
     /\ \/ CardStatus(f) = "waiting" /\ CardFunction(f) = "boot"
        \/ CardStatus(f) = "connected" /\ CardFunction(f) = "virtio"
  \/ /\ Registered /\ CardStatus(e) = "waiting" /\ CardFunction(e) = "boot"
     /\ CardStatus(f) = "booting" /\ CardFunction(f) = "boot"
  \/ /\ Registered /\ CardStatus(e) = "booting" /\ CardFunction(e) = "none"
     /\ CardStatus(f) = "connected" /\ CardFunction(f) = "virtio"
  \/ /\ CardStatus(e) = "booting" /\ CardStatus(f) = "failed"
     /\ CardFunction(f) = CardFunction(e)
  \/ /\ CardStatus(e) = "connected" /\ CardFunction(e) = "virtio"
     /\ CardStatus(f) = "rebooting" /\ CardFunction(f) = "virtio"
  \/ /\ CardFunction(e) # "none" /\ CardFunction(f) = "none"
     /\ CardStatus(f) = CardStatus(e)
  \/ /\ CardStatus(e) # "absent" /\ CardFunction(e) = "none"
     /\ Registered => CardStatus(e) # "booting"
     /\ CardStatus(f) = "absent" /\ CardFunction(f) = "none"

\* Only a slot that does not boot has its proc nodes removed by the notifier,
\* and it does not begin to boot meanwhile: the lock is taken.
RundownNotBooting ==
  op = "rundown" => \A s \in Slot : OnSlot(op_dev, s) => devs[s].state # "BOOTING"

\* Slots hold functions of cards only.
KnownFunction == \A s \in Slot : CardFunction(devs[s]) \in {"none", "boot", "virtio"}

RInv == RundownNotBooting /\ KnownFunction

----------------------------------------------------------------------------
(* From entries to SlotLifecycle.                                          *)

LEMMA StatusType == ASSUME NEW e \in Entry PROVE CardStatus(e) \in Cards!Status
  BY DEF CardStatus, StatusOf, Entry, State, Cards!Status

\* A step that moves every entry as EntryMove allows is a step of the slots.
LEMMA MovesRefine ==
  ASSUME devs \in [Slot -> Entry], devs' \in [Slot -> Entry], KnownFunction,
         Registered' = Registered,
         \A s \in Slot : EntryMove(devs[s], devs'[s])
  PROVE  Cards!Next /\ KnownFunction'
<1>1. KnownFunction'
  BY DEF KnownFunction, EntryMove
<1>2. \A s \in Slot : CardStatus(devs'[s]) \in Cards!Status
  BY StatusType
<1>3. \A s \in Slot : CardFunction(devs'[s]) \in Cards!Function
  BY <1>1 DEF KnownFunction, Cards!Function
<1>4. ASSUME NEW s \in Slot
      PROVE  Cards!SlotMove(s)
             \/ Cards!Move(s, CardStatus(devs[s]), CardFunction(devs[s]))
  <2>1. EntryMove(devs[s], devs'[s])
    OBVIOUS
  <2> QED
    BY <2>1 DEF EntryMove, Cards!SlotMove, Cards!Move, Cards!Appear, Cards!Send,
                Cards!ComeUp, Cards!Expire, Cards!Reboot, Cards!Detach, Cards!Release
<1> QED
  BY <1>1, <1>2, <1>3, <1>4 DEF Cards!Next, Cards!Slots

----------------------------------------------------------------------------
(* The operations on an entry are moves.                                   *)

\* What users see of two entries is the same.
Same(e, f) == CardStatus(f) = CardStatus(e) /\ CardFunction(f) = CardFunction(e)

LEMMA FreeCard == CardStatus(FreeEntry) = "absent" /\ CardFunction(FreeEntry) = "none"
  BY DEF CardStatus, CardFunction, FreeEntry

\* A query touches neither the device nor the state.
LEMMA QuerySame ==
  ASSUME NEW e \in Entry, NEW r \in MapResult
  PROVE  Same(e, pcie_query_dev_info_locked(e, r))
  BY QueryEntry DEF Same, CardStatus, CardFunction

\* Detaching takes the function away.
LEMMA DetachMove ==
  ASSUME NEW e \in Entry
  PROVE  EntryMove(e, pcie_entry_detach_pdev(e))
<1> DEFINE f == pcie_entry_detach_pdev(e)
<1>1. f.pdev = NULL /\ f.state = e.state /\ f.in_use = e.in_use
  BY DetachEntry
<1> HIDE DEF f
<1>2. CardStatus(f) = CardStatus(e) /\ CardFunction(f) = "none"
  BY <1>1 DEF CardStatus, CardFunction
<1> QED
  BY <1>2 DEF EntryMove, f

\* A blank slot gets its card.
LEMMA AddedMove ==
  ASSUME NEW e \in Entry, ~e.in_use, Registered, e.pdev = NULL,
         NEW d \in Dev, DevKind[d] \in {"boot", "virtio"}
  PROVE  EntryMove(e, AddedEntry(d))
<1> DEFINE f == AddedEntry(d)
<1>1. f.in_use /\ f.pdev = d
      /\ f.state = IF DevKind[d] = "virtio" THEN "CONNECTED" ELSE "DISCONNECTED"
  BY DEF AddedEntry, InitEntry, pcie_create_proc_nodes, FreeEntry
<1>2. d # NULL
  BY PlatformAssumption
<1> HIDE DEF f
<1>3. CardStatus(e) = "absent" /\ CardFunction(f) = DevKind[d]
  BY <1>1, <1>2 DEF CardStatus, CardFunction
<1>4. CardStatus(f) = IF DevKind[d] = "virtio" THEN "connected" ELSE "waiting"
  BY <1>1 DEF CardStatus, StatusOf
<1> QED
  BY <1>3, <1>4 DEF EntryMove, f

\* What is left of a slot without a device may be cleared.
LEMMA ReleaseMove ==
  ASSUME NEW e \in Entry, e.pdev = NULL, Registered => e.state # "BOOTING"
  PROVE  EntryMove(e, FreeEntry)
<1>1. CardFunction(e) = "none"
  BY DEF CardFunction
<1>2. Registered /\ e.in_use => CardStatus(e) # "booting"
  BY DEF CardStatus, StatusOf, Entry, State
<1>3. ~e.in_use => CardStatus(e) = "absent"
  BY DEF CardStatus
<1> QED
  BY <1>1, <1>2, <1>3, FreeCard DEF EntryMove

----------------------------------------------------------------------------
(* Every step of the driver.                                               *)

\* Only one entry changes, and makes a move.
LEMMA OneMoves ==
  ASSUME IInv, IInv', RInv, Registered' = Registered, NEW s \in Slot,
         NEW f \in Entry, devs' = [devs EXCEPT ![s] = f], EntryMove(devs[s], f)
  PROVE  Cards!Next /\ KnownFunction'
<1>1. devs \in [Slot -> Entry] /\ devs' \in [Slot -> Entry]
  BY DEF IInv, TypeOK
<1>2. \A u \in Slot : EntryMove(devs[u], devs'[u])
  BY <1>1 DEF EntryMove
<1> QED
  BY <1>1, <1>2, MovesRefine DEF RInv

\* Nobody sees any change.
LEMMA NoneMoves ==
  ASSUME IInv, IInv', RInv, Registered' = Registered,
         \A s \in Slot : Same(devs[s], devs'[s])
  PROVE  Cards!Next /\ KnownFunction'
<1>1. \A s \in Slot : EntryMove(devs[s], devs'[s])
  BY DEF EntryMove, Same
<1> QED
  BY <1>1, MovesRefine DEF IInv, TypeOK, RInv

\* RundownNotBooting: a slot starts to boot only while the lock is free.
LEMMA RundownStep ==
  ASSUME IInv, IInv', RundownNotBooting,
         op' = "rundown" =>
           /\ op = "rundown" /\ op_dev' = op_dev
           /\ \A s \in Slot : devs'[s].state = "BOOTING" => devs[s].state = "BOOTING"
  PROVE  RundownNotBooting'
  BY DEF RundownNotBooting, OnSlot

\* The notifier, hot-add.
LEMMA RAdd ==
  ASSUME IInv, IInv', LInv, RInv, BusAddNotify
  PROVE  Cards!Next /\ RInv'
<1>t. devs \in [Slot -> Entry] /\ op_dev \in Dev /\ Registered' = Registered
  BY DEF IInv, TypeOK, OpHasDev, BusAddNotify, Registered
<1>r. RundownNotBooting'
  BY RundownStep DEF BusAddNotify, RInv
<1>1. CASE devs' = devs
  BY <1>1, <1>t, <1>r, NoneMoves DEF Same, RInv
<1>2. ASSUME NEW s \in Slot, Registered, Reconnects(op_dev, s),
             pcie_try_reconnect_booting_locked(op_dev, s)
      PROVE  Cards!Next /\ KnownFunction'
  <2> DEFINE f == [devs[s] EXCEPT !.pdev = op_dev, !.state = "CONNECTED"]
  <2>1. devs[s].pdev = NULL
    BY <1>2, NoPdevOnReconnect DEF BusAddNotify
  <2>2. f \in Entry /\ f.in_use /\ f.state = "CONNECTED" /\ f.pdev = op_dev
    BY <1>t, <1>2 DEF Reconnects, Entry, OrNull, State
  <2>3. devs' = [devs EXCEPT ![s] = f]
    BY <1>t, <1>2 DEF pcie_try_reconnect_booting_locked
  <2> HIDE DEF f
  <2>4. CardStatus(devs[s]) = "booting" /\ CardFunction(devs[s]) = "none"
    BY <1>2, <2>1 DEF Reconnects, CardStatus, CardFunction, StatusOf
  <2>5. CardStatus(f) = "connected" /\ CardFunction(f) = "virtio"
    BY <1>t, <1>2, <2>2, PlatformAssumption DEF Reconnects, CardStatus, CardFunction, StatusOf
  <2>6. EntryMove(devs[s], f)
    BY <1>2, <2>4, <2>5 DEF EntryMove
  <2> QED
    BY <1>t, <2>2, <2>3, <2>6, OneMoves
<1>3. ASSUME NEW s \in Slot, Registered, Inits(op_dev, s), pcie_init_slot(op_dev, s)
      PROVE  Cards!Next /\ KnownFunction'
  <2>1. devs[s].pdev = NULL /\ ~devs[s].in_use
    BY <1>3, UnusedSlot DEF Inits
  <2>2. EntryMove(devs[s], AddedEntry(op_dev))
    BY <1>t, <1>3, <2>1, AddedMove DEF Inits
  <2>3. AddedEntry(op_dev) \in Entry
    BY <1>t, <1>3 DEF pcie_init_slot, IInv, TypeOK
  <2> QED
    BY <1>t, <1>3, <2>2, <2>3, OneMoves DEF pcie_init_slot
<1> QED
  BY <1>1, <1>2, <1>3, <1>r DEF BusAddNotify, pcie_handle_add_locked, RInv

\* The notifier, hot-remove, and the end of a release.
LEMMA RDel ==
  ASSUME IInv, IInv', LInv, RInv, BusDelNotify \/ BusDelRundown
  PROVE  Cards!Next /\ RInv'
<1>t. devs \in [Slot -> Entry] /\ op_dev \in Dev /\ Registered' = Registered
  BY DEF IInv, TypeOK, OpHasDev, BusDelNotify, BusDelRundown, Registered
<1>1. CASE BusDelNotify /\ devs' = devs /\ op' = "unlink"
  BY <1>1, <1>t, NoneMoves, RundownStep DEF Same, RInv
<1>2. ASSUME NEW s \in Slot, BusDelNotify, OnSlot(op_dev, s),
             devs' = [devs EXCEPT ![s] = pcie_entry_detach_pdev(@)],
             op' = "unlink" \/ devs[s].state # "BOOTING"
      PROVE  Cards!Next /\ RInv'
  <2> DEFINE f == pcie_entry_detach_pdev(devs[s])
  <2>1. f \in Entry /\ f.state = devs[s].state
    BY <1>t, DetachEntry
  <2>2. EntryMove(devs[s], f)
    BY <1>t, DetachMove
  <2>3. devs' = [devs EXCEPT ![s] = f]
    BY <1>2
  <2> HIDE DEF f
  <2>4. Cards!Next /\ KnownFunction'
    BY <1>t, <2>1, <2>2, <2>3, OneMoves
  <2>5. ASSUME NEW u \in Slot, op' = "rundown", OnSlot(op_dev, u)
        PROVE  devs'[u].state # "BOOTING"
    <3>1. u = s
      BY <1>t, <1>2, <2>5, SlotUnique
    <3> QED
      BY <1>t, <1>2, <2>1, <2>3, <2>5, <3>1
  <2>6. RundownNotBooting'
    BY <1>2, <2>5 DEF RundownNotBooting, BusDelNotify, OnSlot
  <2> QED
    BY <2>4, <2>6 DEF RInv
<1>3. CASE BusDelRundown
  <2> PICK s \in Slot : OnSlot(op_dev, s) /\ pcie_release_dev_end(s)
    BY <1>3 DEF BusDelRundown
  <2>1. devs[s].pdev = NULL /\ devs[s].state # "BOOTING"
    BY <1>3 DEF BusDelRundown, LInv, LeavingOK, RInv, RundownNotBooting
  <2>2. FreeEntry \in Entry /\ EntryMove(devs[s], FreeEntry)
    BY <1>t, <2>1, ReleaseMove, FreeEntryType
  <2>3. Cards!Next /\ KnownFunction'
    BY <1>t, <2>2, OneMoves DEF pcie_release_dev_end
  <2> QED
    BY <1>3, <2>3, RundownStep DEF BusDelRundown, RInv
<1> QED
  BY <1>1, <1>2, <1>3 DEF BusDelNotify, pcie_handle_del_locked, pcie_release_dev_begin

\* Timeouts, ioctls, proc nodes.
LEMMA RUsers ==
  ASSUME IInv, IInv', LInv, RInv, WorkNext \/ IoctlNext \/ ProcNext
  PROVE  Cards!Next /\ RInv'
<1>t. devs \in [Slot -> Entry] /\ th \in [Thread -> Call]
  BY DEF IInv, TypeOK
<1>e. \A s \in Slot : EntryOK(devs[s])
  BY DEF LInv, EntriesOK
<1>1. ASSUME devs' = devs, Registered' = Registered,
             op' = "rundown" => op = "rundown" /\ op_dev' = op_dev
      PROVE  Cards!Next /\ RInv'
  BY <1>1, NoneMoves, RundownStep DEF Same, RInv
<1>2. ASSUME NEW s \in Slot, pcie_boot_timeout_fn(s)
      PROVE  Cards!Next /\ RInv'
  <2> DEFINE f == TimedOut(devs[s])
  <2>1. f \in Entry /\ EntryMove(devs[s], f)
    BY <1>t DEF TimedOut, EntryMove, CardStatus, CardFunction, StatusOf, Entry, State
  <2>2. devs' = [devs EXCEPT ![s] = f] /\ Registered' = Registered
    BY <1>2 DEF pcie_boot_timeout_fn, Registered, modVars
  <2>3. op' # "rundown"
    BY <1>2 DEF pcie_boot_timeout_fn, LockFree, coreVars
  <2> HIDE DEF f
  <2> QED
    BY <2>1, <2>2, <2>3, OneMoves DEF RInv, RundownNotBooting
<1>3. ASSUME \A s \in Slot : Same(devs[s], devs'[s]), LockFree, UNCHANGED <<op, mod>>
      PROVE  Cards!Next /\ RInv'
  BY <1>3, NoneMoves DEF RInv, RundownNotBooting, LockFree, Registered
<1>4. CASE QueryPlatformInfo
  <2>1. \A s \in Slot : Same(devs[s], devs'[s])
    BY <1>t, <1>4, QuerySame DEF QueryPlatformInfo
  <2> QED
    BY <1>3, <1>4, <2>1 DEF QueryPlatformInfo, coreVars, modVars
<1>5. ASSUME NEW s \in Slot, XferFirmwareFails(s)
      PROVE  Cards!Next /\ RInv'
  <2>1. \A u \in Slot : Same(devs[u], devs'[u])
    BY <1>t, <1>5, RefreshEntry DEF XferFirmwareFails, Same, CardStatus, CardFunction
  <2> QED
    BY <1>3, <1>5, <2>1 DEF XferFirmwareFails, coreVars, modVars
<1>6. ASSUME NEW t \in Thread, NEW s \in Slot, XferFirmware(t, s)
      PROVE  Cards!Next /\ RInv'
  <2> PICK r \in MapResult :
        LET e == pcie_dev_refresh_board_info_locked(devs[s], r) IN
        /\ e.boot_mem_base # NULL
        /\ devs' = [devs EXCEPT ![s] = [e EXCEPT !.state = "BOOTING"]]
    BY <1>6 DEF XferFirmware
  <2> DEFINE e == pcie_dev_refresh_board_info_locked(devs[s], r)
             f == [e EXCEPT !.state = "BOOTING"]
  <2>1. /\ e \in Entry /\ e.pdev = devs[s].pdev /\ e.state = devs[s].state
        /\ e.in_use = devs[s].in_use
    BY <1>t, RefreshEntry
  <2>2. EntryOK(e) /\ e.boot_mem_base # NULL
    BY <1>t, <1>e, RefreshOK
  <2>3. devs' = [devs EXCEPT ![s] = f]
    OBVIOUS
  <2>4. e.in_use /\ e.state = "DISCONNECTED" /\ Registered
    BY <1>6, <2>1 DEF XferFirmware
  <2> HIDE DEF e
  <2>5. f \in Entry /\ f.state = "BOOTING" /\ f.pdev = e.pdev /\ f.in_use
    BY <2>1, <2>4 DEF Entry, State
  <2> HIDE DEF f
  <2>6. e.pdev # NULL /\ DevKind[e.pdev] = "boot"
    BY <2>2, <2>4 DEF EntryOK
  <2>7. /\ CardStatus(devs[s]) = "waiting" /\ CardFunction(devs[s]) = "boot"
        /\ CardStatus(f) = "booting" /\ CardFunction(f) = "boot"
    BY <2>1, <2>4, <2>5, <2>6 DEF CardStatus, CardFunction, StatusOf
  <2>8. EntryMove(devs[s], f)
    BY <2>4, <2>7 DEF EntryMove
  <2>9. LockFree /\ UNCHANGED <<op, mod>>
    BY <1>6 DEF XferFirmware, coreVars, modVars
  <2> QED
    BY <2>3, <2>5, <2>8, <2>9, OneMoves DEF RInv, RundownNotBooting, LockFree, Registered
<1>7. ASSUME NEW t \in Thread, FwCheck(t) \/ PdevLoad(t) \/ RemoveCall(t)
      PROVE  Cards!Next /\ RInv'
  BY <1>1, <1>7 DEF FwCheck, PdevLoad, RemoveCall, coreVars, modVars, Registered
<1>8. ASSUME NEW t \in Thread, RebootLocked(t)
      PROVE  Cards!Next /\ RInv'
  <2> DEFINE s == th[t].slot
             f == [devs[s] EXCEPT !.state = "REBOOTING"]
  <2>1. s \in Slot /\ LockFree /\ UNCHANGED <<op, mod>>
    BY <1>8 DEF RebootLocked, IInv, CallHasSlot, coreVars, modVars
  <2>2. CASE devs' = devs
    BY <1>1, <2>1, <2>2 DEF Registered, LockFree
  <2>3. CASE /\ devs[s].pdev # NULL /\ devs[s].state = "CONNECTED"
             /\ devs' = [devs EXCEPT ![s].state = "REBOOTING"]
    <3>1. f \in Entry /\ f.state = "REBOOTING" /\ f.pdev = devs[s].pdev
          /\ f.in_use = devs[s].in_use /\ devs' = [devs EXCEPT ![s] = f]
      BY <1>t, <2>1, <2>3 DEF Entry, State
    <3>2. devs[s].in_use /\ DevKind[devs[s].pdev] = "virtio"
      BY <1>e, <2>1, <2>3 DEF EntryOK
    <3> HIDE DEF f
    <3>3. /\ CardStatus(devs[s]) = "connected" /\ CardFunction(devs[s]) = "virtio"
          /\ CardStatus(f) = "rebooting" /\ CardFunction(f) = "virtio"
      BY <2>3, <3>1, <3>2 DEF CardStatus, CardFunction, StatusOf
    <3>4. EntryMove(devs[s], f)
      BY <3>3 DEF EntryMove
    <3> HIDE DEF s
    <3> QED
      BY <2>1, <3>1, <3>4, OneMoves DEF RInv, RundownNotBooting, LockFree, Registered
  <2> QED
    BY <1>8, <2>2, <2>3 DEF RebootLocked
<1>9. ASSUME NEW t \in Thread, DevInfoLocked(t)
      PROVE  Cards!Next /\ RInv'
  <2>1. \A s \in Slot : Same(devs[s], devs'[s])
    BY <1>t, <1>9, QuerySame DEF DevInfoLocked, Same
  <2> QED
    BY <1>3, <1>9, <2>1 DEF DevInfoLocked, coreVars, modVars
<1>10. CASE \/ \E s \in Slot : TimerFire(s)
            \/ \E t \in Thread, s \in Slot :
                 RebootEnter(t, s) \/ DevInfoEnter(t, s) \/ NetEnter(t, s)
            \/ \E t \in Thread : NetDeref(t)
  BY <1>1, <1>10 DEF TimerFire, RebootEnter, DevInfoEnter, NetEnter, EnterProc, NetDeref,
                     coreVars, modVars, Registered
<1> QED
  BY <1>2, <1>4, <1>5, <1>6, <1>7, <1>8, <1>9, <1>10 DEF WorkNext, IoctlNext, ProcNext

\* Load and unload.
LEMMA RMod ==
  ASSUME Handled, IInv, IInv', LInv, RInv, ModNext
  PROVE  Cards!Next /\ RInv'
<1>t. devs \in [Slot -> Entry] /\ devs' \in [Slot -> Entry]
  BY DEF IInv, TypeOK
<1>1. ASSUME devs' = devs, Registered' = ~Registered
      PROVE  Cards!Next /\ KnownFunction'
  BY <1>1 DEF Cards!Next, Cards!Listen, RInv, KnownFunction
<1>2. CASE ModuleInit
  <2>1. devs' = devs
    <3>1. \A s \in Slot : devs[s] = FreeEntry
      BY <1>2, UnusedSlot DEF ModuleInit, LInv, ExitOK
    <3> QED
      BY <1>2, <1>t, <3>1 DEF ModuleInit
  <2>2. RundownNotBooting'
    BY <1>2, <2>1, RundownStep DEF ModuleInit, coreVars, RInv
  <2> QED
    BY <1>1, <1>2, <2>1, <2>2 DEF ModuleInit, Registered, RInv
<1>3. CASE pcie_enumerate_existed_devs
  <2>1. Registered /\ Registered' /\ op' # "rundown"
    BY <1>3 DEF pcie_enumerate_existed_devs, Registered, LockFree
  <2>2. ASSUME NEW s \in Slot PROVE EntryMove(devs[s], devs'[s])
    <3>1. PICK d \in OrNull(Dev) :
            /\ d # NULL => d \in Existing(s) /\ ~devs[s].in_use
            /\ devs'[s] = IF d = NULL THEN devs[s] ELSE AddedEntry(d)
      BY <1>3 DEF pcie_enumerate_existed_devs
    <3>2. CASE d = NULL
      BY <3>1, <3>2 DEF EntryMove
    <3>3. CASE d # NULL
      <4>1. d \in Dev /\ DevKind[d] = "boot" /\ ~devs[s].in_use
        BY <3>1, <3>3 DEF Existing
      <4>2. devs[s].pdev = NULL
        BY <4>1, UnusedSlot
      <4> QED
        BY <1>t, <2>1, <3>1, <3>3, <4>1, <4>2, AddedMove
    <3> QED
      BY <3>2, <3>3
  <2> QED
    BY <1>t, <2>1, <2>2, MovesRefine DEF RInv, RundownNotBooting
<1>4. CASE ExitUnregister
  BY <1>1, <1>4, RundownStep DEF ExitUnregister, coreVars, Registered, RInv
<1>5. CASE ExitCancelSync \/ ExitDone
  <2>1. devs' = devs /\ Registered' = Registered /\ UNCHANGED <<op, op_dev>>
    BY <1>5 DEF ExitCancelSync, ExitDone, coreVars, Registered
  <2> QED
    BY <2>1, NoneMoves, RundownStep DEF Same, RInv
<1>6. CASE ExitRelease
  <2>1. ~Registered /\ Registered' = Registered /\ UNCHANGED <<op, op_dev>>
    BY <1>6 DEF ExitRelease, Registered
  <2>2. CASE devs' = devs
    BY <2>1, <2>2, NoneMoves, RundownStep DEF Same, RInv
  <2>3. CASE exit_i \in Slot /\ pcie_release_dev_begin(exit_i)
    <3> DEFINE f == pcie_entry_detach_pdev(devs[exit_i])
    <3>1. f \in Entry /\ f.state = devs[exit_i].state /\ EntryMove(devs[exit_i], f)
      BY <1>t, <2>3, DetachEntry, DetachMove
    <3>2. devs' = [devs EXCEPT ![exit_i] = f]
      BY <2>3 DEF pcie_release_dev_begin
    <3> HIDE DEF f
    <3>3. Cards!Next /\ KnownFunction'
      BY <2>1, <2>3, <3>1, <3>2, OneMoves
    <3>4. \A s \in Slot : devs'[s].state = devs[s].state
      BY <1>t, <2>3, <3>1, <3>2
    <3> QED
      BY <2>1, <3>3, <3>4, RundownStep DEF RInv
  <2>4. exit_i < DevMax => exit_i \in Slot
    BY PlatformAssumption DEF IInv, TypeOK, Slot
  <2> QED
    BY <1>6, <2>2, <2>3, <2>4 DEF ExitRelease
<1>7. CASE ExitRundown
  <2>1. /\ exit_i \in Slot /\ ~Registered /\ Registered' = Registered /\ UNCHANGED <<op, op_dev>>
        /\ devs' = [devs EXCEPT ![exit_i] = FreeEntry] /\ devs[exit_i].pdev = NULL
    BY <1>7 DEF ExitRundown, pcie_release_dev_end, Registered, coreVars, IInv,
                RundownTimerOff, LInv, LeavingOK
  <2>2. Cards!Next /\ KnownFunction'
    BY <1>t, <2>1, ReleaseMove, FreeEntryType, OneMoves
  <2>3. FreeEntry.state # "BOOTING"
    BY DEF FreeEntry
  <2>4. \A s \in Slot : devs'[s].state = "BOOTING" => devs[s].state = "BOOTING"
    BY <1>t, <2>1, <2>3
  <2> QED
    BY <2>1, <2>2, <2>4, RundownStep DEF RInv
<1> QED
  BY <1>2, <1>3, <1>4, <1>5, <1>6, <1>7 DEF ModNext

\* The slots take a step or stutter.
LEMMA RNext ==
  ASSUME Handled, IInv, IInv', LInv, RInv, [Next]_vars
  PROVE  [Cards!Next]_(Cards!lifeVars) /\ RInv'
<1>1. CASE UNCHANGED vars
  BY <1>1 DEF vars, Cards!lifeVars, Registered, RInv, RundownNotBooting, KnownFunction, OnSlot
<1>2. CASE BusUnlink \/ \E d \in Dev : BusScan(d) \/ BusRemove(d)
  <2>1. devs' = devs /\ Registered' = Registered /\ op' # "rundown"
    BY <1>2 DEF BusUnlink, BusScan, BusRemove, Registered
  <2> QED
    BY <2>1, NoneMoves DEF Same, RInv, RundownNotBooting
<1> QED
  BY <1>1, <1>2, RAdd, RDel, RUsers, RMod DEF Next, BusNext

----------------------------------------------------------------------------
(* The result.                                                             *)

\* Every behaviour of the driver, its PCI core, its users and its work items
\* is, slot by slot, a behaviour that SlotLifecycle allows.
THEOREM ImplementsLifecycle ==
  ASSUME Handled PROVE Spec => CardsLiveByLifecycle
<1>1. Init => Cards!Init /\ RInv
  BY FreeCard DEF Init, Cards!Init, Registered, RInv, RundownNotBooting, KnownFunction
<1>2. ASSUME IInv, IInv', LInv, RInv, [Next]_vars
      PROVE  [Cards!Next]_(Cards!lifeVars) /\ RInv'
  BY <1>2, RNext
<1>3. Spec => [](IInv /\ LInv)
  BY LifetimeInvariant, PTL
<1> QED
  BY <1>1, <1>2, <1>3, PTL DEF Spec, CardsLiveByLifecycle, Cards!Spec

=============================================================================
