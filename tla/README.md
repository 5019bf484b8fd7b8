# Verification of the amba_pci_platform driver

TLA+ models of `amba_pci_platform.ko`, the Linux driver that looks after
Ambarella PCIe cards: it notices them on the bus, sends them their firmware
through a ring in a BAR, follows their boot, sends files and buffers to their
memory, and shows them under `/proc/amba_pci_platform` and
`/dev/amba_pci_platform`.

## The system

| Part | State it keeps | Operations | What makes it correct |
|---|---|---|---|
| Slot table (`main.c`, `internal.h`, `table.c`) | per slot: `in_use`, `state`, `pdev`, `boot_bar`, `boot_mem_base`, `board_info`, `proc_dir`; all under `g_pcie_drv.lock` | init, detach, release, reconnect, refresh of board data | one reference per stored device, mappings and board data belong to the card in the slot, a released slot is blank; users see a card live one well-defined life |
| Bus notifier (`main.c` 973-1067) | - | ADD: init or reconnect a slot; DEL: detach (while BOOTING) or release | a slot never outlives its card unnoticed; the PCI core is never held up |
| Boot timeout (`main.c` 148-169) | a delayed work per slot | schedule, cancel (not synchronous), expire | every boot ends |
| Firmware request (`main.c` 214-304) | the request | range and type checks, search by type, padding, load addresses | reads only what the user declared; success means three whole images, as far as the lengths allow it |
| Firmware ring (`transfer.c` 166-474) | header words, descriptors, data blocks in the BAR | wait, post data, post command, poll | images arrive whole, before their address is announced, inside the mapping; the ioctl returns |
| H2D ioctls (`main.c` 306-473) | the call: symbol, file, kernel buffer, positions | slot check, symbol_get, open, allocate, read, transfer, unwind | every exit gives back what was taken; success means every byte in place |
| Proc nodes (`main.c` 509-943) | a directory per slot in use, five nodes | create, undo a failed creation, remove; status, dev_info, net, dev_log, reboot | all or nothing; handlers return; no use of a freed device |
| Load and unload (`main.c` 1069-1220) | what has been registered | init with a failure at each step, error path, scan for existing cards, exit | nothing of the module is left; nothing outlives what it is built on |

How they interact. Everything that changes a slot holds one mutex. The PCI
core calls the notifier with its own rescan/remove mutex held; the firmware
ioctl and the reboot node call into the PCI core (`pci_stop_and_remove_bus_
device_locked`), which takes that mutex and calls the notifier back in the same
thread. `pcie_release_dev` removes the slot's proc directory with the driver
lock held, and procfs makes it wait until no thread is inside a handler of that
directory. The firmware ioctl, the reboot node, net and dev_log load `e->pdev`
without the lock; the H2D ioctls go on with a copy of the bus number. The host
and the card's boot firmware share the ring.

Hard to test here: the orders in which hot-plug, users, the work item and rmmod
meet at one slot; the window between an unlock and the unlocked use of `e->pdev`;
the wait for proc handlers under two locks; counters that wrap; a card that
stops, or vanishes, in the middle of a transfer; a retry of a failed transfer; the
one failure among many steps that have to be undone. `PROJECT.json` lists these
hazards line by line.

The repository's own README speaks of scatter-gather DMA, translation windows
and IPC transports. No source in this repository implements these; the headers
`include/pci-*.h` declare interfaces of sibling modules.

## Modules

| Module | Models |
|---|---|
| `AmbaPciPlatform` | slot table, notifier, boot timeout, query and firmware ioctl (from the lock on, without the transfer), proc handlers, load and unload; the PCI core, the workqueue and procfs as far as the driver relies on them |
| `SlotLifecycle` | abstract: the life of a card as users see it |
| `AmbaPciPlatformCards` | the refinement mapping between the two |
| `FwRequest` | a firmware request as data: checks, search, chunks, places |
| `PcieRing` | one firmware request on the ring, the endpoint, faults and retries |
| `FwDelivery` | abstract: how the images reach the endpoint's memory |
| `RingGeometry` | where in the BAR the ring code writes, in bytes |
| `H2DSend` | the two H2D ioctls, composed with `SlotLifecycle` for the slots |
| `ProcNodes` | one slot's directory, node by node, and who waits for whom |
| `ModuleLoad` | init with all its failures, exit, and what goes on meanwhile |
| `AmbaPciPlatformProofs`, `AmbaPciPlatformLifetime`, `FwRequestProofs`, `PcieRingProofs`, `RingGeometryProofs`, `H2DSendProofs`, `ProcNodesProofs`, `ModuleLoadProofs` | theorems |
| `MC...` | instances for TLC |

Operators keep the names of the functions they model. An operator whose comment
begins with *Defect:* is a plausible mistake in the operator below it; it is not part
of the model and exists to show that a property would notice.

### AmbaPciPlatform

`devs` is `g_pcie_drv.devs`; `boot_bar`, `boot_mem_base` and `board_info` hold
the device they were obtained from, so that a stale one can be told from a
fresh one. `refs` counts the driver's `pci_dev_get`. `bus` is the PCI core's
view of each `pci_dev` object: not allocated, on the device list, or removed but
still referenced. `op`, `op_dev`, `op_by` describe the hot-add or hot-remove that
owns the rescan mutex. `timer[s]` is a pending `boot_timeout_work`,
`worker[s]` a `pcie_boot_timeout_fn` that has started and waits for the lock.
`th` has what each user thread runs, how far it is, and the value of `e->pdev` it
loaded.

Granularity. A locked section is one action guarded by `LockFree`, because
nothing that reads or writes the slot under the lock can run in between. The
unlocked reads of `e->pdev` could: they are actions of their own, and of what a
section assigns they see only `pdev`, which every section assigns once. The
exception is `pcie_release_dev`, which sleeps inside `remove_proc_subtree`: it is
split at that point (`pcie_release_dev_begin`, `pcie_release_dev_end`) and the
lock is not free in between. The order of DEL handling is the kernel's: the
notifier runs before the device leaves the list, and the core's reference goes
last. `pci_stop_and_remove_bus_device_locked` of a device that has already been
removed, but is still referenced, does nothing; of a freed or NULL one it is
undefined (`pc = "ub"`, and `op = "dead"` because the rescan mutex is then held
by a thread that has died).

`Env` says what happens around the driver. `"unplug"`: someone else removes
cards. `"rmmod"`: the module is unloaded (and loaded again). `"multi"`: two
functions can be on one bus number at a time. `"init_race"`: the load-time scan
may meet a device whose removal has been announced but that is still on the list.
The last two are real possibilities the driver does not handle; the passing runs
leave them out. `ProcOps` are the proc nodes users exercise.

`FreedOnlyByBoot`: net and dev_log read `e->pdev` with neither lock nor
reference. That the device is never freed under them is not true; the property
says what is: `pcie_release_dev` waits for them, so only the removal in a boot,
which keeps the slot and its nodes, can take the device away.

### SlotLifecycle and its refinement

Per slot a `status` (absent, waiting, booting, connected, rebooting, failed) and
the `function` it holds (none, boot, virtio); `listening` says whether hot-plug
is delivered. The moves are what a user may rely on: firmware goes to a waiting card only, a
card comes up only out of a boot whose first function has gone, a timeout fails a
boot and nothing else, a failed boot is final, no function is left in a slot that
is given up, a booting card keeps its slot. There is no lock, timer,
reference, notifier or thread in it. `AmbaPciPlatformCards` maps `in_use` and `state` to
`status` and the kind of `pdev` to `function`; `pcie_release_dev` in two steps
becomes Detach and Release, the load-time scan several slots' Appear at once, and
everything else a stutter. `CardsLiveByLifecycle` is `Cards!Spec`.

`H2DSend` does not run on the slot table itself but on `SlotLifecycle`: what it
reads of a slot is there, and every behaviour of the table is one of these.

### FwRequest

The checks in `pcie_ioctl_xfer_firmware` one image at a time, on 64-bit words
modulo `WordMod`; `fw_req_bitmap` as the set of its bits; the loop over
`pcie_fw_xfer_order`; in `pcie_ring_xfer_user` the padding to 16 bytes, what
`copy_from_user` reads and where the chunk lands. A unit of the blob is named by its
offset, so that `mem` shows which byte is at which address. A posted chunk
arrives or the request fails: the ring in between is `PcieRing`. Which image the
user meant is nobody's concern here; overlapping images in the blob are allowed.
`SizeMod` is the number of values of the 32-bit size that goes with
SET_INITRD_ADDR. Every length that the checks of the code let through is let through.
The driver does not compare a length with the room at its load address, nor look
whether its padding fits a u64 or the length of a rootfs a u32. So `ImagesWhole` promises an
image only where no later one reaches into it (`NotReached`) and its padding does not
wrap, and the announced size only where a u32 holds it; `AlwaysWhole`, without these
conditions, fails in each of three ways (`fw_overlap.cfg`, `fw_huge.cfg`,
`fw_initrd.cfg`). `Env = {"bigtype"}` adds types of 32 and more, which are accepted by the
code and break `ImageFound`; the run leaves them out.

### PcieRing

The lock is held during a request, so the only actors are the host (one action
per wait and per group of MMIO writes whose order matters: descriptor, data
block, `used`), the endpoint, and faults. Reads that belong together in the code are
apart where the card may vanish between them: `CtxNum`, `CtxMaxBlk` and `CtxAvail` of
`pcie_ring_ctx_init`, `PollUsed`, `PollNum` and `PollAvail` of `pcie_ring_xfer_poll`,
whose values so far are in `polled`. Header words are counted modulo
`WordMod`, 2^32 in the code. Images are sequences of 512-byte chunks; chunk
`<<i, k>>` names both contents and load address, and `mem` is what the endpoint
has at that address. `set[i]` records whether image i was whole when its
SET_*_ADDR descriptor was carried out.

The endpoint is not in the repository. The model takes what the host relies on:
`avail` starts `num` ahead of `used`, and the endpoint takes the descriptor at
`(avail - num) % num` and increments `avail` while `used # avail - num`. The
host's own arithmetic fixes this: `cur_avail = avail - num` at the start, wait while
`avail = cur_avail`, done when `used + num = avail`.

`Faults`: `"timeout"`, `"efault"` (also a failed `kmalloc`), `"vanish"` (reads
return all ones, writes are lost). `Drained` restricts retries to moments when the
endpoint has caught up.

Success is delivery, with one exception that the code really has: a card that
vanishes between the reads of the final poll may be taken for one that has finished.
With `used = 0` read before and two words of all ones after it, `used + num == avail`.
`LostInPoll` is that situation. `DeliveredOnSuccess` says that it is the only way
to a success without delivery, and that it can cost the last image only: after an earlier
one the host polls again, and a poll that begins when the card is gone reads all ones for
all three words, which do not add up. `SuccessIsDelivery` is the claim without the
exception, and fails in `ring_poll.cfg`.

The ring works only if `num` divides the number of values of
a word: `cur_avail % num` otherwise jumps where the counter wraps, and goes to a
descriptor that is in use. The code does not check it, and the module does not assume it;
the runs and the theorems about delivery do.

### FwDelivery and its refinement

What the ring is for: a `result`, the endpoint's memory and the announced
addresses. A chunk lands behind all that comes before it, on an empty place; an
address is announced when its image is whole and before the next image begins;
success comes last, except that once the card has vanished (`gone`) the last image may be
missing. A request may fail at any time, chunks on their way may still
land, and a second attempt finds in place what the first has delivered. There is
no ring, counter, block, poll or timeout. `PcieRing` maps `pc` to `result` and keeps
`mem`, `set` and `gone`; every step of the host that does not end the request is a stutter,
and so is a chunk that a second attempt delivers again. `DeliversInOrder` is
`Delivery!Spec`.

### RingGeometry

`PcieRing` has the header, the descriptors and the data blocks in separate
variables. Here they are byte ranges of one mapping: the offsets of
`pcie_ring_desc` and `pcie_ring_data_blk`, the size check of
`pcie_ring_ctx_init` in 32 bits, and the last write as `what`, `from`, `len`, for
every value of the counters. That the descriptors fit the header block
(`GeometryAssumption`) is the endpoint's promise; the driver does not check it.

### H2DSend

One record per call: where it is (`pc`, one value per line that can fail and per
label of the unwinding ladder), what it `held`s, how far the source has been read
(`pos`), where the next chunk goes (`ep_addr`, modulo `AddrMod`, 2^64 in the
code), what is in the kernel buffer. `sent` records per endpoint address which
unit a call put there and on which card; `card` counts the functions that have come up in a
slot, to tell a replaced card. Short reads of `kernel_read` are modelled, with
every length; `copy_from_user` is all or nothing. The sibling module that exports
`pci_turbo_bus_xfer_h2d` may load and unload whenever it is not referenced.
`Env = {"wrap"}` allows files that reach beyond the last endpoint address.
`CheckSlot` is the locked section together with the wait for the driver lock. The lock
is no variable here; that it is taken means that the step does not come yet. Because
a release may keep the lock for ever (finding 1, `proc_deadlock.cfg`), `CheckSlot` has no
fairness, and `Returns` is about calls that are past it.

### ProcNodes

`pcie_create_proc_nodes` in its steps, each of which may fail, its error path,
and `pcie_release_dev`; users enter a node as soon as it is there, before the rest
has been created. `AmbaPciPlatform` takes the creation for one step. `dying` are
the nodes `remove_proc_subtree` has closed and still has to wait for. The
handlers are reduced to what matters for waiting: whether they take the lock (`waits`),
and whether they remove the card (`removes`): a reboot write that has found the slot
CONNECTED gives the lock back and calls `pci_stop_and_remove_bus_device_locked`
(`RebootRemoves`), which does not return before the handler it is called from has.

### ModuleLoad

Six registrations in the order of `amba_pci_platform_init`; `have` is what the
kernel has registered, `known` what the code's flags and pointers say, so that a
step that is undone without having been done, or the reverse, shows. `proc_mkdir` is not
checked by the code: a missing `proc_root` is put up with, and then no slot can be
initialised. Slots are in use or not; the detail is in `AmbaPciPlatform`.
`Env = {"early_open"}` lets users open the device before init has returned.

## Runs

| Run | Bounds | Shows |
|---|---|---|
| `slots_churn` | 2 slots; b1, v1, b2; 2 threads; all proc nodes; unplug, rmmod | references balanced, mapping and board data of the right card, states fit the function present, timeout armed while booting, free slots blank, nothing left after rmmod, slots never point to a device off the bus, the WARN_ONCE is not reached, readers lose the device only to a boot; and the refinement |
| `slots_ptr` | 2 slots; b1, v1, b2, v2; 2 threads; reboot, dev_info | the unlocked loads of `e->pdev` are safe while only this driver removes cards |
| `slots_live` | 1 slot; b1, v1 and a foreign function x1; 1 thread; unplug, rmmod; no proc nodes | every boot ends; hot-add and hot-remove complete |
| `slots_reboot` | 1 slot; v1; 1 thread | *violation*: a reboot write never returns |
| `ring_faults` | 3 descriptors, 4 blocks, words modulo 9, images of 1, 2, 6 chunks, 2 attempts, every start value of the counters and every BAR length up to 6 blocks, all faults | data intact, SET after data, success means delivered up to what vanishes with the card in the last poll, ring never overrun; the ioctl returns; and the refinement |
| `ring_live` | the same, 1 attempt, no faults | the request succeeds; writes stay inside the mapping |
| `ring_retry` | 2 descriptors, 3 blocks, copy failure, retry at any time | *violation*: success without delivery |
| `ring_geometry` | the code's sizes (80, 20 and 512 bytes); 1, 2, 3, 21 descriptors; 1 to 4 blocks; BARs of 256 to 2816 bytes; words modulo 24 | descriptors and data stay apart and inside |
| `fw_request` | words modulo 8, u32 modulo 6, 4-bit bitmap, blocks of 4, padding to 2, blobs of 3 and 7 units, load addresses 0 (kernel), 4 (DTB), 6 (rootfs); every type, offset and length | reads inside the blob, an image for each round, three images whole unless one reaches into another or a length does not fit its word |
| `h2d` | 1 slot, 1 thread, addresses modulo 8, up to 5 units in chunks of 2, 2 cards | nothing leaks, symbol held when called, success means delivered, low memory untouched, calls that are past the driver lock return |
| `proc_nodes` | 2 threads, all five nodes | all or nothing, nobody inside what is gone, only a user who waits for the lock or for its own removal, inside a dying node, can block |
| `module_load` | 2 users, 2 slots | nothing left, nothing outlives its base, nobody enters an unprepared driver |

Why the bounds are enough. Slots interact only through the lock, the rescan
mutex, user threads and the exit loop; two slots and two threads give every pair of
these. One slot sees both functions of a card, so that every path of its state
machine, a re-plug included, is taken; the second has a boot function only.
Devices are reused after they are freed, so that a slot can go round any number of times.
`slots_live` has one slot because its questions are about one slot and one
operation at a time.
In the ring, the longest image is longer than both rings, the three together post
12 descriptors on counters modulo 9 and start anywhere: each counter wraps in
every phase of a transfer. `num` and `max_blk` are coprime so that the two rings
drift apart. 21 descriptors are as many as the header block has room for, and 21 does
not divide the word size. In `fw_request` offset plus length overflows the word, an
image takes up to two chunks, padding wraps, a length does not fit `SizeMod`, and images
fit their room, just fit it, and reach over one and over two load addresses. In `h2d` five units are three
chunks, or five with short reads, the last address is within reach, and the card is replaced once;
calls share only the reference count of the sibling module, and what two of them
do to it is proved for any number. What is proved (below) holds beyond all these bounds.

All runs say CHECK_DEADLOCK FALSE: the ring and the request end when the ioctl has
returned, an H2D instance ends when its cards are used up, the proc directory
and the slot table really can stop (see the first finding), and a module that
nobody loads again rests.

### Fairness

A step that only needs its own thread is weakly fair. A step that waits for the
driver lock or the rescan mutex is strongly fair: kernel mutexes hand over to
their waiters. The wait in `remove_proc_subtree` is strongly fair in the slot table, where it
waits for whoever is inside at the time: procfs turns
new users away while it waits; in `ProcNodes`, which models that, it is weakly fair.
`TimerFire` is weakly fair: a pending timer expires. Users,
hot-plug, load and unload requests carry no fairness, except that an rmmod, once begun,
goes on. In the ring, `HostFairSpec` has the host's thread, and strong fairness of
`PollTimedOut`: a poll looks at the clock before every round and never blocks, so
that it comes to its deadline although it could always begin another round. The waits
for one word are one step each, and weak fairness does. `FairSpec` adds an endpoint that
keeps consuming. In `H2DSend` each call is a thread of its own and files are finite; the
step that waits for the driver lock has no fairness, since nothing bounds how long
a removal keeps it. `ProcNodes` gives fairness neither to a user in a removal nor to the removal
itself.

## Findings

1. **Reboot waits for itself** (`main.c:666`, run `slots_reboot`). The write
   removes the device, the notifier releases the slot, and
   `remove_proc_subtree` waits for the write to leave its handler. The driver lock
   and the rescan mutex stay taken.
2. **Retry out of step** (`transfer.c:324`, run `ring_retry`). A request that
   fails half-way leaves `used` ahead of `avail - num`; the next request starts
   from `avail - num` all the same, and succeeds without delivering.

The passing runs exclude some situations which the code accepts and does not
handle. Each has a configuration beside the runs that lets it in and makes TLC
produce the counterexample (`tlc -config X.cfg MCY.tla`):

| Configuration | Module | What fails |
|---|---|---|
| `slots_multi.cfg` | `MCAmbaPciPlatform` | `ReconnectWithoutPdev`: slots are identified by bus number only; a virtio function that appears before the boot function is removed reaches the WARN_ONCE (`main.c:964`), `e->pdev` is overwritten, its reference and mapping leak |
| `ring_poll.cfg` | `MCPcieRing` | `SuccessIsDelivery`: the three reads of the poll (`transfer.c:229-231`) around the moment the card vanishes add up, and the ioctl returns 0 although the last image is not there |
| `ring_vanish.cfg` | `MCPcieRing` | `InBounds`: `max_blk + 1U` is 0 for a card that reads as all ones (`transfer.c:315`), the size check passes and the host writes behind the mapping |
| `ring_num.cfg` | `MCPcieRing` | `SetAfterData` (and `MemIntact`, `DeliveredOnSuccess`): 3 descriptors on words modulo 8; where the counter wraps, `cur_avail % num` (`transfer.c:187`) is a descriptor the endpoint has yet to read |
| `h2d_wrap.cfg` | `MCH2DSend` | `LowMemSafe`: the file ioctl advances `ep_addr` without the check of the buffer ioctl (`main.c:385`, `418`); a file longer than the addresses left goes on at address 0, which line 328 calls unsafe |
| `h2d_replug.cfg` | `MCH2DSend` | `OneCard`: the bus number is used after the unlock (`main.c:349`); a card replaced between two chunks gets the rest, and the ioctl returns 0 |
| `fw_overlap.cfg` | `MCFwRequest` | `AlwaysWhole`: no length is compared with the room between the load addresses (`transfer.h:65-70`); a long DTB is overwritten by the rootfs, a long kernel overwrites both |
| `fw_initrd.cfg` | `MCFwRequest` | `AlwaysWhole`: a rootfs longer than a u32 is announced with its size cut (`transfer.c:459`) |
| `fw_huge.cfg` | `MCFwRequest` | `AlwaysWhole`: for a length near 2^64 the padded total is 0 (`transfer.c:416`); nothing is sent and the request succeeds |
| `fw_types.cfg` | `MCFwRequest` | `ImageFound`: `1U << type` (`main.c:247`) with a type of 32 passes for type 0 where the shift is taken modulo 32; the search then returns NULL |
| `proc_deadlock.cfg` | `MCProcNodes` | `LockComesFree`: a dev_info reader waits for the lock (`main.c:555`) that `pcie_release_dev`, or the failed creation, holds while it waits for the reader; a reboot write waits for the removal that waits for it |
| `load_open.cfg` | `MCModuleLoad` | `EntryReady`: the device is live from `cdev_add` on (`main.c:1130`); when a later step fails the module goes away under an open file |

Also not claimed, because they do not hold: `PtrSafe` with an unplug or rmmod at the
same time, or with net and dev_log readers; `PdevOnBus`, `RefsBalanced` and others
with `"multi"` or `"init_race"`; `BusOpCompletes` with dev_info or reboot users.

## Proofs

### The slot table

`AmbaPciPlatformProofs`, for every number of slots, every set of devices with any
bus numbers and kinds, any number of threads, and every `ProcOps` and `Env`, from
`PlatformAssumption` alone:

- `TypeCorrect`: `Spec => []TypeOK`. Most of it is routine; that `refs` stays
  natural is not, it says that no release puts a reference the driver does not have.
- `ReleasedSlotClean`: `Spec => []FreeSlotClean`.
- `BootingHasTimeout`: `Spec => []BootTimerArmed`.

The argument is one inductive invariant, `IInv`, the conjunction of these three with

- `PdevOwn`: a slot's device is on the slot's bus and has a reference. With
  `SlotUnique` (no two slots stand for one bus) no two slots store the same
  device, so the `pci_dev_put` of one slot leaves the reference of every other
  alone. Without it `refs \in [Dev -> Nat]` is not inductive.
- `RundownTimerOff`: while the slot's proc nodes are being removed its timeout
  stays cancelled, because only a locked section could schedule it. Without it the step
  that ends a release could free a slot with a pending timeout.
- `OpHasDev`, `CallHasSlot`: a bus operation has its device and a thread inside
  the driver has its slot.

`DetachInv` is the lemma about dropping a reference, used by removal and by
unload; `CalmInv` disposes of all steps that change no slot's device, state or
timer. One lemma per group of actions; `NextInv` puts them together.

`AmbaPciPlatformLifetime` proves six more invariants of `slots_churn` for
every value of the constants with `Handled` (`"multi"` and `"init_race"` not in
`Env`; `slots_multi.cfg` and the hazard at `main.c:1079` show what happens otherwise):
`ReferencesBalanced`, `MappingsOwned`, `StateFitsFunction`, `DevicesOnBus`,
`ReconnectClean`, `UnloadComplete`. The invariant, relative to `IInv`:

- `EntryOK` of every slot, a predicate of one entry: mapping, board data and state
  fit the device. Each operation on an entry has a lemma that it keeps `EntryOK`.
- `BusOK`, `PdevOnBus`, `LeavingOK`: one function per bus; a slot's device is on
  the list; a device about to be unlinked is in no slot. Together they give the
  key step, `NoPdevOnReconnect`: were a boot function still in the slot when the
  virtio function is announced, both would be on one bus.
- `RefsBalanced` itself; a reconnect keeps it because of that step, an init
  because an unused slot is blank (`FreeSlotClean`).
- `ExitOK`, `QuietOK`: what each stage of the exit function has already waited
  for. A thread inside a proc handler keeps its slot's directory, so the release
  of every slot means that no thread is left.

The same module proves the two properties about a pointer that is loaded without
the lock, each from an invariant of its own on top of these:

- `PointersSafe`: `PtrSafe`, with `OnlyOwnRemovals` (`Env = {}`, no net and dev_log
  readers). In `PInv` a thread that has left its locked section with the slot in
  BOOTING or REBOOTING is a `Remover`. There is one at most per slot, since the two
  locked sections start from DISCONNECTED and CONNECTED only (`PStart`); its slot
  keeps the device until its own removal is announced, since hot-add fills only slots
  without a device (`PAdd`) and every hot-remove belongs to a remover
  (`PDelNotify`). So what it loads is a device on the bus.
- `ReadersBeforeBoot`: `FreedOnlyByBoot`, with `Handled`, hence with unplug and
  rmmod. By `NInv`, in a slot that waits for firmware the device a reader has loaded is
  the slot's, or it is the one whose removal waits for the reader and is still on
  the list.

The end of the module proves the refinement, `ImplementsLifecycle`: with `Handled`, `Spec =>
CardsLiveByLifecycle`. Every change of an entry is an `EntryMove`, one of the
abstract moves or none, given the two invariants above; `MovesRefine` puts the
slots together. What the invariants do not give is `RundownNotBooting`: a slot
whose directory is being removed is not booting, so that the end of the release
is the abstract Release. `NoPdevOnReconnect` is what makes the abstract
ComeUp possible.

### The other parts

- `FwRequestProofs`: `ReadsDeclaredBlob`, for words of any width, any block size and
  any blob, in every `Env`; the invariant `RangeInv` keeps offset plus length of each
  checked image within the blob without overflow (`AcceptedInBlob`).
  `EveryImageFound`, without `"bigtype"`: `FoundInv` says that the bits set are the
  types seen, and a complete bitmap has each type at some index.
  `ImagesArrive`, without `"bigtype"`, for all lengths, load addresses and declared
  sizes: `WholeInv` says that the images of the rounds before are where they belong,
  unless a later one reaches into them, and this one up to `ep_pos`. `TotalCovers` is the arithmetic: where the padding does not wrap, the padded
  length is at least the length.
- `RingGeometryProofs`: `RingKindsApart`, `RingWritesInMapping`, for all sizes that
  satisfy `GeometryAssumption`; the arithmetic is in `DescPlace` and `BlkPlace`.
- `PcieRingProofs`, for every ring, word size and list of images that satisfy
  `RingAssumption`. `RingTypeCorrect`, with all faults. `RingInBounds`, without
  `"vanish"`: what the size check has compared stays true for the whole request
  (`BoundInv`). `RingNoOverrun`, with `Drained`: `FlowInv` relates `used`,
  `avail`, the local `cur_avail` and the words `pcie_ring_ctx_init` and the poll have read
  so far, at each step of the host, across the wrap.
  `RingMemIntact`, `RingSetAfterData`, `RingDelivers`, with `Drained`, at least as
  many blocks as descriptors, a number of descriptors that divides the word, and
  images of fewer chunks than a word has values (`DeliverAssumption`):
  `DeliverInv` says that for some count of consumed descriptors every outstanding one is
  the next of its image and its block still has its data, and that the chunks
  before have arrived; `Arrivals` says which images are all there at each step of the host. When the
  poll ends, `MatchDrained` derives from the three words that everything is consumed if the
  card is there, and `MatchLost` that otherwise it vanished between the reads: `used` was
  read from the card, so the images before this one had arrived. Timeouts, copy failures, retries and a card
  that vanishes are all allowed; `ring_retry` shows that `Drained` is needed, and
  `ring_num.cfg` that the division is. `ImplementsDelivery`, from the same
  invariant: `Spec => DeliversInOrder`. Only the endpoint moves its memory;
  `EndpointTakes` says that what it takes is the next item of the image the host
  is at, and `DeliverInv` that the images before are complete and that what is at a
  place is either nothing or the right chunk. So a step of the endpoint is the abstract Land
  or Announce, or a stutter when a retry repeats what is there; of the host's
  steps only the last poll and the failures are seen.
- `H2DSendProofs`, for any finite set of calls, any slots, cards, lengths and chunk
  sizes, with `Env = {}`: `H2DTypeCorrect`, `H2DNothingLeaks`, `H2DCallsLoaded`,
  `H2DDelivered`, `H2DLowMemSafe`. The invariant has four parts: `Ladder` (what is
  held at each line), `Position` (source, buffer and endpoint address are in
  step), `Placed` (what has been sent is exactly what has been read and
  transferred), `References` (the sibling's count is the number of holders, a
  cardinality).
- `ProcNodesProofs`, for any users and nodes opened: `ProcAllOrNothing`,
  `ProcNoneInside`; `Stages` says what there is of the directory at each stage of
  the hot-plug path, `InsideNodes` that users are in nodes that are there or dying.

- `ModuleLoadProofs`, for any users and slots: `LoadNothingLeft` and `LoadBuiltOn` in
  every `Env`, `LoadEntryReady` with `Env = {}` (`load_open.cfg` shows what happens
  otherwise). `Chain` says what is registered at each stage: while loading, all
  steps before `step` except perhaps `proc_root`; while undoing, nothing behind it;
  and that `known`, the code's own view, agrees. `Activity` says who is at work: everything
  that fills a slot goes through the notifier, the last to come and the first to go,
  so that an error path that starts without it has no slots to release. `UsersInLive` adds
  for `EntryReady` that users are inside a live module only.

Every invariant and every refinement that a passing run checks is thereby proved, under
the hypotheses named. Only model-checked: `BootResolves`, `BusOpCompletes`, `Completes`,
`OnlyWaitersBlock` and the two `Returns`; they are liveness properties, and fairness and
ENABLED are outside the prover.

## Not modelled

- `include/pci-virtio.h`, `pci-sg.h`, `pci_rdma_ioctl.h`, `pci-turbo*.h`,
  `pci-buzz.h`: declarations for sibling modules; nothing here implements them.
  What is called of them is external in `H2DSend`, or only fetches addresses to print.
- `Makefile`, `Kbuild`.
- `id`, `next_dev_id`, `proc_name` and all text of the proc nodes and the query
  record, and log messages: no behaviour depends on them.

## What is left

- `ModuleLoad` related to the load and exit of `AmbaPciPlatform`.
- `FwRequest` related to `FwDelivery`, so that a unit of the blob can be followed
  from the request through the ring.
