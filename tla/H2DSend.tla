------------------------------- MODULE H2DSend -------------------------------
(***************************************************************************)
(* pcie_ioctl_h2d_send_file and pcie_ioctl_h2d_send_buffer: a file or a    *)
(* user buffer goes to the memory of a connected card, chunk by chunk.     *)
(* Only the check of the slot holds the driver lock; everything after it   *)
(* runs on a copy of the bus number, while the slots go on with their life *)
(* (SlotLifecycle).  The transfer itself is pci_turbo_bus_xfer_h2d of a    *)
(* sibling module, which may be loaded and unloaded: external, like the    *)
(* file and the user memory that the data comes from.                      *)
(*                                                                         *)
(* Data is counted in units; unit k of a request is its k-th.  Addresses   *)
(* are taken modulo AddrMod, 2^64 in the code.                             *)
(***************************************************************************)
EXTENDS Integers, FiniteSets

CONSTANTS
  Slot,
  Thread,
  Ops,       \* the ioctls in use: file, buffer
  AddrMod,
  ChunkMax,  \* AMBA_PCI_H2D_CHUNK_MAX
  MaxLen,    \* bound: the longest file or buffer
  MaxCards,  \* bound: how many functions come up in a slot
  Env,       \* "wrap": files may reach beyond the last endpoint address
  NULL

ASSUME H2DAssumption ==
  /\ AddrMod \in Nat \ {0} /\ ChunkMax \in Nat \ {0}
  /\ MaxLen \in 1 .. AddrMod /\ MaxCards \in Nat
  /\ Ops \subseteq {"file", "buffer"} /\ Env \subseteq {"wrap"}
  /\ NULL \notin Slot

VARIABLES
  status, function, listening,  \* the slots: SlotLifecycle
  card,        \* per slot, how many functions have come to it: tells cards apart
  turbo,       \* the module that exports pci_turbo_bus_xfer_h2d is loaded
  turbo_refs,  \* references taken on it by symbol_get
  th,          \* the calls
  sent         \* per call and endpoint address, the unit that it put there, and on which card

lifeVars == <<status, function, listening>>
vars == <<lifeVars, card, turbo, turbo_refs, th, sent>>

Life == INSTANCE SlotLifecycle

Addr == 0 .. AddrMod - 1
NoUnits == [first |-> 0, n |-> 0]
Nowhere == [a \in Addr |-> NULL]

\* A request that passes the checks in front of the lock.  src_user_ptr is
\* checked like ep_addr; user memory is modelled by positions only.
Request == [op : Ops, slot : Slot, ep_addr : Addr, size : 0 .. MaxLen]

\* Defect: the end of the range on the endpoint is not checked.
Accepted_NoRangeCheck(r) == r.ep_addr # 0 /\ (r.op = "buffer" => r.size # 0)

Accepted(r) ==
  /\ r.ep_addr # 0
  /\ r.op = "buffer" => r.size # 0 /\ r.ep_addr <= (AddrMod - 1) - r.size

\* size is the length of the file for send_file, which learns it by reading.
\* pos: how far the source has been read; ep_addr: where the next chunk goes;
\* kbuf: the units in the kernel buffer; on: the card the slot check has seen.
Call == [op : {"file", "buffer"}, slot : Slot, base : Addr, size : 0 .. MaxLen,
         pc : {"check", "get", "open", "alloc", "read", "xfer",
               "free", "close", "put", "done"},
         held : SUBSET {"sym", "file", "kbuf"}, ret : {"ok", "error"},
         pos : 0 .. MaxLen, ep_addr : Addr,
         kbuf : [first : 0 .. MaxLen, n : 0 .. MaxLen], on : 0 .. MaxCards]

Idle == [op |-> "none"]
Busy(t) == th[t] # Idle
At(t, pc) == Busy(t) /\ th[t].pc = pc

Init ==
  /\ Life!Init
  /\ card = [s \in Slot |-> 0]
  /\ turbo = FALSE /\ turbo_refs = 0
  /\ th = [t \in Thread |-> Idle]
  /\ sent = [t \in Thread |-> Nowhere]

----------------------------------------------------------------------------
(* The world around a call.                                                *)

\* The slots live on.  The module is not unloaded while its device is open.
SlotsMove ==
  /\ Life!Next
  /\ ~listening' => \A t \in Thread : ~Busy(t)
  /\ card' = [s \in Slot |-> IF function[s] = "none" /\ function'[s] # "none"
                             THEN card[s] + 1 ELSE card[s]]
  /\ \A s \in Slot : card'[s] <= MaxCards
  /\ UNCHANGED <<turbo, turbo_refs, th, sent>>

\* Modules with users are not unloaded.
TurboLoads ==
  /\ turbo => turbo_refs = 0
  /\ turbo' = ~turbo
  /\ UNCHANGED <<lifeVars, card, turbo_refs, th, sent>>

----------------------------------------------------------------------------
(* The calls.  Go is a step that stays within the thread.                  *)

Go(t, pc, call) ==
  /\ th' = [th EXCEPT ![t] = [call EXCEPT !.pc = pc]]
  /\ UNCHANGED <<lifeVars, card>>

Fails(t, pc) ==
  /\ Go(t, pc, [th[t] EXCEPT !.ret = "error"])
  /\ UNCHANGED <<turbo, turbo_refs, sent>>

Enter(t, r) ==
  /\ ~Busy(t) /\ listening /\ Accepted(r)
  /\ r.op = "file" /\ "wrap" \notin Env => r.ep_addr + r.size <= AddrMod
  /\ th' = [th EXCEPT ![t] =
       [op |-> r.op, slot |-> r.slot, base |-> r.ep_addr, size |-> r.size,
        pc |-> "check", held |-> {}, ret |-> "ok",
        pos |-> 0, ep_addr |-> r.ep_addr, kbuf |-> NoUnits, on |-> 0]]
  /\ sent' = [sent EXCEPT ![t] = Nowhere]
  /\ UNCHANGED <<lifeVars, card, turbo, turbo_refs>>

Ready(s) == status[s] = "connected" /\ function[s] # "none"

\* The locked section, with the wait for the driver lock in front of it.  The
\* lock is not a variable: that it is taken is the step not happening yet, and
\* as a removal may keep it for ever, no fairness is given to this step.
CheckSlot(t) ==
  /\ At(t, "check")
  /\ \/ /\ Ready(th[t].slot)
        /\ Go(t, "get", [th[t] EXCEPT !.on = card[th[t].slot]])
        /\ UNCHANGED <<turbo, turbo_refs, sent>>
     \/ ~Ready(th[t].slot) /\ Fails(t, "done")

\* Defect: the symbol is looked up, its module not held.
SymbolGet_NoHold(t) ==
  /\ At(t, "get")
  /\ \/ /\ turbo
        /\ Go(t, IF th[t].op = "file" THEN "open" ELSE "alloc",
              [th[t] EXCEPT !.held = {"sym"}])
        /\ UNCHANGED <<turbo, turbo_refs, sent>>
     \/ ~turbo /\ Fails(t, "done")

SymbolGet(t) ==
  /\ At(t, "get")
  /\ \/ /\ turbo
        /\ turbo_refs' = turbo_refs + 1
        /\ Go(t, IF th[t].op = "file" THEN "open" ELSE "alloc",
              [th[t] EXCEPT !.held = {"sym"}])
        /\ UNCHANGED <<turbo, sent>>
     \/ ~turbo /\ Fails(t, "done")

FilpOpen(t) ==
  /\ At(t, "open")
  /\ \/ /\ Go(t, "alloc", [th[t] EXCEPT !.held = @ \cup {"file"}])
        /\ UNCHANGED <<turbo, turbo_refs, sent>>
     \/ Fails(t, "put")

\* Defect: the label of the buffer ioctl in the file ioctl.
AfterNoBuffer_PutOnly(op) == "put"

\* Where a failed allocation goes to.
AfterNoBuffer(op) == IF op = "file" THEN "close" ELSE "put"

Vmalloc(t) ==
  /\ At(t, "alloc")
  /\ \/ /\ Go(t, "read", [th[t] EXCEPT !.held = @ \cup {"kbuf"}])
        /\ UNCHANGED <<turbo, turbo_refs, sent>>
     \/ Fails(t, AfterNoBuffer(th[t].op))

LeastOf(a, b) == IF a < b THEN a ELSE b

\* How much one kernel_read, which may return less than it was asked for, or
\* one copy_from_user, which is all or nothing, puts into the kernel buffer.
ChunkSizes(c) ==
  LET most == LeastOf(c.size - c.pos, ChunkMax)
  IN IF c.op = "file" THEN 1 .. most ELSE {most} \ {0}

\* Defect: kernel_read is given a copy of the position.
NextPos_Kept(c, n) == IF c.op = "file" THEN c.pos ELSE c.pos + n

\* kernel_read advances the file position; the buffer ioctl adds to offset
\* after the transfer, which nothing between the two can tell.
NextPos(c, n) == c.pos + n

ReadChunk(t) ==
  /\ At(t, "read")
  /\ \/ \E n \in ChunkSizes(th[t]) :
          /\ Go(t, "xfer", [th[t] EXCEPT !.kbuf = [first |-> th[t].pos, n |-> n],
                                         !.pos = NextPos(th[t], n)])
          /\ UNCHANGED <<turbo, turbo_refs, sent>>
     \/ /\ th[t].pos = th[t].size
        /\ Go(t, "free", th[t])
        /\ UNCHANGED <<turbo, turbo_refs, sent>>
     \/ /\ th[t].op = "file" \/ th[t].pos < th[t].size
        /\ Fails(t, "free")

\* The unit of kbuf that a transfer of its n units to ep_addr puts at a.
UnitAt(c, a) == c.kbuf.first + ((a - c.ep_addr) % AddrMod)

\* Defect: every chunk goes to the address in the request.
NextEpAddr_Base(c) == c.base

NextEpAddr(c) == (c.ep_addr + c.kbuf.n) % AddrMod

\* pci_turbo_bus_xfer_h2d, external: the data goes to whatever card is on the
\* bus, or the call fails.
H2dXfer(t) ==
  /\ At(t, "xfer")
  /\ \/ LET c == th[t] IN
        /\ function[c.slot] = "virtio"
        /\ sent' = [sent EXCEPT ![t] =
             [a \in Addr |-> IF (a - c.ep_addr) % AddrMod < c.kbuf.n
                             THEN [card |-> card[c.slot], unit |-> UnitAt(c, a)]
                             ELSE @[a]]]
        /\ Go(t, "read", [c EXCEPT !.ep_addr = NextEpAddr(c), !.kbuf = NoUnits])
        /\ UNCHANGED <<turbo, turbo_refs>>
     \/ Fails(t, "free")

\* vfree, close_file, put_sym: one label falls through to the next.
Unwind(t) ==
  \/ /\ At(t, "free")
     /\ Go(t, AfterNoBuffer(th[t].op), [th[t] EXCEPT !.held = @ \ {"kbuf"}])
     /\ UNCHANGED <<turbo, turbo_refs, sent>>
  \/ /\ At(t, "close")
     /\ Go(t, "put", [th[t] EXCEPT !.held = @ \ {"file"}])
     /\ UNCHANGED <<turbo, turbo_refs, sent>>
  \/ /\ At(t, "put")
     /\ turbo_refs' = turbo_refs - 1
     /\ Go(t, "done", [th[t] EXCEPT !.held = @ \ {"sym"}])
     /\ UNCHANGED <<turbo, sent>>

Return(t) ==
  /\ At(t, "done")
  /\ th' = [th EXCEPT ![t] = Idle]
  /\ sent' = [sent EXCEPT ![t] = Nowhere]
  /\ UNCHANGED <<lifeVars, card, turbo, turbo_refs>>

\* What a call does without the driver lock, once it has had it.
PastLock(t) ==
  \/ SymbolGet(t) \/ FilpOpen(t) \/ Vmalloc(t)
  \/ ReadChunk(t) \/ H2dXfer(t) \/ Unwind(t) \/ Return(t)

CallStep(t) == CheckSlot(t) \/ PastLock(t)

Next ==
  \/ SlotsMove \/ TurboLoads
  \/ \E t \in Thread : CallStep(t) \/ \E r \in Request : Enter(t, r)

Spec == Init /\ [][Next]_vars

\* Every call is a thread of its own; a file is finite, its reads return.  The
\* wait for the driver lock need not end (RebootReturns, LockComesFree).
FairSpec == Spec /\ \A t \in Thread : WF_vars(PastLock(t))

----------------------------------------------------------------------------
TypeOK ==
  /\ status \in [Slot -> Life!Status] /\ function \in [Slot -> Life!Function]
  /\ listening \in BOOLEAN
  /\ card \in [Slot -> 0 .. MaxCards]
  /\ turbo \in BOOLEAN /\ turbo_refs \in 0 .. Cardinality(Thread)
  /\ \A t \in Thread : Busy(t) => th[t] \in Call
  /\ sent \in [Thread -> [Addr -> {NULL} \cup [card : 0 .. MaxCards, unit : 0 .. MaxLen]]]

Succeeded(t) == At(t, "done") /\ th[t].ret = "ok"

\* What the call should have put at address a of the endpoint.
Wanted(t, a) == a - th[t].base \in 0 .. th[t].size - 1

\* A call that reports success has put every unit of its source at its own
\* address of the endpoint and nothing anywhere else, whatever short reads it
\* met, if the card it found at its slot check is still the slot's.
Delivered ==
  \A t \in Thread : Succeeded(t) /\ card[th[t].slot] = th[t].on =>
    \A a \in Addr :
      sent[t][a] = IF Wanted(t, a)
                   THEN [card |-> th[t].on, unit |-> a - th[t].base] ELSE NULL

\* A call that reports success has put its data on one card: the bus number
\* that it goes on using after the unlock meant one card all the time.
OneCard ==
  \A t \in Thread : Succeeded(t) =>
    \A a \in Addr : sent[t][a] # NULL => sent[t][a].card = th[t].on

\* Nothing is written below the address in the request, in particular not to
\* the low memory that the test of ep_addr is there to protect.
LowMemSafe ==
  \A t \in Thread : Busy(t) => \A a \in Addr : a < th[t].base => sent[t][a] = NULL

\* Each way out of the ladder gives back what was taken, once: the sibling
\* module is referenced by exactly the calls that will put it, and a call that
\* has returned leaves no file open and no buffer allocated.
NothingLeaks ==
  /\ turbo_refs = Cardinality({t \in Thread : Busy(t) /\ "sym" \in th[t].held})
  /\ \A t \in Thread : At(t, "done") => th[t].held = {}

\* The sibling module's code is called only while it cannot be unloaded.
CallsLoaded ==
  \A t \in Thread : At(t, "xfer") => turbo /\ {"sym", "kbuf"} \subseteq th[t].held

\* A call that has been through the locked section, and so waits for the driver
\* lock no more, returns, on finite files, whatever happens to the slot, to the
\* card and to the sibling module.  A call still in front of the lock may wait
\* for ever: the code gives no more.
Returns == \A t \in Thread : Busy(t) /\ ~At(t, "check") ~> ~Busy(t)

=============================================================================
