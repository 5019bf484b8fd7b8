------------------------------ MODULE PcieRing ------------------------------
(***************************************************************************)
(* The firmware transfer of one AMBA_PCI_XFER_FIRMWARE request: the host   *)
(* streams three images through the descriptor ring in the boot BAR, the   *)
(* endpoint consumes it (amba_pci_platform_transfer.c, and the loop of     *)
(* pcie_ioctl_xfer_firmware).  The slot's lock is held throughout, so that *)
(* the only interleaving is between the host, the endpoint and the faults. *)
(*                                                                         *)
(* An image is a sequence of 512-byte chunks; the chunk <<i, k>> stands    *)
(* both for the k-th chunk of image i and for the place it is loaded at.   *)
(* Header words are counted modulo WordMod, 2^32 in the code.              *)
(*                                                                         *)
(* The endpoint's firmware is not in the repository.  What it does follows *)
(* from what the host relies on: avail starts num ahead of used; while     *)
(* used # avail - num it takes the descriptor at (avail - num) % num,      *)
(* carries it out and increments avail.                                    *)
(***************************************************************************)
EXTENDS Integers

CONSTANTS
  Num,          \* descriptors in the ring, header word num
  MaxBlk,       \* data blocks behind the header block, header word max_blk
  MapMax,       \* bound on ring_map_size, in blocks of RING_BLOCK_SIZE
  WordMod,      \* number of values of a header word
  Chunks,       \* [Image -> Nat \ {0}], length of each image in chunks
  MaxAttempts,  \* bound on the number of ioctls issued
  Drained,      \* TRUE: a retry is issued only once the endpoint has caught up
  Faults,       \* what may go wrong
  NULL

\* pcie_fw_xfer_order: DTB, ROOTFS, KERNEL.
Image == 1 .. 3

\* "timeout": a bounded wait may give up; "efault": copy_from_user or kmalloc
\* may fail; "vanish": the card may fall off the bus, reads then return ~0.
FaultChoice == {"timeout", "efault", "vanish"}

\* The code does not check that num divides 2^32, which it must do for cur_avail
\* % num to go from one descriptor to the next where the counter wraps.
ASSUME RingAssumption ==
  /\ Num \in Nat \ {0} /\ MaxBlk \in Nat \ {0} /\ MapMax \in Nat \ {0}
  /\ WordMod \in Nat /\ WordMod > 2 * Num /\ WordMod > MaxBlk + 1
  /\ Chunks \in [Image -> Nat \ {0}]
  /\ MaxAttempts \in Nat \ {0}
  /\ Drained \in BOOLEAN
  /\ Faults \subseteq FaultChoice

Chunk == UNION {{i} \X (0 .. Chunks[i] - 1) : i \in Image}

VARIABLES
  pc,        \* where the host is
  img, pos,  \* image and chunk it is working on
  ctx,       \* struct pcie_ring_ctx
  polled,    \* what pcie_ring_xfer_poll has read
  attempts,  \* ioctls issued so far
  avail,     \* ring header, written by the endpoint
  used,      \* ring header, written by the host
  desc, blk, \* descriptors and data blocks
  mem,       \* endpoint memory at the load addresses
  set,       \* per image: SET_*_ADDR not seen, or seen with the image whole or not
  map_blk,   \* ring_map_size, the length of the boot BAR, in blocks
  gone,      \* the card has fallen off the bus
  oob        \* the host has written behind its mapping

vars == <<pc, img, pos, ctx, polled, attempts, avail, used, desc, blk, mem, set, map_blk,
          gone, oob>>
hostVars == <<pc, img, pos, ctx, polled, attempts>>
ringVars == <<used, desc, blk>>
epVars   == <<avail, mem, set, map_blk>>

Word == 0 .. WordMod - 1

Plus(a, b)  == (a + b) % WordMod
Minus(a, b) == (a - b) % WordMod

\* A descriptor carries a data chunk, or names the image whose address it sets.
Desc == [cmd : {"NONE", "DATA", "SET"}, chunk : Chunk \cup {NULL},
         img : Image \cup {NULL}, blk : 0 .. MaxBlk - 1]

NoDesc == [cmd |-> "NONE", chunk |-> NULL, img |-> NULL, blk |-> 0]

AllOnes == WordMod - 1

NoPoll == [used |-> 0, num |-> 0, avail |-> 0]

NoCtx == [num |-> Num, max_blk |-> MaxBlk, cur_avail |-> 0, cur_blk |-> 0]

\* The counters are wherever earlier requests to this card have left them.
Init ==
  /\ pc = "ready" /\ img = 1 /\ pos = 0 /\ ctx = NoCtx /\ polled = NoPoll /\ attempts = 1
  /\ used \in Word /\ avail = Plus(used, Num)
  /\ desc = [i \in 0 .. Num - 1 |-> NoDesc]
  /\ blk = [i \in 0 .. MaxBlk - 1 |-> NULL]
  /\ mem = [c \in Chunk |-> NULL]
  /\ set = [i \in Image |-> "no"]
  /\ map_blk \in 1 .. MapMax /\ gone = FALSE /\ oob = FALSE

----------------------------------------------------------------------------
(* Host.                                                                   *)

\* pcie_ring_r32: a card that is gone reads as all ones.
pcie_ring_r32(w) == IF gone THEN AllOnes ELSE w

Fail ==
  /\ pc' = "failed"
  /\ UNCHANGED <<img, pos, ctx, polled, attempts, ringVars, epVars, gone, oob>>

\* Defect: a wait without a deadline.
TimedOut_Never == FALSE

TimedOut == "timeout" \in Faults /\ Fail

\* pcie_ring_wait_ep_ready: magic, then state ONLINE, 5 s each.
pcie_ring_wait_ep_ready ==
  /\ pc = "ready"
  /\ \/ /\ ~gone /\ pc' = "init"
        /\ UNCHANGED <<img, pos, ctx, polled, attempts, ringVars, epVars, gone, oob>>
     \/ TimedOut

\* Defect: the header block is not counted.
MapTooSmall_NoHeader(max_blk) == max_blk > map_blk

\* (u64)(max_blk + 1U) * RING_BLOCK_SIZE > ring_map_size; the sum is a u32.
MapTooSmall(max_blk) == Plus(max_blk, 1) > map_blk

\* kmalloc of the chunk; then pcie_ring_ctx_init reads num, ...
CtxNum ==
  /\ pc = "init"
  /\ \/ /\ ctx' = [NoCtx EXCEPT !.num = pcie_ring_r32(Num)]
        /\ pc' = "init_blk"
        /\ UNCHANGED <<img, pos, polled, attempts, ringVars, epVars, gone, oob>>
     \/ "efault" \in Faults /\ Fail

\* ... max_blk, with the tests of both, ...
CtxMaxBlk ==
  LET max_blk == pcie_ring_r32(MaxBlk)
      refused == ctx.num = 0 \/ max_blk = 0 \/ MapTooSmall(max_blk)
  IN
  /\ pc = "init_blk"
  /\ \/ refused /\ Fail
     \/ /\ ~refused
        /\ ctx' = [ctx EXCEPT !.max_blk = max_blk]
        /\ pc' = "init_avail"
        /\ UNCHANGED <<img, pos, polled, attempts, ringVars, epVars, gone, oob>>

\* Defect: cur_avail starts at avail instead of avail - num.
CtxAvail_NoNum ==
  /\ pc = "init_avail"
  /\ ctx' = [ctx EXCEPT !.cur_avail = pcie_ring_r32(avail)]
  /\ pos' = 0 /\ pc' = "wait"
  /\ UNCHANGED <<img, polled, attempts, ringVars, epVars, gone, oob>>

\* ... and avail.
CtxAvail ==
  /\ pc = "init_avail"
  /\ ctx' = [ctx EXCEPT !.cur_avail = Minus(pcie_ring_r32(avail), ctx.num)]
  /\ pos' = 0 /\ pc' = "wait"
  /\ UNCHANGED <<img, polled, attempts, ringVars, epVars, gone, oob>>

pcie_ring_ctx_init == CtxNum \/ CtxMaxBlk \/ CtxAvail

\* Data chunks are left to post; otherwise the SET_*_ADDR command is next.
Data == pos < Chunks[img]

\* Defect: one descriptor more than the ring has.
RoomFor_OffByOne(cur_avail) == Plus(pcie_ring_r32(avail), 1) # cur_avail

\* pcie_ring_wait_u32(AVAIL, cur_avail, not equal).
RoomFor(cur_avail) == pcie_ring_r32(avail) # cur_avail

\* copy_from_user of the next chunk, then the wait in front of a descriptor.
PostWait ==
  /\ pc = "wait"
  /\ \/ /\ RoomFor(ctx.cur_avail) /\ pc' = "desc"
        /\ UNCHANGED <<img, pos, ctx, polled, attempts, ringVars, epVars, gone, oob>>
     \/ TimedOut
     \/ "efault" \in Faults /\ Data /\ Fail

\* Writes to a card that is gone are lost.
pcie_ring_desc(d) ==
  desc' = IF gone THEN desc ELSE [desc EXCEPT ![ctx.cur_avail % ctx.num] = d]

\* Defect: the number of the block is not taken modulo max_blk.
PostDesc_NoModulo ==
  /\ pc = "desc"
  /\ IF Data
     THEN /\ pcie_ring_desc([cmd |-> "DATA", chunk |-> <<img, pos>>, img |-> NULL,
                             blk |-> ctx.cur_blk])
          /\ pc' = "copy"
     ELSE /\ pcie_ring_desc([cmd |-> "SET", chunk |-> NULL, img |-> img, blk |-> 0])
          /\ pc' = "publish"
  /\ UNCHANGED <<img, pos, ctx, polled, attempts, used, blk, epVars, gone, oob>>

PostDesc ==
  /\ pc = "desc"
  /\ IF Data
     THEN /\ pcie_ring_desc([cmd |-> "DATA", chunk |-> <<img, pos>>, img |-> NULL,
                             blk |-> IF gone THEN 0 ELSE ctx.cur_blk % ctx.max_blk])
          /\ pc' = "copy"
     ELSE /\ pcie_ring_desc([cmd |-> "SET", chunk |-> NULL, img |-> img, blk |-> 0])
          /\ pc' = "publish"
  /\ UNCHANGED <<img, pos, ctx, polled, attempts, used, blk, epVars, gone, oob>>

\* Defect: the block counter is advanced before it is used for the copy.
PostCopy_NextBlock ==
  LET b == Plus(ctx.cur_blk, 1) % ctx.max_blk IN
  /\ pc = "copy"
  /\ blk' = IF gone THEN blk ELSE [blk EXCEPT ![b] = <<img, pos>>]
  /\ oob' = (oob \/ b + 1 >= map_blk)
  /\ ctx' = [ctx EXCEPT !.cur_blk = Plus(@, 1)]
  /\ pc' = "publish"
  /\ UNCHANGED <<img, pos, polled, attempts, used, desc, epVars, gone>>

\* memcpy_toio to data block b, which is block b + 1 of the mapping.
PostCopy ==
  LET b == ctx.cur_blk % ctx.max_blk IN
  /\ pc = "copy"
  /\ blk' = IF gone THEN blk ELSE [blk EXCEPT ![b] = <<img, pos>>]
  /\ oob' = (oob \/ b + 1 >= map_blk)
  /\ ctx' = [ctx EXCEPT !.cur_blk = Plus(@, 1)]
  /\ pc' = "publish"
  /\ UNCHANGED <<img, pos, polled, attempts, used, desc, epVars, gone>>

\* used++, cur_avail++; then the next chunk, or the final poll.
PostPublish ==
  /\ pc = "publish"
  /\ used' = IF gone THEN used ELSE Plus(used, 1)
  /\ ctx' = [ctx EXCEPT !.cur_avail = Plus(@, 1)]
  /\ pc' = IF Data THEN "wait" ELSE "poll"
  /\ pos' = IF Data THEN pos + 1 ELSE pos
  /\ UNCHANGED <<img, polled, attempts, desc, blk, epVars, gone, oob>>

\* One round of pcie_ring_xfer_poll: used, num and avail are read one after the
\* other, and the deadline is looked at before each round.
PollUsed ==
  /\ pc = "poll" /\ pc' = "poll_num"
  /\ polled' = [NoPoll EXCEPT !.used = pcie_ring_r32(used)]
  /\ UNCHANGED <<img, pos, ctx, attempts, ringVars, epVars, gone, oob>>

PollNum ==
  /\ pc = "poll_num" /\ pc' = "poll_avail"
  /\ polled' = [polled EXCEPT !.num = pcie_ring_r32(Num)]
  /\ UNCHANGED <<img, pos, ctx, attempts, ringVars, epVars, gone, oob>>

\* Defect: nothing is waited for after the last image.
AllConsumed_NotLast ==
  img = 3 \/ Plus(polled.used, polled.num) = pcie_ring_r32(avail)

\* Defect: the next image is begun while descriptors are outstanding.
AllConsumed_OnlyLast ==
  img # 3 \/ Plus(polled.used, polled.num) = pcie_ring_r32(avail)

\* used + num == avail: the endpoint has consumed everything.
AllConsumed == Plus(polled.used, polled.num) = pcie_ring_r32(avail)

\* Another round, or on in the image loop of pcie_ioctl_xfer_firmware.
PollAvail ==
  /\ pc = "poll_avail"
  /\ \/ /\ ~AllConsumed
        /\ pc' = "poll" /\ polled' = NoPoll /\ img' = img
     \/ /\ AllConsumed
        /\ pc' = IF img = 3 THEN "done" ELSE "init"
        /\ img' = IF img = 3 THEN img ELSE img + 1
        /\ polled' = [polled EXCEPT !.avail = pcie_ring_r32(avail)]
  /\ UNCHANGED <<pos, ctx, attempts, ringVars, epVars, gone, oob>>

PollTimedOut == pc = "poll" /\ TimedOut

pcie_ring_xfer_poll == PollUsed \/ PollNum \/ PollAvail \/ PollTimedOut

\* The user issues the ioctl again; the slot is still DISCONNECTED.
Retry ==
  /\ pc = "failed" /\ attempts < MaxAttempts
  /\ Drained => used = Minus(avail, Num)
  /\ pc' = "ready" /\ img' = 1 /\ attempts' = attempts + 1
  /\ UNCHANGED <<pos, ctx, polled, ringVars, epVars, gone, oob>>

Host ==
  \/ pcie_ring_wait_ep_ready \/ pcie_ring_ctx_init
  \/ PostWait \/ PostDesc \/ PostCopy \/ PostPublish \/ pcie_ring_xfer_poll

----------------------------------------------------------------------------
(* Endpoint and bus, external.                                             *)

Whole(i) == \A c \in Chunk : c[1] = i => mem[c] = c

Endpoint ==
  LET next == Minus(avail, Num)
      d == desc[next % Num]
  IN
  /\ ~gone /\ used # next
  /\ mem' = IF d.cmd = "DATA" THEN [mem EXCEPT ![d.chunk] = blk[d.blk]] ELSE mem
  /\ set' = IF d.cmd = "SET"
            THEN [set EXCEPT ![d.img] = IF Whole(d.img) THEN "whole" ELSE "torn"]
            ELSE set
  /\ avail' = Plus(avail, 1)
  /\ UNCHANGED <<hostVars, ringVars, map_blk, gone, oob>>

Vanish ==
  /\ "vanish" \in Faults /\ ~gone
  /\ gone' = TRUE
  /\ UNCHANGED <<hostVars, ringVars, epVars, oob>>

Next == Host \/ Retry \/ Endpoint \/ Vanish

Spec == Init /\ [][Next]_vars

\* The ioctl's thread keeps running and its waits are bounded: by jiffies the
\* polling loop, which never blocks, comes to its deadline.  The endpoint may
\* have died, nobody has to retry and no fault has to happen.
HostFairSpec == Spec /\ WF_vars(Host) /\ SF_vars(PollTimedOut)

\* The same with an endpoint that keeps consuming.
FairSpec == HostFairSpec /\ WF_vars(Endpoint)

----------------------------------------------------------------------------
(* Properties.                                                             *)

TypeOK ==
  /\ pc \in {"ready", "init", "init_blk", "init_avail", "wait", "desc", "copy", "publish",
            "poll", "poll_num", "poll_avail", "done", "failed"}
  /\ img \in Image /\ pos \in Nat
  /\ ctx \in [num : Word, max_blk : Word, cur_avail : Word, cur_blk : Word]
  /\ polled \in [used : Word, num : Word, avail : Word]
  /\ attempts \in Nat
  /\ avail \in Word /\ used \in Word
  /\ desc \in [0 .. Num - 1 -> Desc]
  /\ blk \in [0 .. MaxBlk - 1 -> Chunk \cup {NULL}]
  /\ mem \in [Chunk -> Chunk \cup {NULL}]
  /\ set \in [Image -> {"no", "whole", "torn"}]
  /\ map_blk \in 1 .. MapMax
  /\ gone \in BOOLEAN /\ oob \in BOOLEAN

\* No chunk lands at the load address of another: neither the wrap of the
\* descriptor ring nor the independent wrap of the data blocks lets the host
\* overwrite what the endpoint has yet to read.
MemIntact == \A c \in Chunk : mem[c] \in {NULL, c}

\* The endpoint is told an image's address only when the image is all there.
SetAfterData == \A i \in Image : set[i] # "torn"

\* The card vanished during the poll that ended the request: used was read from
\* it, avail was not.
LostInPoll == gone /\ polled.used # AllOnes /\ polled.avail = AllOnes

\* A request that reports success has delivered its images: neither a wrap of
\* the counters, nor descriptors the endpoint has not reached, nor what a card
\* that is gone returns for the three words ends the poll too early.  The last
\* image is an exception: it may be missing if the card vanishes in the poll.
DeliveredOnSuccess ==
  pc = "done" =>
    \A i \in Image : (i = 3 /\ LostInPoll) \/ (Whole(i) /\ set[i] = "whole")

\* The same without the exception.  The code does not keep this: used, read
\* before the card has vanished, and num or avail, read after it, may add up.
SuccessIsDelivery == pc = "done" => \A i \in Image : Whole(i) /\ set[i] = "whole"

\* The ring never holds more than Num descriptors and the host's private
\* cur_avail agrees with the used word it publishes.
NoOverrun ==
  /\ Minus(used, Minus(avail, Num)) <= Num
  /\ pc \in {"wait", "desc", "copy", "publish", "poll", "poll_num", "poll_avail"} /\ ~gone =>
       ctx.cur_avail = used

\* Data blocks are written inside the mapping that pcie_ring_ctx_init checked.
InBounds == ~oob

\* With no fault, a BAR that is large enough and a live endpoint the request
\* succeeds: a full ring drains and neither side waits for the other for ever.
Completes == map_blk > MaxBlk ~> pc = "done"

\* What the user sees of the request.
Result == IF pc \in {"done", "failed"} THEN pc ELSE "pending"

Delivery == INSTANCE FwDelivery WITH result <- Result

\* Whatever the ring, its wraps, its timeouts and its faults do, the endpoint's
\* memory only ever fills in order: chunk behind chunk, an image's address
\* behind its last chunk and in front of the next image, nothing that is in
\* place is replaced, a retry included, and success comes last unless the card
\* vanishes before the last image is all there.
DeliversInOrder == Delivery!Spec

\* The ioctl returns even when the endpoint or the card has died.
Returns == pc = "ready" ~> pc \in {"done", "failed"}
=============================================================================
