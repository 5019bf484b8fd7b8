---------------------------- MODULE RingGeometry ----------------------------
(***************************************************************************)
(* Where the ring code writes, in bytes from the start of the mapping of   *)
(* the boot BAR: the descriptors behind the header in block 0, the data    *)
(* blocks from block 1 on (pcie_ring_desc, pcie_ring_data_blk and the size *)
(* check of pcie_ring_ctx_init).  PcieRing takes the header, the           *)
(* descriptors and the data blocks for separate variables; this module     *)
(* says when they are.                                                     *)
(***************************************************************************)
EXTENDS Integers

CONSTANTS
  WordMod,     \* number of values of a u32
  HeaderSize,  \* RH_DESC0_OFF
  DescSize,    \* five words
  BlockSize,   \* RING_BLOCK_SIZE
  Nums,        \* what endpoints offer as num,
  MaxBlks,     \* as max_blk,
  MapSizes,    \* and as length of the BAR
  Csz          \* sizes of data chunks

\* That the descriptors fit into the header block is the endpoint's promise:
\* the driver checks num only against 0.  A card that answers all ones is
\* excluded by MaxBlks (see module PcieRing).
ASSUME GeometryAssumption ==
  /\ WordMod \in Nat \ {0} /\ HeaderSize \in Nat
  /\ DescSize \in Nat \ {0} /\ BlockSize \in Nat \ {0}
  /\ Nums \subseteq Nat \ {0}
  /\ \A n \in Nums : HeaderSize + n * DescSize <= BlockSize
  /\ MaxBlks \subseteq {b \in Nat : 0 < b /\ b + 1 < WordMod}
  /\ MapSizes \subseteq Nat
  /\ Csz \subseteq 1 .. BlockSize

VARIABLES
  pc,
  num, max_blk, map_size,  \* the card
  cur_avail, cur_blk,      \* struct pcie_ring_ctx
  what, from, len          \* the last write

vars == <<pc, num, max_blk, map_size, cur_avail, cur_blk, what, from, len>>
card == <<num, max_blk, map_size>>

Word == 0 .. WordMod - 1

Init ==
  /\ pc = "init"
  /\ num \in Nums /\ max_blk \in MaxBlks /\ map_size \in MapSizes
  /\ cur_avail = 0 /\ cur_blk = 0
  /\ what = "nothing" /\ from = 0 /\ len = 0

\* Defect: the header block is not counted.
MapTooSmall_NoHeader == max_blk * BlockSize > map_size

MapTooSmall == ((max_blk + 1) % WordMod) * BlockSize > map_size

\* avail - num may be any word.
pcie_ring_ctx_init ==
  /\ pc = "init"
  /\ \/ MapTooSmall /\ pc' = "failed" /\ UNCHANGED cur_avail
     \/ ~MapTooSmall /\ pc' = "desc" /\ cur_avail' \in Word
  /\ UNCHANGED <<card, cur_blk, what, from, len>>

Write(kind, off, size) == what' = kind /\ from' = off /\ len' = size

\* Defect: the counter is not reduced.
DescOff_NoWrap(c) == HeaderSize + c * DescSize

\* pcie_ring_desc
DescOff(c) == HeaderSize + (c % num) * DescSize

\* pcie_ring_data_blk
BlkOff(blkid) == ((blkid + 1) % WordMod) * BlockSize

\* A data descriptor is followed by its data, a command by nothing.
PostDesc ==
  /\ pc = "desc"
  /\ Write("desc", DescOff(cur_avail), DescSize)
  /\ pc' \in {"copy", "desc"}
  /\ cur_avail' = (cur_avail + 1) % WordMod
  /\ UNCHANGED <<card, cur_blk>>

PostCopy ==
  /\ pc = "copy" /\ pc' = "desc"
  /\ \E csz \in Csz : Write("data", BlkOff(cur_blk % max_blk), csz)
  /\ cur_blk' = (cur_blk + 1) % WordMod
  /\ UNCHANGED <<card, cur_avail>>

Next == pcie_ring_ctx_init \/ PostDesc \/ PostCopy

Spec == Init /\ [][Next]_vars

----------------------------------------------------------------------------
\* Descriptors stay behind the header words and in front of the data blocks,
\* and data behind all descriptors: no write of one kind reaches a place of
\* another kind, whatever the counters are.
KindsApart ==
  /\ what = "desc" => HeaderSize <= from /\ from + len <= BlockSize
  /\ what = "data" => BlockSize <= from

\* Every write of the ring code lies in the mapping of the boot BAR.
WritesInMapping == what # "nothing" => 0 <= from /\ from + len <= map_size

=============================================================================
