------------------------- MODULE RingGeometryProofs -------------------------
(***************************************************************************)
(* The geometry of the ring is sound for every card whose descriptors fit  *)
(* into the header block.                                                  *)
(***************************************************************************)
EXTENDS RingGeometry, TLAPS

\* A smaller index leaves room for one more item.
LEMMA RoomForOne ==
  ASSUME NEW i \in Nat, NEW k \in Nat, i < k, NEW size \in Nat
  PROVE  i * size + size <= k * size
<1>1. (i + 1) * size = i * size + size
  OBVIOUS
<1>2. \A d \in Nat : (i + 1 + d) * size = (i + 1) * size + d * size
  OBVIOUS
<1> DEFINE d == k - (i + 1)
<1>3. d \in Nat /\ k = i + 1 + d
  OBVIOUS
<1>4. d * size >= 0
  BY <1>3
<1>5. k * size = (i + 1) * size + d * size
  BY <1>2, <1>3
<1> QED
  BY <1>1, <1>4, <1>5

LEMMA Remainder ==
  ASSUME NEW a \in Nat, NEW m \in Nat \ {0}
  PROVE  a % m \in 0 .. m - 1
  OBVIOUS

LEMMA ModSmall ==
  ASSUME NEW m \in Nat \ {0}, NEW x \in 0 .. m - 1
  PROVE  x % m = x
  OBVIOUS

(***************************************************************************)
(* The card keeps its promise, the size check has been passed before       *)
(* anything is written, and the last write is where it should be.          *)
(***************************************************************************)
Inv ==
  /\ pc \in {"init", "failed", "desc", "copy"}
  /\ num \in Nums /\ max_blk \in MaxBlks /\ map_size \in MapSizes
  /\ cur_avail \in Word /\ cur_blk \in Word
  /\ pc \in {"desc", "copy"} => (max_blk + 1) * BlockSize <= map_size
  /\ pc = "init" => what = "nothing"
  /\ KindsApart /\ WritesInMapping

LEMMA Sizes ==
  ASSUME Inv
  PROVE  /\ num \in Nat \ {0} /\ HeaderSize + num * DescSize <= BlockSize
         /\ max_blk \in Nat \ {0} /\ max_blk + 1 \in 0 .. WordMod - 1
         /\ map_size \in Nat
         /\ cur_avail \in Nat /\ cur_blk \in Nat
         /\ WordMod \in Nat \ {0} /\ HeaderSize \in Nat
         /\ DescSize \in Nat \ {0} /\ BlockSize \in Nat \ {0}
  BY GeometryAssumption DEF Inv, Word

\* The sum in the size check is a u32; it does not wrap.
LEMMA CheckMeans ==
  ASSUME Inv, ~MapTooSmall
  PROVE  (max_blk + 1) * BlockSize <= map_size
<1>1. (max_blk + 1) % WordMod = max_blk + 1
  BY Sizes, ModSmall
<1>2. (max_blk + 1) * BlockSize \in Nat
  BY Sizes
<1> QED
  BY <1>1, <1>2, Sizes DEF MapTooSmall

\* A descriptor lies behind the header, in front of the data blocks.
LEMMA DescPlace ==
  ASSUME Inv
  PROVE  /\ DescOff(cur_avail) \in Nat /\ HeaderSize <= DescOff(cur_avail)
         /\ DescOff(cur_avail) + DescSize <= BlockSize
<1> DEFINE i == cur_avail % num
<1>r. cur_avail \in Nat /\ num \in Nat \ {0}
  BY Sizes
<1>s. i \in 0 .. num - 1
  BY <1>r, Remainder
<1>1. i \in Nat /\ i < num
  BY <1>r, <1>s
<1>2. DescOff(cur_avail) = HeaderSize + i * DescSize
  BY DEF DescOff
<1> HIDE DEF i
<1>3. num \in Nat /\ DescSize \in Nat /\ HeaderSize \in Nat /\ BlockSize \in Nat
  BY Sizes
<1>4. i * DescSize + DescSize <= num * DescSize
  BY <1>1, <1>3, RoomForOne
<1>5. i * DescSize \in Nat /\ num * DescSize \in Nat
  BY <1>1, <1>3
<1> DEFINE below == i * DescSize
           all == num * DescSize
<1>6. HeaderSize + all <= BlockSize
  BY Sizes
<1>7. /\ below \in Nat /\ all \in Nat /\ below + DescSize <= all
      /\ DescOff(cur_avail) = HeaderSize + below
  BY <1>2, <1>4, <1>5
<1> HIDE DEF below, all
<1> QED
  BY <1>3, <1>6, <1>7

\* A data block lies behind the header block and in the ring.
LEMMA BlkPlace ==
  ASSUME Inv
  PROVE  /\ BlkOff(cur_blk % max_blk) \in Nat
         /\ BlockSize <= BlkOff(cur_blk % max_blk)
         /\ BlkOff(cur_blk % max_blk) + BlockSize <= (max_blk + 1) * BlockSize
<1> DEFINE i == (cur_blk % max_blk) + 1
<1>r. cur_blk \in Nat /\ max_blk \in Nat \ {0}
  BY Sizes
<1>s. cur_blk % max_blk \in 0 .. max_blk - 1
  BY <1>r, Remainder
<1>1. i \in Nat /\ 0 < i /\ i < max_blk + 1
  BY <1>r, <1>s
<1>2. i % WordMod = i
  BY <1>1, Sizes, ModSmall
<1>3. BlkOff(cur_blk % max_blk) = i * BlockSize
  BY <1>2 DEF BlkOff
<1> HIDE DEF i
<1>a. max_blk + 1 \in Nat /\ BlockSize \in Nat
  BY Sizes
<1>4. i * BlockSize + BlockSize <= (max_blk + 1) * BlockSize
  BY <1>1, <1>a, RoomForOne
<1>5. i * BlockSize \in Nat
  BY <1>1, <1>a
<1>6. 0 * BlockSize + BlockSize <= i * BlockSize
  BY <1>1, <1>a, RoomForOne
<1>7. 0 * BlockSize = 0
  BY <1>a
<1>8. BlockSize <= i * BlockSize
  BY <1>6, <1>7, <1>a, <1>5
<1> QED
  BY <1>3, <1>4, <1>5, <1>8

LEMMA InvNext ==
  ASSUME Inv, [Next]_vars
  PROVE  Inv'
<1>1. CASE pcie_ring_ctx_init
  BY <1>1, CheckMeans DEF pcie_ring_ctx_init, card, Inv, KindsApart, WritesInMapping
<1>2. CASE PostDesc
  <2>1. (max_blk + 1) * BlockSize <= map_size
    BY <1>2 DEF PostDesc, Inv
  <2>2. 0 * BlockSize + BlockSize <= (max_blk + 1) * BlockSize
    BY Sizes, RoomForOne
  <2>3. BlockSize <= map_size
    <3>1. 0 * BlockSize = 0 /\ (max_blk + 1) * BlockSize \in Nat
      BY Sizes
    <3> QED
      BY <2>1, <2>2, <3>1, Sizes
  <2>4. what' = "desc" /\ from' = DescOff(cur_avail) /\ len' = DescSize
    BY <1>2 DEF PostDesc, Write
  <2>5. KindsApart' /\ WritesInMapping'
    <3>1. map_size' = map_size
      BY <1>2 DEF PostDesc, card
    <3>2. /\ BlockSize \in Nat /\ DescSize \in Nat /\ map_size \in Nat
          /\ HeaderSize \in Nat
      BY Sizes
    <3>3. from' \in Nat /\ HeaderSize <= from' /\ from' + len' <= BlockSize
      BY <2>4, DescPlace
    <3>4. len' \in Nat
      BY <2>4, <3>2
    <3> QED
      BY <2>3, <2>4, <3>1, <3>2, <3>3, <3>4 DEF KindsApart, WritesInMapping
  <2>6. cur_avail' \in Word
    <3>1. cur_avail + 1 \in Nat /\ WordMod \in Nat \ {0}
      BY Sizes
    <3>2. (cur_avail + 1) % WordMod \in 0 .. WordMod - 1
      BY <3>1, Remainder
    <3> QED
      BY <1>2, <3>2 DEF PostDesc, Word
  <2> QED
    BY <1>2, <2>1, <2>4, <2>5, <2>6 DEF PostDesc, card, Inv
<1>3. CASE PostCopy
  <2>1. (max_blk + 1) * BlockSize <= map_size
    BY <1>3 DEF PostCopy, Inv
  <2>2. PICK csz \in Csz : Write("data", BlkOff(cur_blk % max_blk), csz)
    BY <1>3 DEF PostCopy
  <2>3. csz \in Nat /\ csz <= BlockSize
    BY GeometryAssumption
  <2>4. what' = "data" /\ from' = BlkOff(cur_blk % max_blk) /\ len' = csz
    BY <2>2 DEF Write
  <2>5. (max_blk + 1) * BlockSize \in Nat
    BY Sizes
  <2>6. from' + len' <= map_size'
    <3>1. map_size' = map_size
      BY <1>3 DEF PostCopy, card
    <3> QED
      BY <2>1, <2>3, <2>4, <2>5, <3>1, BlkPlace, Sizes
  <2>7. KindsApart' /\ WritesInMapping'
    BY <2>3, <2>4, <2>6, BlkPlace, Sizes DEF KindsApart, WritesInMapping
  <2>8. cur_blk' \in Word
    <3>1. cur_blk + 1 \in Nat /\ WordMod \in Nat \ {0}
      BY Sizes
    <3>2. (cur_blk + 1) % WordMod \in 0 .. WordMod - 1
      BY <3>1, Remainder
    <3> QED
      BY <1>3, <3>2 DEF PostCopy, Word
  <2> QED
    BY <1>3, <2>1, <2>4, <2>7, <2>8 DEF PostCopy, card, Inv
<1>4. CASE UNCHANGED vars
  BY <1>4 DEF vars, Inv, KindsApart, WritesInMapping
<1> QED
  BY <1>1, <1>2, <1>3, <1>4 DEF Next

LEMMA InvInit ==
  ASSUME Init
  PROVE  Inv
  BY GeometryAssumption DEF Init, Inv, Word, KindsApart, WritesInMapping

LEMMA InvAlways == Spec => []Inv
  BY InvInit, InvNext, PTL DEF Spec

\* Header words, descriptors and data blocks never overlap, so that PcieRing
\* may keep them in separate variables.
THEOREM RingKindsApart == Spec => []KindsApart
<1>1. Inv => KindsApart
  BY DEF Inv
<1> QED
  BY <1>1, InvAlways, PTL

\* The host writes inside its mapping of the boot BAR only.
THEOREM RingWritesInMapping == Spec => []WritesInMapping
<1>1. Inv => WritesInMapping
  BY DEF Inv
<1> QED
  BY <1>1, InvAlways, PTL

=============================================================================
