--------------------------- MODULE FwRequestProofs ---------------------------
(***************************************************************************)
(* Theorems about FwRequest, for every width of the words, every block     *)
(* size, every load address and every set of blob sizes.                   *)
(***************************************************************************)
EXTENDS FwRequest, TLAPS

Pc == {"head", "images", "find", "chunk", "done", "failed", "einval", "null_image"}

\* Types, as far as the arguments below need them.
Typed ==
  /\ pc \in Pc
  /\ fw_size \in 0 .. WordMod - 1
  /\ images \in [0 .. 2 -> Desc]
  /\ n \in 0 .. 3 /\ order_i \in 0 .. 2 /\ ep_pos \in Nat

\* What the range check has established of every descriptor it has passed.
Checked ==
  \A i \in 0 .. 2 : i < n =>
    images[i].length # 0 /\ images[i].offset + images[i].length <= fw_size

\* An image is being sent only when all three have been checked and one of
\* them has the type whose turn it is.
Sending ==
  /\ pc = "head" => n = 0
  /\ pc = "images" \/ pc = "head" \/ pc = "einval" \/ n = 3
  /\ pc = "chunk" => pcie_fw_find_image(pcie_fw_xfer_order[order_i]) # {}

RangeInv == Typed /\ Checked /\ Sending

\* A number below the modulus is its own remainder.
LEMMA ModSmall ==
  ASSUME NEW m \in Nat \ {0}, NEW x \in 0 .. m - 1
  PROVE  x % m = x
  OBVIOUS

\* The subtraction of the range check cannot borrow, and its comparison means
\* what it says: an accepted image ends inside the blob.
LEMMA AcceptedInBlob ==
  ASSUME Typed, NEW img \in Desc, ~OutOfRange(img)
  PROVE  img.length # 0 /\ img.offset + img.length <= fw_size
<1>1. img.offset \in Nat /\ img.length \in Nat
  BY DEF Desc, Word
<1>2. fw_size \in Nat /\ fw_size <= WordMod - 1 /\ WordMod \in Nat \ {0}
  BY FwAssumption DEF Typed
<1>3. img.offset <= fw_size
  BY <1>1, <1>2 DEF OutOfRange
<1>4. fw_size - img.offset \in 0 .. WordMod - 1
  BY <1>1, <1>2, <1>3
<1>5. (fw_size - img.offset) % WordMod = fw_size - img.offset
  BY <1>2, <1>4, ModSmall
<1> QED
  BY <1>1, <1>2, <1>5 DEF OutOfRange

\* The least of two integers is the first or the second, and at most either.
LEMMA LeastOfInt ==
  ASSUME NEW a \in Int, NEW b \in Int
  PROVE  LeastOf(a, b) \in Int /\ LeastOf(a, b) <= a /\ LeastOf(a, b) <= b
  BY DEF LeastOf

LEMMA TotalInt ==
  ASSUME NEW l \in Nat
  PROVE  Total(l) \in Int
<1>1. WordMod \in Nat \ {0} /\ Pad \in Nat \ {0}
  BY FwAssumption
<1> DEFINE t == (l + Pad - 1) % WordMod
<1>2. l + Pad - 1 \in Int
  BY <1>1
<1>3. t \in Int
  BY <1>1, <1>2
<1> HIDE DEF t
<1>4. t % Pad \in Int
  BY <1>1, <1>3
<1> QED
  BY <1>3, <1>4 DEF Total, t

\* The image that is being sent is one of the descriptors.
LEMMA ImageChecked ==
  ASSUME RangeInv, pc = "chunk"
  PROVE  /\ Image \in Desc
         /\ Image.offset + Image.length <= fw_size
<1>1. \E i \in 0 .. 2 : i \in pcie_fw_find_image(pcie_fw_xfer_order[order_i])
  BY DEF RangeInv, Sending, pcie_fw_find_image
<1> DEFINE c == CHOOSE i \in 0 .. 2 : i \in pcie_fw_find_image(pcie_fw_xfer_order[order_i])
<1>2. c \in 0 .. 2
  BY <1>1
<1>3. Image = images[c]
  BY DEF Image
<1> HIDE DEF c
<1>4. n = 3
  BY DEF RangeInv, Sending
<1> QED
  BY <1>2, <1>3, <1>4 DEF RangeInv, Typed, Checked

LEMMA ChunkSize ==
  ASSUME RangeInv, pc = "chunk"
  PROVE  Csz \in Int
<1>1. Image.length \in Nat
  BY ImageChecked DEF Desc, Word
<1>2. Total(Image.length) \in Int
  BY <1>1, TotalInt
<1>3. Block \in Int /\ Total(Image.length) - ep_pos \in Int
  BY <1>2, FwAssumption DEF RangeInv, Typed
<1> QED
  BY <1>3, LeastOfInt DEF Csz

\* Every step keeps the invariant: descriptors are written once, before the
\* checks end, and never afterwards.
LEMMA RangeNext ==
  ASSUME RangeInv, [Next]_vars
  PROVE  RangeInv'
<1> USE DEF RangeInv
<1>1. CASE CheckHead
  <2>1. fw_size' \in 0 .. WordMod - 1
    BY <1>1, FwAssumption DEF CheckHead, Return, Typed
  <2>2. pc' \in {"images", "einval"} /\ UNCHANGED <<images, n, order_i, ep_pos>>
    BY <1>1 DEF CheckHead, Return
  <2>3. Checked'
    BY <1>1, <2>2 DEF CheckHead, Checked, Typed, Sending
  <2> QED
    BY <1>1, <2>1, <2>2, <2>3 DEF CheckHead, Typed, Sending, Pc
<1>2. CASE CheckImage
  <2>1. pc = "images" /\ n < 3
    BY <1>2 DEF CheckImage
  <2>2. PICK img \in Desc :
          \/ /\ ~OutOfRange(img)
             /\ images' = [images EXCEPT ![n] = img]
             /\ n' = n + 1
             /\ UNCHANGED <<pc, fw_size, order_i, ep_pos, mem, initrd>>
          \/ OutOfRange(img) /\ Return("einval")
    BY <1>2 DEF CheckImage
  <2>3. CASE OutOfRange(img) /\ Return("einval")
    BY <2>3 DEF Return, Typed, Checked, Sending, Pc
  <2>4. CASE /\ ~OutOfRange(img)
             /\ images' = [images EXCEPT ![n] = img]
             /\ n' = n + 1
             /\ UNCHANGED <<pc, fw_size, order_i, ep_pos, mem, initrd>>
    <3>1. img.length # 0 /\ img.offset + img.length <= fw_size
      BY <2>4, AcceptedInBlob
    <3>2. Typed'
      BY <2>1, <2>4 DEF Typed
    <3>3. Checked'
      BY <2>1, <2>4, <3>1 DEF Typed, Checked
    <3>4. Sending'
      BY <2>1, <2>4 DEF Sending
    <3> QED
      BY <3>2, <3>3, <3>4
  <2> QED
    BY <2>2, <2>3, <2>4
<1>3. CASE CheckTypes
  BY <1>3 DEF CheckTypes, Return, Typed, Checked, Sending, Pc
<1>4. CASE FindImage
  BY <1>4 DEF FindImage, Return, Typed, Checked, Sending, Pc, pcie_fw_find_image
<1>5. CASE SendChunk
  <2>1. CASE Return("failed")
    BY <1>5, <2>1 DEF SendChunk, Return, Typed, Checked, Sending, Pc
  <2>2. CASE /\ ep_pos' = ep_pos + Csz
             /\ UNCHANGED <<pc, fw_size, images, n, bitmap, order_i, initrd>>
    <3>1. pc = "chunk" /\ ep_pos < Total(Image.length)
      BY <1>5 DEF SendChunk
    <3>2. Image.length \in Nat
      BY <3>1, ImageChecked DEF Desc, Word
    <3>3. Total(Image.length) \in Int
      BY <3>2, TotalInt
    <3>4. Csz \in Int /\ Csz > 0
      <4>1. Block \in Nat \ {0}
        BY FwAssumption
      <4>2. ep_pos \in Nat
        BY DEF Typed
      <4> QED
        BY <3>1, <3>3, <4>1, <4>2 DEF Csz, LeastOf
    <3>5. ep_pos' \in Nat
      BY <2>2, <3>4 DEF Typed
    <3>6. Typed' /\ Checked'
      BY <2>2, <3>5 DEF Typed, Checked
    <3>7. Sending'
      BY <2>2 DEF Sending, pcie_fw_find_image
    <3> QED
      BY <3>6, <3>7
  <2> QED
    BY <1>5, <2>1, <2>2 DEF SendChunk
<1>6. CASE SendCommand
  <2>1. pc = "chunk"
    BY <1>6 DEF SendCommand
  <2>2. CASE Return("failed")
    BY <2>1, <2>2 DEF Return, Typed, Checked, Sending, Pc
  <2>3. CASE /\ pc' = IF order_i = 2 THEN "done" ELSE "find"
             /\ order_i' = IF order_i = 2 THEN order_i ELSE order_i + 1
             /\ UNCHANGED <<fw_size, images, n, bitmap, ep_pos, mem>>
    <3>1. order_i' \in 0 .. 2
      BY <2>3 DEF Typed
    <3>2. pc' \in {"done", "find"}
      BY <2>3
    <3>3. Typed' /\ Checked'
      BY <2>3, <3>1, <3>2 DEF Typed, Checked, Pc
    <3>4. Sending'
      BY <2>1, <2>3, <3>2 DEF Sending
    <3> QED
      BY <3>3, <3>4
  <2> QED
    BY <1>6, <2>2, <2>3 DEF SendCommand
<1>7. CASE UNCHANGED vars
  BY <1>7 DEF vars, Typed, Checked, Sending, pcie_fw_find_image
<1> QED
  BY <1>1, <1>2, <1>3, <1>4, <1>5, <1>6, <1>7 DEF Next

LEMMA RangeInit ==
  ASSUME Init
  PROVE  RangeInv
<1>1. NoDesc \in Desc
  BY FwAssumption DEF NoDesc, Desc, Type, Word, DTB, KERNEL
<1>2. 0 \in 0 .. WordMod - 1
  BY FwAssumption DEF Init
<1> QED
  BY <1>1, <1>2 DEF Init, RangeInv, Typed, Checked, Sending, Pc

\* pcie_ioctl_xfer_firmware lets pcie_ring_xfer_user read the declared blob
\* and nothing else, whatever the offsets and lengths in the request.
THEOREM ReadsDeclaredBlob == Spec => []ReadsInBlob
<1>1. Init => RangeInv
  BY RangeInit
<1>2. RangeInv /\ [Next]_vars => RangeInv'
  BY RangeNext
<1>3. RangeInv => ReadsInBlob
  <2> SUFFICES ASSUME RangeInv, pc = "chunk"
               PROVE  SourceRange \subseteq 0 .. fw_size - 1
    BY DEF ReadsInBlob
  <2>1. Image \in Desc /\ Image.offset + Image.length <= fw_size
    BY ImageChecked
  <2>2. Image.offset \in Nat /\ Image.length \in Nat
    BY <2>1 DEF Desc, Word
  <2>3. ep_pos \in Nat /\ fw_size \in Int
    BY FwAssumption DEF RangeInv, Typed
  <2> DEFINE nfile == LeastOf(Csz, Image.length - ep_pos)
  <2>a. Csz \in Int /\ Image.length - ep_pos \in Int
    BY <2>2, <2>3, ChunkSize
  <2>4. nfile \in Int /\ nfile <= Image.length - ep_pos
    BY <2>a, LeastOfInt
  <2>5. SourceRange = Image.offset + ep_pos .. Image.offset + ep_pos + nfile - 1
    BY DEF SourceRange
  <2> HIDE DEF nfile
  <2> QED
    BY <2>1, <2>2, <2>3, <2>4, <2>5
<1> QED
  BY <1>1, <1>2, <1>3, PTL DEF Spec

----------------------------------------------------------------------------
(* Every image is found.                                                   *)

\* The bitmap is the set of the types seen; once it has been accepted every
\* type of the order is among them.
TypesSeen ==
  /\ n \in 0 .. 3 /\ order_i \in 0 .. 2
  /\ images \in [0 .. 2 -> Desc]
  /\ pc \in {"head", "images"} => bitmap = {images[i].type : i \in 0 .. n - 1}
  /\ pc \in {"find", "chunk"} => \A t \in Known : \E i \in 0 .. 2 : images[i].type = t

FoundInv == TypesSeen /\ ImageFound

\* When a type occurs at all, the search loop stops at its first occurrence.
LEMMA FirstFound ==
  ASSUME NEW t, NEW i \in 0 .. 2, images[i].type = t
  PROVE  pcie_fw_find_image(t) # {}
<1>1. CASE images[0].type = t
  <2>1. 0 \in pcie_fw_find_image(t)
    BY <1>1 DEF pcie_fw_find_image
  <2> QED
    BY <2>1
<1>2. CASE images[0].type # t /\ images[1].type = t
  <2>1. \A j \in 0 .. 0 : j = 0
    OBVIOUS
  <2>2. 1 \in pcie_fw_find_image(t)
    BY <1>2, <2>1 DEF pcie_fw_find_image
  <2> QED
    BY <2>2
<1>3. CASE images[0].type # t /\ images[1].type # t
  <2>1. i = 2
    BY <1>3
  <2>2. 2 \in pcie_fw_find_image(t)
    BY <1>3, <2>1 DEF pcie_fw_find_image
  <2> QED
    BY <2>2
<1> QED
  BY <1>1, <1>2, <1>3

\* With types below the width of the bitmap a shift sets the bit of its type.
LEMMA ShiftExact ==
  ASSUME "bigtype" \notin Env, NEW img \in Desc
  PROVE  Shifted(img.type) = {{img.type}}
<1>1. img.type \in 0 .. ShiftBits - 1
  BY DEF Desc, Type
<1> QED
  BY <1>1, FwAssumption DEF Shifted

LEMMA FoundNext ==
  ASSUME "bigtype" \notin Env, FoundInv, [Next]_vars
  PROVE  FoundInv'
<1> USE DEF FoundInv
<1>1. CASE CheckHead
  BY <1>1 DEF CheckHead, Return, TypesSeen, ImageFound
<1>2. CASE CheckImage
  <2>1. pc = "images" /\ n < 3
    BY <1>2 DEF CheckImage
  <2>2. PICK img \in Desc :
          \/ /\ images' = [images EXCEPT ![n] = img]
             /\ \E bits \in Shifted(img.type) : bitmap' = bitmap \cup bits
             /\ n' = n + 1
             /\ UNCHANGED <<pc, fw_size, order_i, ep_pos, mem, initrd>>
          \/ Return("einval")
    BY <1>2 DEF CheckImage
  <2>3. CASE Return("einval")
    BY <2>3 DEF Return, TypesSeen, ImageFound
  <2>4. CASE /\ images' = [images EXCEPT ![n] = img]
             /\ \E bits \in Shifted(img.type) : bitmap' = bitmap \cup bits
             /\ n' = n + 1
             /\ UNCHANGED <<pc, fw_size, order_i, ep_pos, mem, initrd>>
    <3>1. bitmap' = bitmap \cup {img.type}
      BY <2>4, ShiftExact
    <3>2. n \in 0 .. 2 /\ images \in [0 .. 2 -> Desc]
      BY <2>1 DEF TypesSeen
    <3>3. images'[n] = img /\ \A i \in 0 .. n - 1 : images'[i] = images[i]
      BY <2>4, <3>2
    <3>4. 0 .. n' - 1 = (0 .. n - 1) \cup {n}
      BY <2>4, <3>2
    <3>5. bitmap' = {images'[i].type : i \in 0 .. n' - 1}
      <4>1. bitmap = {images[i].type : i \in 0 .. n - 1}
        BY <2>1 DEF TypesSeen
      <4>2. {images'[i].type : i \in 0 .. n' - 1}
              = {images'[i].type : i \in 0 .. n - 1} \cup {images'[n].type}
        BY <3>4
      <4>3. {images'[i].type : i \in 0 .. n - 1} = bitmap
        BY <3>3, <4>1
      <4> QED
        BY <3>1, <3>3, <4>2, <4>3
    <3>6. images' \in [0 .. 2 -> Desc] /\ n' \in 0 .. 3
      BY <2>4, <3>2
    <3>7. pc' = "images" /\ order_i' \in 0 .. 2
      BY <2>1, <2>4 DEF TypesSeen
    <3> QED
      BY <3>5, <3>6, <3>7 DEF TypesSeen, ImageFound
  <2> QED
    BY <2>2, <2>3, <2>4
<1>3. CASE CheckTypes
  <2>1. pc = "images" /\ n = 3
    BY <1>3 DEF CheckTypes
  <2>2. bitmap = {images[i].type : i \in 0 .. 2}
    BY <2>1 DEF TypesSeen
  <2>3. ~TypesWrong => \A t \in Known : \E i \in 0 .. 2 : images[i].type = t
    BY <2>2 DEF TypesWrong, pcie_fw_req_bitmap_mask
  <2> QED
    BY <1>3, <2>3 DEF CheckTypes, Return, TypesSeen, ImageFound
<1>4. CASE FindImage
  <2>1. pcie_fw_xfer_order[order_i] \in Known
    BY DEF TypesSeen, pcie_fw_xfer_order, Known, DTB, ROOTFS, KERNEL
  <2>2. pc = "find"
    BY <1>4 DEF FindImage
  <2>3. pcie_fw_find_image(pcie_fw_xfer_order[order_i]) # {}
    BY <2>1, <2>2, FirstFound DEF TypesSeen
  <2> QED
    BY <1>4, <2>3 DEF FindImage, TypesSeen, ImageFound
<1>5. CASE SendChunk
  BY <1>5 DEF SendChunk, Return, TypesSeen, ImageFound
<1>6. CASE SendCommand
  BY <1>6 DEF SendCommand, Return, TypesSeen, ImageFound
<1>7. CASE UNCHANGED vars
  BY <1>7 DEF vars, TypesSeen, ImageFound
<1> QED
  BY <1>1, <1>2, <1>3, <1>4, <1>5, <1>6, <1>7 DEF Next

LEMMA FoundInit ==
  ASSUME Init
  PROVE  FoundInv
<1>1. NoDesc \in Desc
  BY FwAssumption DEF NoDesc, Desc, Type, Word, DTB, KERNEL
<1>2. 0 .. 0 - 1 = {}
  OBVIOUS
<1> QED
  BY <1>1, <1>2 DEF Init, FoundInv, TypesSeen, ImageFound

\* With image types below the width of the bitmap, a request that the checks
\* let through never makes the driver send an image that is not there.
THEOREM EveryImageFound ==
  ASSUME "bigtype" \notin Env
  PROVE  Spec => []ImageFound
<1>1. Init => FoundInv
  BY FoundInit
<1>2. FoundInv /\ [Next]_vars => FoundInv'
  BY FoundNext
<1>3. FoundInv => ImageFound
  BY DEF FoundInv
<1> QED
  BY <1>1, <1>2, <1>3, PTL DEF Spec

----------------------------------------------------------------------------
(* What arrives.                                                           *)

\* The first p units of image i, padding included, are at the load address.
PlacedAt(t, i, p) ==
  \A k \in 0 .. p - 1 :
    /\ LoadAddr[t] + k \in DOMAIN mem
    /\ mem[LoadAddr[t] + k] = IF k < images[i].length THEN images[i].offset + k ELSE ZERO

\* The image of round j of the loop has arrived, and stays if none of those to
\* come reaches into it.
SentInRound(j) ==
  LET t == pcie_fw_xfer_order[j] IN
  \A i \in pcie_fw_find_image(t) :
    /\ NotReached(t, i) => PlacedAt(t, i, Total(images[i].length))
    /\ t = ROOTFS /\ images[i].length < SizeMod => initrd = images[i].length

\* What earlier rounds have sent is still there, and so is what this round has
\* sent so far.
WholeInv ==
  /\ pc \in {"head", "images"} => order_i = 0
  /\ pc \in {"find", "chunk", "done"} =>
       /\ \A t \in Known : pcie_fw_find_image(t) # {}
       /\ \A j \in 0 .. 2 : j < order_i \/ pc = "done" => SentInRound(j)
  /\ pc = "chunk" =>
       \A i \in pcie_fw_find_image(pcie_fw_xfer_order[order_i]) :
         PlacedAt(pcie_fw_xfer_order[order_i], i, ep_pos)

\* The padding of a length that leaves room for it does not wrap.
LEMMA TotalCovers ==
  ASSUME NEW l \in Nat, l <= WordMod - Pad
  PROVE  l <= Total(l)
<1>1. WordMod \in Nat \ {0} /\ Pad \in Nat \ {0}
  BY FwAssumption
<1> DEFINE t == l + Pad - 1
<1>2. t \in 0 .. WordMod - 1
  BY <1>1
<1>3. Total(l) = t - (t % Pad)
  BY <1>1, <1>2, ModSmall DEF Total
<1>a. t \in Int /\ t = l + Pad - 1
  BY <1>1
<1> HIDE DEF t
<1>4. t % Pad \in 0 .. Pad - 1
  BY <1>1, <1>a
<1> QED
  BY <1>1, <1>3, <1>4, <1>a

\* The search by type has one answer.
LEMMA FoundOnce ==
  ASSUME NEW t, NEW i \in pcie_fw_find_image(t)
  PROVE  /\ i \in 0 .. 2 /\ images[i].type = t
         /\ \A j \in pcie_fw_find_image(t) : j = i
<1>1. \A j \in pcie_fw_find_image(t) : j \in 0 .. 2 /\ images[j].type = t
  BY DEF pcie_fw_find_image
<1>2. ASSUME NEW j \in pcie_fw_find_image(t), NEW k \in pcie_fw_find_image(t), j < k
      PROVE  FALSE
  <2>1. j \in 0 .. k - 1
    BY <1>1, <1>2
  <2> QED
    BY <1>1, <2>1 DEF pcie_fw_find_image
<1>3. ASSUME NEW j \in pcie_fw_find_image(t) PROVE j = i
  <2>1. i \in 0 .. 2 /\ j \in 0 .. 2 /\ ~(i < j) /\ ~(j < i)
    BY <1>1, <1>2
  <2> QED
    BY <2>1
<1> QED
  BY <1>1, <1>3

\* The order names each type once.
LEMMA OrderOnce ==
  /\ \A j \in 0 .. 2 : pcie_fw_xfer_order[j] \in Known
  /\ \A j, k \in 0 .. 2 : pcie_fw_xfer_order[j] = pcie_fw_xfer_order[k] => j = k
  /\ \A t \in Known : \E j \in 0 .. 2 : pcie_fw_xfer_order[j] = t
<1>1. /\ pcie_fw_xfer_order[0] = 0 /\ pcie_fw_xfer_order[1] = 1
      /\ pcie_fw_xfer_order[2] = 2
  BY DEF pcie_fw_xfer_order, DTB, ROOTFS, KERNEL
<1>2. Known = {0, 1, 2}
  BY DEF Known, DTB, ROOTFS, KERNEL
<1>3. \A j \in 0 .. 2 : j = 0 \/ j = 1 \/ j = 2
  OBVIOUS
<1>4. 0 \in 0 .. 2 /\ 1 \in 0 .. 2 /\ 2 \in 0 .. 2
  OBVIOUS
<1> QED
  BY <1>1, <1>2, <1>3, <1>4

\* The descriptor of an image that has been found.
LEMMA FoundDesc ==
  ASSUME RangeInv, NEW t, NEW i \in pcie_fw_find_image(t)
  PROVE  /\ i \in 0 .. 2 /\ images[i].length \in Nat /\ images[i].offset \in Nat
         /\ Total(images[i].length) \in Int
<1>1. i \in 0 .. 2
  BY FoundOnce
<1>2. images[i] \in Desc
  BY <1>1 DEF RangeInv, Typed
<1>3. images[i].length \in Nat /\ images[i].offset \in Nat
  BY <1>2 DEF Desc, Word
<1> QED
  BY <1>1, <1>3, TotalInt

\* The image of this round.
LEMMA ImageOfRound ==
  ASSUME NEW i \in pcie_fw_find_image(pcie_fw_xfer_order[order_i])
  PROVE  Image = images[i] /\ Image.type = pcie_fw_xfer_order[order_i]
<1> DEFINE P(x) == x \in pcie_fw_find_image(pcie_fw_xfer_order[order_i])
           c == CHOOSE x \in 0 .. 2 : P(x)
<1>1. i \in 0 .. 2 /\ P(i)
  BY FoundOnce
<1>2. c \in 0 .. 2 /\ P(c)
  BY <1>1
<1>3. c = i
  BY <1>2, FoundOnce
<1>4. Image = images[c]
  BY DEF Image
<1> QED
  BY <1>3, <1>4, FoundOnce

\* A chunk extends what this round has sent and touches nothing else.
LEMMA ChunkPlaced ==
  ASSUME RangeInv, WholeInv, order_i \in 0 .. 2, pc = "chunk",
         ep_pos < Total(Image.length), ep_pos' = ep_pos + Csz,
         mem' = [a \in DOMAIN mem \cup ChunkPlaces |->
                   IF a \in ChunkPlaces THEN ChunkUnit(a - ChunkAddr) ELSE mem[a]],
         UNCHANGED <<pc, fw_size, images, n, bitmap, order_i, initrd>>
  PROVE  WholeInv'
<1> DEFINE t == pcie_fw_xfer_order[order_i]
<1>1. t \in Known
  BY OrderOnce
<1>2. PICK i : i \in pcie_fw_find_image(t)
  BY <1>1 DEF WholeInv
<1>3. Image = images[i] /\ Image.type = t /\ i \in 0 .. 2
  BY <1>2, ImageOfRound, FoundOnce
<1> DEFINE l == images[i].length
           o == images[i].offset
           T == Total(l)
           A == LoadAddr[t]
<1>4. l \in Nat /\ o \in Nat /\ T \in Nat /\ A \in Nat /\ ep_pos \in Nat /\ ep_pos < T
  <2>1. l \in Nat /\ o \in Nat /\ T \in Int
    BY <1>2, FoundDesc
  <2>2. A \in Nat /\ ep_pos \in Nat
    BY <1>1, FwAssumption DEF RangeInv, Typed
  <2>3. ep_pos < T
    BY <1>3
  <2> HIDE DEF T
  <2> QED
    BY <2>1, <2>2, <2>3
<1>5. Csz \in Int /\ Csz > 0 /\ ep_pos + Csz <= T
  <2>1. Csz = LeastOf(Block, T - ep_pos) /\ Block \in Nat \ {0}
    BY <1>3, FwAssumption DEF Csz
  <2> HIDE DEF T
  <2> QED
    BY <1>4, <2>1 DEF LeastOf
<1>6. ChunkAddr = A + ep_pos /\ ChunkPlaces = A + ep_pos .. A + ep_pos + Csz - 1
  BY <1>3 DEF ChunkAddr, ChunkPlaces
<1>7. \A a : a \in DOMAIN mem /\ a \notin ChunkPlaces => a \in DOMAIN mem' /\ mem'[a] = mem[a]
  OBVIOUS
<1>8. ASSUME NEW k \in 0 .. Csz - 1
      PROVE  /\ A + ep_pos + k \in DOMAIN mem'
             /\ mem'[A + ep_pos + k] = IF ep_pos + k < l THEN o + ep_pos + k ELSE ZERO
  <2> DEFINE a == A + ep_pos + k
  <2>1. a \in ChunkPlaces
    BY <1>4, <1>5, <1>6
  <2>2. a - ChunkAddr = k
    BY <1>4, <1>6
  <2>3. a \in DOMAIN mem' /\ mem'[a] = ChunkUnit(k)
    BY <2>1, <2>2
  <2>4. SourceRange = o + ep_pos .. o + ep_pos + LeastOf(Csz, l - ep_pos) - 1
    BY <1>3 DEF SourceRange
  <2>5. o + ep_pos + k \in SourceRange <=> ep_pos + k < l
    <3>1. LeastOf(Csz, l - ep_pos) \in Int
      BY <1>4, <1>5 DEF LeastOf
    <3>2. k < LeastOf(Csz, l - ep_pos) <=> ep_pos + k < l
      BY <1>4, <1>5 DEF LeastOf
    <3> DEFINE w == LeastOf(Csz, l - ep_pos)
    <3> HIDE DEF w, l, o
    <3> QED
      BY <1>4, <2>4, <3>1, <3>2 DEF w
  <2> QED
    BY <1>3, <2>3, <2>5 DEF ChunkUnit
<1>9. PlacedAt(t, i, ep_pos)
  BY <1>2 DEF WholeInv
<1> HIDE DEF T, A
<1>10. \A k \in 0 .. ep_pos + Csz - 1 :
         /\ A + k \in DOMAIN mem'
         /\ mem'[A + k] = IF k < l THEN o + k ELSE ZERO
  <2> SUFFICES ASSUME NEW k \in 0 .. ep_pos + Csz - 1
               PROVE  /\ A + k \in DOMAIN mem'
                      /\ mem'[A + k] = IF k < l THEN o + k ELSE ZERO
    OBVIOUS
  <2>1. CASE k < ep_pos
    <3>1. A + k \in DOMAIN mem /\ mem[A + k] = IF k < l THEN o + k ELSE ZERO
      BY <1>4, <1>5, <1>9, <2>1 DEF PlacedAt, A
    <3>2. A + k \notin ChunkPlaces
      BY <1>4, <1>5, <1>6, <2>1
    <3> QED
      BY <1>7, <3>1, <3>2
  <2>2. CASE k >= ep_pos
    <3> DEFINE m == k - ep_pos
    <3>1. m \in 0 .. Csz - 1 /\ A + ep_pos + m = A + k /\ ep_pos + m = k /\ o + ep_pos + m = o + k
      BY <1>4, <1>5, <2>2
    <3> QED
      BY <1>8, <3>1
  <2> QED
    BY <1>4, <1>5, <2>1, <2>2
<1>11. ASSUME NEW j \in 0 .. 2, j < order_i PROVE SentInRound(j)'
  <2> DEFINE u == pcie_fw_xfer_order[j]
  <2>1. u \in Known /\ u # t
    BY <1>11, OrderOnce
  <2>2. SentInRound(j)
    BY <1>11 DEF WholeInv
  <2>3. SentLater(u, t)
    BY <1>11 DEF SentLater
  <2>4. ASSUME NEW g \in pcie_fw_find_image(u), NotReached(u, g),
               NEW k \in 0 .. Total(images[g].length) - 1
        PROVE  /\ LoadAddr[u] + k \in DOMAIN mem'
               /\ mem'[LoadAddr[u] + k] = mem[LoadAddr[u] + k]
    <3>1. LoadAddr[u] + k \in DOMAIN mem
      BY <2>2, <2>4 DEF SentInRound, PlacedAt
    <3>2. LoadAddr[u] + k \in Places(u, g)
      <4>1. LoadAddr[u] \in Nat /\ Total(images[g].length) \in Int /\ k \in Int
        BY <2>1, FoundDesc, FwAssumption
      <4> QED
        BY <4>1 DEF Places
    <3>3. LoadAddr[u] + k \notin Places(t, i)
      BY <1>1, <1>2, <2>3, <2>4, <3>2 DEF NotReached
    <3>4. ChunkPlaces \subseteq Places(t, i)
      <4>1. Places(t, i) = A .. A + T - 1
        BY DEF Places, T, A
      <4> QED
        BY <1>4, <1>5, <1>6, <4>1
    <3> QED
      BY <1>7, <3>1, <3>3, <3>4
  <2> QED
    BY <2>2, <2>4 DEF SentInRound, PlacedAt, NotReached, Places, pcie_fw_find_image
<1>12. \A g \in pcie_fw_find_image(t)' : g = i
  BY <1>2, FoundOnce DEF pcie_fw_find_image
<1>a. \A k \in 0 .. ep_pos' - 1 :
        /\ A + k \in DOMAIN mem'
        /\ mem'[A + k] = IF k < l THEN o + k ELSE ZERO
  <2> SUFFICES ASSUME NEW k \in 0 .. ep_pos' - 1
               PROVE  /\ A + k \in DOMAIN mem'
                      /\ mem'[A + k] = IF k < l THEN o + k ELSE ZERO
    OBVIOUS
  <2>1. k \in 0 .. ep_pos + Csz - 1
    BY <1>4, <1>5
  <2> QED
    BY ONLY <1>10, <2>1, Zenon
<1>13. PlacedAt(t, i, ep_pos)'
  <2>1. t' = t /\ images' = images
    OBVIOUS
  <2> HIDE DEF t
  <2> QED
    BY ONLY <1>a, <2>1, Zenon DEF PlacedAt, A
<1>14. pc' = "chunk" /\ order_i' = order_i
  OBVIOUS
<1>15. (\A u \in Known : pcie_fw_find_image(u) # {})'
  BY <1>1 DEF WholeInv, pcie_fw_find_image
<1>16. \A j \in 0 .. 2 : j < order_i \/ pc' = "done" => SentInRound(j)'
  BY <1>11, <1>14
<1> QED
  BY <1>12, <1>13, <1>14, <1>15, <1>16 DEF WholeInv

\* The command ends the round, with the whole image in place.
LEMMA RoundDone ==
  ASSUME RangeInv, WholeInv, order_i \in 0 .. 2, pc = "chunk",
         ep_pos >= Total(Image.length),
         initrd' = IF Image.type = ROOTFS THEN Image.length % SizeMod ELSE initrd,
         pc' = IF order_i = 2 THEN "done" ELSE "find",
         order_i' = IF order_i = 2 THEN order_i ELSE order_i + 1,
         UNCHANGED <<fw_size, images, n, bitmap, ep_pos, mem>>
  PROVE  WholeInv'
<1> DEFINE t == pcie_fw_xfer_order[order_i]
<1>1. t \in Known
  BY OrderOnce
<1>2. PICK i : i \in pcie_fw_find_image(t)
  BY <1>1 DEF WholeInv
<1>3. Image = images[i] /\ Image.type = t /\ i \in 0 .. 2
  BY <1>2, ImageOfRound, FoundOnce
<1>4. Total(images[i].length) \in Int /\ ep_pos \in Nat
  BY <1>2, FoundDesc DEF RangeInv, Typed
<1>5. PlacedAt(t, i, Total(images[i].length))
  <2>1. PlacedAt(t, i, ep_pos)
    BY <1>2 DEF WholeInv
  <2>2. 0 .. Total(images[i].length) - 1 \subseteq 0 .. ep_pos - 1
    BY <1>3, <1>4
  <2> QED
    BY <2>1, <2>2 DEF PlacedAt
<1>6. ASSUME NEW r \in 0 .. 2, r = order_i PROVE SentInRound(r)'
  <2>1. \A g \in pcie_fw_find_image(t) : g = i
    BY <1>2, FoundOnce
  <2>2. t = ROOTFS /\ images[i].length < SizeMod => initrd' = images[i].length
    <3>1. SizeMod \in Nat \ {0}
      BY FwAssumption
    <3>2. images[i].length < SizeMod => images[i].length \in 0 .. SizeMod - 1
      BY <1>2, <3>1, FoundDesc
    <3>3. images[i].length < SizeMod => images[i].length % SizeMod = images[i].length
      BY <3>1, <3>2, ModSmall
    <3> QED
      BY <1>3, <3>3
  <2> QED
    BY <1>5, <1>6, <2>1, <2>2 DEF SentInRound, PlacedAt, NotReached, Places, pcie_fw_find_image
<1>7. ASSUME NEW r \in 0 .. 2, r < order_i PROVE SentInRound(r)'
  <2>1. SentInRound(r)
    BY <1>7 DEF WholeInv
  <2>2. pcie_fw_xfer_order[r] # t
    BY <1>7, OrderOnce
  <2>3. pcie_fw_xfer_order[r] = ROOTFS => initrd' = initrd
    BY <1>3, <2>2
  <2> QED
    BY <2>1, <2>3 DEF SentInRound, PlacedAt, NotReached, Places, pcie_fw_find_image
<1>8. ASSUME NEW r \in 0 .. 2, r < order_i' \/ pc' = "done" PROVE SentInRound(r)'
  BY <1>6, <1>7, <1>8
<1>9. pc' \in {"find", "done"} /\ \A u \in Known : pcie_fw_find_image(u)' # {}
  BY DEF WholeInv, pcie_fw_find_image
<1> QED
  BY <1>1, <1>8, <1>9 DEF WholeInv

\* Every step keeps what has arrived.
LEMMA WholeNext ==
  ASSUME RangeInv, FoundInv, WholeInv, [Next]_vars
  PROVE  WholeInv'
<1>t. order_i \in 0 .. 2
  BY DEF RangeInv, Typed
<1>1. ASSUME UNCHANGED <<images, n, order_i, mem, initrd>>,
             pc' \notin {"head", "images", "find", "chunk", "done"}
      PROVE  WholeInv'
  BY <1>1 DEF WholeInv
<1>2. CASE CheckHead
  BY <1>2 DEF CheckHead, Return, WholeInv
<1>3. CASE CheckImage
  <2>1. pc = "images" /\ ((pc' = pc /\ order_i' = order_i) \/ Return("einval"))
    BY <1>3 DEF CheckImage
  <2> QED
    BY <1>1, <2>1 DEF Return, WholeInv
<1>4. CASE CheckTypes
  <2>1. CASE Return("einval")
    BY <1>1, <2>1 DEF Return
  <2>2. CASE ~TypesWrong /\ Return("find")
    <3>1. pc = "images" /\ n = 3 /\ pc' = "find" /\ order_i = 0
          /\ UNCHANGED <<images, n, order_i, mem, initrd>>
      BY <1>4, <2>2 DEF CheckTypes, Return, WholeInv
    <3>2. bitmap = {images[i].type : i \in 0 .. 2}
      BY <3>1 DEF FoundInv, TypesSeen
    <3>3. \A t \in Known : \E i \in 0 .. 2 : images[i].type = t
      BY <2>2, <3>2 DEF TypesWrong, pcie_fw_req_bitmap_mask
    <3>4. \A t \in Known : pcie_fw_find_image(t) # {}
      BY <3>3, FirstFound
    <3> QED
      BY <3>1, <3>4 DEF WholeInv, pcie_fw_find_image
  <2> QED
    BY <1>4, <2>1, <2>2 DEF CheckTypes
<1>5. CASE FindImage
  <2>1. CASE Return("null_image")
    BY <1>1, <2>1 DEF Return
  <2>2. CASE /\ pc' = "chunk" /\ ep_pos' = 0
             /\ UNCHANGED <<fw_size, images, n, bitmap, order_i, mem, initrd>>
    <3>1. pc = "find" /\ 0 .. 0 - 1 = {}
      BY <1>5 DEF FindImage
    <3>2. \A j \in 0 .. 2 : j < order_i => SentInRound(j)'
      BY <2>2, <3>1 DEF WholeInv, SentInRound, PlacedAt, NotReached, Places, pcie_fw_find_image
    <3>3. \A t, i : PlacedAt(t, i, ep_pos)'
      BY <2>2, <3>1 DEF PlacedAt
    <3> QED
      BY <2>2, <3>1, <3>2, <3>3 DEF WholeInv, pcie_fw_find_image
  <2> QED
    BY <1>5, <2>1, <2>2 DEF FindImage
<1>6. CASE SendChunk
  <2>1. CASE Return("failed")
    BY <1>1, <2>1 DEF Return
  <2>2. CASE ~Return("failed")
    BY <1>t, <1>6, <2>2, ChunkPlaced DEF SendChunk
  <2> QED
    BY <2>1, <2>2
<1>7. CASE SendCommand
  <2>1. CASE Return("failed")
    BY <1>1, <2>1 DEF Return
  <2>2. CASE ~Return("failed")
    BY <1>t, <1>7, <2>2, RoundDone DEF SendCommand
  <2> QED
    BY <2>1, <2>2
<1>8. CASE UNCHANGED vars
  <2>1. \A j \in 0 .. 2 : SentInRound(j) => SentInRound(j)'
    BY <1>8 DEF vars, SentInRound, PlacedAt, NotReached, Places, pcie_fw_find_image
  <2>2. \A t, i : PlacedAt(t, i, ep_pos) => PlacedAt(t, i, ep_pos)'
    BY <1>8 DEF vars, PlacedAt
  <2> QED
    BY <1>8, <2>1, <2>2 DEF vars, WholeInv, pcie_fw_find_image
<1> QED
  BY <1>2, <1>3, <1>4, <1>5, <1>6, <1>7, <1>8 DEF Next

\* A request that succeeds has put every image at its load address, padded with
\* zeros, if its length leaves room for the padding and no image that is sent
\* later reaches into it, and has announced the size of the initrd if a u32 holds
\* it: for every order of the images in the request, all lengths and load
\* addresses, every declared size of the blob, and any block size.
THEOREM ImagesArrive ==
  ASSUME "bigtype" \notin Env
  PROVE  Spec => []ImagesWhole
<1>1. Init => RangeInv /\ FoundInv /\ WholeInv
  <2>1. Init => WholeInv
    BY DEF Init, WholeInv
  <2> QED
    BY <2>1, RangeInit, FoundInit
<1>2. RangeInv /\ FoundInv /\ WholeInv /\ [Next]_vars => (RangeInv /\ FoundInv /\ WholeInv)'
  BY RangeNext, FoundNext, WholeNext
<1>3. RangeInv /\ WholeInv => ImagesWhole
  <2> SUFFICES ASSUME RangeInv, WholeInv, pc = "done", NEW t \in Known,
                      NEW i \in pcie_fw_find_image(t)
               PROVE  /\ images[i].length <= WordMod - Pad /\ NotReached(t, i) => Loaded(t, i)
                      /\ t = ROOTFS /\ images[i].length < SizeMod => initrd = images[i].length
    BY DEF ImagesWhole, WholeInv
  <2>1. PICK j \in 0 .. 2 : pcie_fw_xfer_order[j] = t
    BY OrderOnce
  <2>2. /\ NotReached(t, i) => PlacedAt(t, i, Total(images[i].length))
        /\ t = ROOTFS /\ images[i].length < SizeMod => initrd = images[i].length
    BY <2>1 DEF WholeInv, SentInRound
  <2>3. ASSUME images[i].length <= WordMod - Pad
        PROVE  0 .. images[i].length - 1 \subseteq 0 .. Total(images[i].length) - 1
    <3>1. images[i].length \in Nat /\ Total(images[i].length) \in Int
      BY FoundDesc
    <3>2. images[i].length <= Total(images[i].length)
      BY <2>3, <3>1, TotalCovers
    <3> QED
      BY <3>1, <3>2
  <2> QED
    BY <2>2, <2>3 DEF PlacedAt, Loaded, WholeAt
<1> QED
  BY <1>1, <1>2, <1>3, PTL DEF Spec

=============================================================================
