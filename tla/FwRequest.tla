------------------------------ MODULE FwRequest ------------------------------
(***************************************************************************)
(* One AMBA_PCI_XFER_FIRMWARE request as data: the checks in front of the  *)
(* lock in pcie_ioctl_xfer_firmware, the images it then finds by type, and *)
(* what pcie_ring_xfer_user reads of the user's blob and where it puts it  *)
(* in the endpoint's memory.  The ring in between is module PcieRing: here *)
(* a chunk that is posted arrives, or the request fails.                   *)
(*                                                                         *)
(* Sizes are counted in units.  A unit of the blob is named by its offset, *)
(* ZERO is padding.  64-bit words are counted modulo WordMod; an endpoint  *)
(* address is no such word: copy_from_user fails at the end of the user's  *)
(* address space, long before load_addr + ep_pos could wrap.               *)
(***************************************************************************)
EXTENDS Integers

CONSTANTS
  WordMod,    \* number of values of a u64
  ShiftBits,  \* width of fw_req_bitmap, 32 in the code
  Block,      \* RING_BLOCK_SIZE
  Pad,        \* images are padded to a multiple of 16 bytes
  LoadAddr,   \* [Type -> Nat], pcie_fw_load_addr
  SizeMod,    \* number of values of a u32
  FwSizes,    \* bound: sizes of the blobs that users send
  Env         \* "bigtype": requests with types that are no bit number

\* enum amba_pci_fw_image_type
DTB == 0
ROOTFS == 1
KERNEL == 2

Known == {DTB, ROOTFS, KERNEL}

ASSUME FwAssumption ==
  /\ WordMod \in Nat \ {0} /\ ShiftBits \in Nat /\ ShiftBits > KERNEL
  /\ Pad \in 1 .. WordMod /\ Block \in Nat \ {0} /\ Block % Pad = 0
  /\ LoadAddr \in [Known -> Nat]
  /\ SizeMod \in 1 .. WordMod - Pad
  /\ FwSizes \subseteq 0 .. WordMod - 1
  /\ Env \subseteq {"bigtype"}

ZERO == "zero"

VARIABLES
  pc,
  fw_size,  \* the blob is [0, fw_size)
  images,   \* descriptors 0 .. n-1, as far as they have been checked
  n,
  bitmap,   \* fw_req_bitmap, the set of its bits
  order_i,  \* index into pcie_fw_xfer_order
  ep_pos,   \* position in the image being sent
  mem,      \* endpoint memory: what the request has put at each address
  initrd    \* the size that came with SET_INITRD_ADDR

vars == <<pc, fw_size, images, n, bitmap, order_i, ep_pos, mem, initrd>>

Word == 0 .. WordMod - 1
Type == IF "bigtype" \in Env THEN 0 .. 2 * ShiftBits - 1 ELSE 0 .. ShiftBits - 1
Desc == [type : Type, offset : Word, length : Word]
NoDesc == [type |-> DTB, offset |-> 0, length |-> 0]
NoMem == [a \in {} |-> ZERO]

pcie_fw_xfer_order == [i \in 0 .. 2 |-> IF i = 0 THEN DTB ELSE IF i = 1 THEN ROOTFS ELSE KERNEL]
pcie_fw_req_bitmap_mask == Known

Init ==
  /\ pc = "head" /\ fw_size = 0
  /\ images = [i \in 0 .. 2 |-> NoDesc] /\ n = 0 /\ bitmap = {}
  /\ order_i = 0 /\ ep_pos = 0 /\ mem = NoMem /\ initrd = 0

----------------------------------------------------------------------------
(* The checks.                                                             *)

Return(result) ==
  /\ pc' = result
  /\ UNCHANGED <<fw_size, images, n, bitmap, order_i, ep_pos, mem, initrd>>

CheckHead ==
  /\ pc = "head"
  /\ \/ \E size \in FwSizes \ {0} :
          /\ fw_size' = size /\ pc' = "images"
          /\ UNCHANGED <<images, n, bitmap, order_i, ep_pos, mem, initrd>>
     \/ Return("einval")

\* Defect: the offset is not compared with the size, and the difference wraps.
OutOfRange_NoOffset(img) ==
  \/ img.length = 0
  \/ img.length > (fw_size - img.offset) % WordMod

OutOfRange(img) ==
  \/ img.offset > fw_size
  \/ img.length = 0
  \/ img.length > (fw_size - img.offset) % WordMod

\* 1U << type: undefined when type is not a bit number.  The shift takes it
\* modulo the width, or leaves nothing.
Shifted(type) == IF type < ShiftBits THEN {{type}} ELSE {{type % ShiftBits}, {}}

\* One round of the loop over req.images.
CheckImage ==
  /\ pc = "images" /\ n < 3
  /\ \E img \in Desc :
       \/ /\ ~OutOfRange(img)
          /\ images' = [images EXCEPT ![n] = img]
          /\ \E bits \in Shifted(img.type) : bitmap' = bitmap \cup bits
          /\ n' = n + 1
          /\ UNCHANGED <<pc, fw_size, order_i, ep_pos, mem, initrd>>
       \/ OutOfRange(img) /\ Return("einval")

\* Defect: only types that are not known are refused.
TypesWrong_Unknown == ~ (bitmap \subseteq pcie_fw_req_bitmap_mask)

TypesWrong == bitmap # pcie_fw_req_bitmap_mask

CheckTypes ==
  /\ pc = "images" /\ n = 3
  /\ \/ TypesWrong /\ Return("einval")
     \/ ~TypesWrong /\ Return("find")

----------------------------------------------------------------------------
(* The images, in pcie_fw_xfer_order.                                      *)

\* The first descriptor of the type; {} stands for NULL.
pcie_fw_find_image(type) ==
  {i \in 0 .. 2 : images[i].type = type /\ \A j \in 0 .. i - 1 : images[j].type # type}

Image == images[CHOOSE i \in 0 .. 2 : i \in pcie_fw_find_image(pcie_fw_xfer_order[order_i])]

FindImage ==
  /\ pc = "find"
  /\ \/ /\ pcie_fw_find_image(pcie_fw_xfer_order[order_i]) # {}
        /\ pc' = "chunk" /\ ep_pos' = 0
        /\ UNCHANGED <<fw_size, images, n, bitmap, order_i, mem, initrd>>
     \/ /\ pcie_fw_find_image(pcie_fw_xfer_order[order_i]) = {}
        /\ Return("null_image")

\* Defect: rounded down.
Total_Down(length) == length - (length % Pad)

\* (data_len + 15) & ~15
Total(length) == LET t == (length + Pad - 1) % WordMod IN t - (t % Pad)

LeastOf(a, b) == IF a < b THEN a ELSE b

Csz == LeastOf(Block, Total(Image.length) - ep_pos)

\* What copy_from_user reads of the blob for the chunk at ep_pos.
SourceRange ==
  LET nfile == LeastOf(Csz, Image.length - ep_pos)
  IN Image.offset + ep_pos .. Image.offset + ep_pos + nfile - 1

\* The unit that lands k units behind the chunk's address.
ChunkUnit(k) ==
  LET u == Image.offset + ep_pos + k IN IF u \in SourceRange THEN u ELSE ZERO

\* load_addr + ep_pos
ChunkAddr == LoadAddr[Image.type] + ep_pos
ChunkPlaces == ChunkAddr .. ChunkAddr + Csz - 1

SendChunk ==
  /\ pc = "chunk" /\ ep_pos < Total(Image.length)
  /\ \/ /\ mem' = [a \in DOMAIN mem \cup ChunkPlaces |->
                     IF a \in ChunkPlaces THEN ChunkUnit(a - ChunkAddr) ELSE mem[a]]
        /\ ep_pos' = ep_pos + Csz
        /\ UNCHANGED <<pc, fw_size, images, n, bitmap, order_i, initrd>>
     \/ Return("failed")

\* SET_*_ADDR with tail_size, the final poll, and the next round of the loop.
SendCommand ==
  /\ pc = "chunk" /\ ep_pos >= Total(Image.length)
  /\ \/ /\ initrd' = IF Image.type = ROOTFS THEN Image.length % SizeMod ELSE initrd
        /\ pc' = IF order_i = 2 THEN "done" ELSE "find"
        /\ order_i' = IF order_i = 2 THEN order_i ELSE order_i + 1
        /\ UNCHANGED <<fw_size, images, n, bitmap, ep_pos, mem>>
     \/ Return("failed")

Next ==
  \/ CheckHead \/ CheckImage \/ CheckTypes
  \/ FindImage \/ SendChunk \/ SendCommand

Spec == Init /\ [][Next]_vars

----------------------------------------------------------------------------
\* Every byte that a request makes the driver read lies in the blob that the
\* user has declared, for any offset and length that the checks let through.
ReadsInBlob ==
  pc = "chunk" /\ ep_pos < Total(Image.length) => SourceRange \subseteq 0 .. fw_size - 1

\* A request that passes the checks has an image for every round of the loop:
\* pcie_ring_xfer_user is never called with NULL.
ImageFound == pc # "null_image"

\* What the endpoint should find at the load address of type t: the image,
\* padded with zeros and not with what the buffer held before.
WholeAt(t, i) ==
  \A k \in 0 .. Total(images[i].length) - 1 :
    LET a == LoadAddr[t] + k IN
    /\ a \in DOMAIN mem
    /\ mem[a] = IF k < images[i].length THEN images[i].offset + k ELSE ZERO

Loaded(t, i) ==
  /\ \A k \in 0 .. images[i].length - 1 : LoadAddr[t] + k \in DOMAIN mem
  /\ WholeAt(t, i)

\* Where pcie_ring_xfer_user puts an image and its padding.
Places(t, i) == LoadAddr[t] .. LoadAddr[t] + Total(images[i].length) - 1

SentLater(t, u) ==
  \E j, k \in 0 .. 2 : j < k /\ pcie_fw_xfer_order[j] = t /\ pcie_fw_xfer_order[k] = u

\* None of the images that are sent behind image i is so long that it reaches
\* into it.  The driver does not check this.
NotReached(t, i) ==
  \A u \in Known : \A j \in pcie_fw_find_image(u) :
    SentLater(t, u) => Places(t, i) \cap Places(u, j) = {}

\* When the request has succeeded an image is in endpoint memory, padded with
\* zeros, unless one that is sent later reaches into it or its own length leaves
\* no room in a u64 for the padding; the size announced for the initrd is that of
\* its image if a u32 holds it.  The order of the images in the request, their
\* overlap in the blob and chunks that end with them make no difference.
ImagesWhole ==
  pc = "done" => \A t \in Known :
    /\ pcie_fw_find_image(t) # {}
    /\ \A i \in pcie_fw_find_image(t) :
         /\ images[i].length <= WordMod - Pad /\ NotReached(t, i) => Loaded(t, i)
         /\ t = ROOTFS /\ images[i].length < SizeMod => initrd = images[i].length

\* The same without these conditions.  The code does not keep this.
AlwaysWhole ==
  pc = "done" => \A t \in Known : \A i \in pcie_fw_find_image(t) :
    Loaded(t, i) /\ (t = ROOTFS => initrd = images[i].length)

=============================================================================
