----------------------------- MODULE FwDelivery -----------------------------
(***************************************************************************)
(* What a firmware request promises: the endpoint's memory fills with the  *)
(* three images in order, chunk by chunk, each image's address follows it  *)
(* and precedes the next image, and success means that all is there.  Only *)
(* a card that vanishes may be taken for one that has finished, and then   *)
(* only the last image can be missing.  No ring, no counter, no timeout    *)
(* and no bus in sight; PcieRing implements it.                            *)
(***************************************************************************)
EXTENDS Naturals

CONSTANTS
  Chunks,  \* length of each image
  NULL

VARIABLES
  result,  \* what the user knows of the request
  mem,     \* endpoint memory, by the chunk that belongs there
  set,     \* per image, whether its address has been announced
  gone     \* the card has vanished

deliveryVars == <<result, mem, set, gone>>

\* DTB, ROOTFS, KERNEL.
Image == 1 .. 3
Chunk == UNION {{i} \X (0 .. Chunks[i] - 1) : i \in Image}

Init ==
  /\ result = "pending"
  /\ mem = [c \in Chunk |-> NULL]
  /\ set = [i \in Image |-> "no"]
  /\ gone = FALSE

Complete(i) == set[i] = "whole"

EarlierComplete(i) == \A e \in Image : e < i => Complete(e)

\* Chunk k of image i arrives, behind all that comes before it.  It may do so
\* after the request has failed.
Land(i, k) ==
  /\ ~gone /\ EarlierComplete(i)
  /\ \A j \in 0 .. k - 1 : mem[<<i, j>>] = <<i, j>>
  /\ mem[<<i, k>>] = NULL
  /\ mem' = [mem EXCEPT ![<<i, k>>] = <<i, k>>]
  /\ UNCHANGED <<result, set, gone>>

Announce(i) ==
  /\ ~gone /\ EarlierComplete(i) /\ set[i] = "no"
  /\ \A k \in 0 .. Chunks[i] - 1 : mem[<<i, k>>] = <<i, k>>
  /\ set' = [set EXCEPT ![i] = "whole"]
  /\ UNCHANGED <<result, mem, gone>>

Succeed ==
  /\ result = "pending"
  /\ EarlierComplete(3) /\ (Complete(3) \/ gone)
  /\ result' = "done"
  /\ UNCHANGED <<mem, set, gone>>

Fail ==
  /\ result = "pending" /\ result' = "failed"
  /\ UNCHANGED <<mem, set, gone>>

\* The user issues the request again; what has arrived stays.
Retry ==
  /\ result = "failed" /\ result' = "pending"
  /\ UNCHANGED <<mem, set, gone>>

Vanish ==
  /\ ~gone /\ gone' = TRUE
  /\ UNCHANGED <<result, mem, set>>

Next ==
  \/ \E i \in Image : \E k \in 0 .. Chunks[i] - 1 : Land(i, k)
  \/ \E i \in Image : Announce(i)
  \/ Succeed \/ Fail \/ Retry \/ Vanish

Spec == Init /\ [][Next]_deliveryVars
=============================================================================
