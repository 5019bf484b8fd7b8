----------------------------- MODULE MCFwRequest -----------------------------
(* Load addresses for FwRequest: 4 units of room for the kernel and 2 for  *)
(* the DTB, in the code 64 MiB and 2 MiB.                                  *)
EXTENDS FwRequest

MCLoadAddr == [t \in Known |-> IF t = KERNEL THEN 0 ELSE IF t = DTB THEN 4 ELSE 6]
=============================================================================
