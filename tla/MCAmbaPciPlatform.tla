------------------------- MODULE MCAmbaPciPlatform -------------------------
(* Small buses for AmbaPciPlatform.                                        *)
EXTENDS AmbaPciPlatformCards, TLC

CONSTANTS b1, b2, v1, v2, x1, t1, t2

\* Slot 0 is bus 1, slot 1 is bus 2; x1 shares bus 1 with slot 0.
Table ==
  (b1 :> [bus |-> 1, kind |-> "boot"])   @@ (v1 :> [bus |-> 1, kind |-> "virtio"]) @@
  (b2 :> [bus |-> 2, kind |-> "boot"])   @@ (v2 :> [bus |-> 2, kind |-> "virtio"]) @@
  (x1 :> [bus |-> 1, kind |-> "other"])

MCDevBus == [d \in Dev |-> Table[d].bus]
MCDevKind == [d \in Dev |-> Table[d].kind]
MCSymmetry == Permutations(Thread)
=============================================================================
