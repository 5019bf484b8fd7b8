---------------------------- MODULE SlotLifecycle ----------------------------
(***************************************************************************)
(* What the slots of the driver promise to its users: the life of the card *)
(* in each slot as /proc and the ioctls show it, with no lock, no timer,   *)
(* no reference and no PCI core in sight.  AmbaPciPlatform implements it   *)
(* (module AmbaPciPlatformCards), and H2DSend takes it for the slots its   *)
(* requests run against.                                                   *)
(***************************************************************************)

CONSTANT Slot

VARIABLES
  status,    \* per slot, the state users see; "absent": not in use
  function,  \* per slot, the function of the card that it holds
  listening  \* the driver receives hot-plug notifications

lifeVars == <<status, function, listening>>

Status == {"absent", "waiting", "booting", "connected", "rebooting", "failed"}
Function == {"none", "boot", "virtio"}

Init ==
  /\ status = [s \in Slot |-> "absent"]
  /\ function = [s \in Slot |-> "none"]
  /\ listening = FALSE

\* The module has been loaded, or begins to unload.
Listen ==
  /\ listening' = ~listening
  /\ UNCHANGED <<status, function>>

----------------------------------------------------------------------------
(* The moves of one slot.                                                  *)

Move(s, st, fn) == status'[s] = st /\ function'[s] = fn

\* A card is plugged in, or found at load: it waits for its firmware or, with
\* the firmware running, is connected at once.
Appear(s) ==
  /\ listening /\ status[s] = "absent"
  /\ Move(s, "waiting", "boot") \/ Move(s, "connected", "virtio")

\* The firmware has been sent.
Send(s) ==
  /\ listening /\ status[s] = "waiting" /\ function[s] = "boot"
  /\ Move(s, "booting", "boot")

\* The firmware has started: its function is there, the boot function is not.
ComeUp(s) ==
  /\ listening /\ status[s] = "booting" /\ function[s] = "none"
  /\ Move(s, "connected", "virtio")

\* The firmware has not started in time.  A function that comes up later does
\* not count: only Release leads out of "failed".
Expire(s) == status[s] = "booting" /\ Move(s, "failed", function[s])

Reboot(s) ==
  /\ status[s] = "connected" /\ function[s] = "virtio"
  /\ Move(s, "rebooting", "virtio")

\* The function is removed; what becomes of the slot is the next question.
Detach(s) == function[s] # "none" /\ Move(s, status[s], "none")

\* The slot is given up.  A booting card keeps its slot while its functions
\* come and go, unless the module is on its way out.
Release(s) ==
  /\ status[s] # "absent" /\ function[s] = "none"
  /\ listening => status[s] # "booting"
  /\ Move(s, "absent", "none")

SlotMove(s) ==
  \/ Appear(s) \/ Send(s) \/ ComeUp(s) \/ Expire(s)
  \/ Reboot(s) \/ Detach(s) \/ Release(s)

\* The load-time scan fills several slots in one step.
Slots ==
  /\ status' \in [Slot -> Status] /\ function' \in [Slot -> Function]
  /\ \A s \in Slot : SlotMove(s) \/ Move(s, status[s], function[s])
  /\ UNCHANGED listening

Next == Listen \/ Slots

Spec == Init /\ [][Next]_lifeVars

=============================================================================
