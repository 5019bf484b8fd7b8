------------------------ MODULE AmbaPciPlatformCards ------------------------
(* The slot table implements SlotLifecycle: the refinement mapping.        *)
EXTENDS AmbaPciPlatform

StatusOf == [DISCONNECTED |-> "waiting", BOOTING |-> "booting",
             REBOOTING |-> "rebooting", CONNECTED |-> "connected",
             BOOT_FAILED |-> "failed"]

CardStatus(e) == IF e.in_use THEN StatusOf[e.state] ELSE "absent"

CardFunction(e) == IF e.pdev = NULL THEN "none" ELSE DevKind[e.pdev]

Cards == INSTANCE SlotLifecycle WITH
  status <- [s \in Slot |-> CardStatus(devs[s])],
  function <- [s \in Slot |-> CardFunction(devs[s])],
  listening <- Registered

\* Whatever the lock, the unlocked windows, late work items and rmmod do to
\* them, slots only ever make the moves of SlotLifecycle: firmware is sent to
\* a waiting card only, a card comes up only out of a boot whose first
\* function has gone, a timeout fails a boot and nothing else, a failed boot
\* is final, no function is left in a slot that is given up, and a booting
\* card keeps its slot.
CardsLiveByLifecycle == Cards!Spec

=============================================================================
