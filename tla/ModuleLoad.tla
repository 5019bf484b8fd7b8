----------------------------- MODULE ModuleLoad -----------------------------
(***************************************************************************)
(* amba_pci_platform_init, each of whose registrations may fail, with its  *)
(* error path, and amba_pci_platform_exit.  Meanwhile users open the       *)
(* control device and the PCI core sends notifications, each as soon as    *)
(* the registration is there.  What happens to slots in detail is in       *)
(* AmbaPciPlatform; here a slot is in use or not.                          *)
(***************************************************************************)
EXTENDS Integers, SequencesExt

CONSTANTS
  User,   \* users of the control device
  Slot,
  Env     \* "early_open": users open the device before init has returned

ASSUME LoadAssumption == Env \subseteq {"early_open"}

\* The registrations, in the order in which init makes them.
InitOrder == <<"chrdev", "class", "cdev", "ctrl_dev", "proc_root", "notifier">>
Item == ToSet(InitOrder)

\* What must be registered while an item is.
Needs == [i \in Item |->
  CASE i = "cdev" -> {"chrdev"}
    [] i = "ctrl_dev" -> {"chrdev", "class", "cdev"}
    [] OTHER -> {}]

VARIABLES
  pc,      \* "unloaded", "init", "undo", "live", "cancel", "release", "exit"
  step,    \* index into InitOrder of the step that is next
  have,    \* what the kernel has registered for the module
  known,   \* what the flags and pointers of the code say
  ready,   \* mutex_init and INIT_DELAYED_WORK done, mutex_destroy not
  using,   \* users inside open .. release of the control device
  hot,     \* a notifier call is running
  slots,   \* slots in use
  works    \* slots whose boot timeout is pending or running

vars == <<pc, step, have, known, ready, using, hot, slots, works>>
outside == <<using, hot, slots, works>>

Init ==
  /\ pc = "unloaded" /\ step = 0 /\ have = {} /\ known = {} /\ ready = FALSE
  /\ using = {} /\ hot = FALSE /\ slots = {} /\ works = {}

----------------------------------------------------------------------------
(* Load.                                                                   *)

InitBegin ==
  /\ pc = "unloaded" /\ pc' = "init" /\ step' = 1
  /\ ready' = TRUE
  /\ UNCHANGED <<have, known, outside>>

This == InitOrder[step]

\* pcie_enumerate_existed_devs, the last step, finds cards that are there.
\* Without proc_root no slot can be initialised.
Found == IF "proc_root" \in known THEN SUBSET Slot ELSE {{}}

InitStep ==
  /\ pc = "init" /\ step <= Len(InitOrder)
  /\ \/ /\ have' = have \cup {This} /\ known' = known \cup {This}
        /\ step' = step + 1
        /\ UNCHANGED pc
     \/ /\ This = "proc_root"             \* a NULL proc_root is put up with
        /\ step' = step + 1
        /\ UNCHANGED <<pc, have, known>>
     \/ /\ This # "proc_root"
        /\ pc' = "undo" /\ step' = Len(InitOrder)
        /\ UNCHANGED <<have, known>>
  /\ UNCHANGED <<ready, outside>>

InitDone ==
  /\ pc = "init" /\ step > Len(InitOrder) /\ ~hot
  /\ \E found \in Found : slots' = slots \cup found
  /\ pc' = "live"
  /\ UNCHANGED <<step, have, known, ready, using, hot, works>>

\* Defect: in the order of the registrations.
UndoItem_Forward == InitOrder[Len(InitOrder) + 1 - step]

\* init_failed, and the tail of exit: from the last registration to the first.
UndoItem == InitOrder[step]

\* Defect: the error path has no branch for the class.
Undone_NotClass == known \ {"class"}

\* What there is a branch for, if its flag or pointer is set.
Undone == known

\* bus_unregister_notifier and exit itself wait for a notifier call.
Undo ==
  /\ pc \in {"undo", "exit"} /\ step > 0
  /\ UndoItem = "notifier" => ~hot
  /\ \/ /\ UndoItem \in Undone
        /\ have' = have \ {UndoItem} /\ known' = known \ {UndoItem}
     \/ UndoItem \notin Undone /\ UNCHANGED <<have, known>>
  /\ step' = step - 1
  /\ UNCHANGED <<pc, ready, outside>>

\* mutex_destroy, and the module is gone.
Gone ==
  /\ pc \in {"undo", "exit"} /\ step = 0
  /\ ready' = FALSE /\ pc' = "unloaded" /\ known' = {}
  /\ UNCHANGED <<step, have, outside>>

----------------------------------------------------------------------------
(* Unload.                                                                 *)

\* delete_module: nobody uses the module.  Then the notifier goes.
ExitBegin ==
  /\ pc = "live" /\ using = {} /\ ~hot
  /\ have' = have \ {"notifier"} /\ known' = known \ {"notifier"}
  /\ pc' = "cancel"
  /\ UNCHANGED <<step, ready, outside>>

\* Defect: cancel_delayed_work, which does not wait.
ExitCancelSync_NoSync ==
  /\ pc = "cancel" /\ pc' = "release"
  /\ UNCHANGED <<step, have, known, ready, outside>>

\* cancel_delayed_work_sync of every slot.
ExitCancelSync ==
  /\ pc = "cancel" /\ pc' = "release"
  /\ works' = {}
  /\ UNCHANGED <<step, have, known, ready, using, hot, slots>>

ExitRelease ==
  /\ pc = "release" /\ pc' = "exit" /\ step' = Len(InitOrder)
  /\ slots' = {}
  /\ UNCHANGED <<have, known, ready, using, hot, works>>

----------------------------------------------------------------------------
(* Meanwhile.                                                              *)

\* A file of the control device pins the module (fops.owner), but a module
\* whose init fails is freed all the same.
Open(u) ==
  /\ "cdev" \in have /\ u \notin using /\ pc \in {"init", "undo", "live"}
  /\ pc # "live" => "early_open" \in Env
  /\ using' = using \cup {u}
  /\ UNCHANGED <<pc, step, have, known, ready, hot, slots, works>>

Close(u) ==
  /\ u \in using
  /\ using' = using \ {u}
  /\ UNCHANGED <<pc, step, have, known, ready, hot, slots, works>>

\* A firmware ioctl schedules the timeout of a slot.
Boot(u, s) ==
  /\ u \in using /\ s \in slots
  /\ works' = works \cup {s}
  /\ UNCHANGED <<pc, step, have, known, ready, using, hot, slots>>

Timeout(s) ==
  /\ s \in works
  /\ works' = works \ {s}
  /\ UNCHANGED <<pc, step, have, known, ready, using, hot, slots>>

NotifyBegin ==
  /\ "notifier" \in have /\ ~hot /\ hot' = TRUE
  /\ UNCHANGED <<pc, step, have, known, ready, using, slots, works>>

\* A card has come, unless there is no proc_root, or has gone.
NotifyEnd ==
  /\ hot /\ hot' = FALSE
  /\ \/ UNCHANGED <<slots, works>>
     \/ \E s \in Slot \ slots :
          /\ "proc_root" \in known
          /\ slots' = slots \cup {s} /\ UNCHANGED works
     \/ \E s \in slots :
          /\ slots' = slots \ {s}
          /\ works' \in {works, works \ {s}}  \* a running work item is not cancelled
  /\ UNCHANGED <<pc, step, have, known, ready, using>>

Next ==
  \/ InitBegin \/ InitStep \/ InitDone \/ Undo \/ Gone
  \/ ExitBegin \/ ExitCancelSync \/ ExitRelease
  \/ NotifyBegin \/ NotifyEnd
  \/ \E u \in User : Open(u) \/ Close(u) \/ \E s \in Slot : Boot(u, s)
  \/ \E s \in Slot : Timeout(s)

Spec == Init /\ [][Next]_vars

----------------------------------------------------------------------------
\* A load that fails at any step, and an unload, leave nothing registered and
\* no slot behind, and undo nothing that was not there.
NothingLeft ==
  /\ known \subseteq have
  /\ pc = "unloaded" => have = {} /\ slots = {} /\ works = {}

\* At no moment of load, failed load or unload does a registration outlive one
\* it is built on, or a slot's directory the directory above it.
BuiltOn ==
  /\ \A i \in have : Needs[i] \subseteq have
  /\ slots # {} => "proc_root" \in have

\* Whoever can enter the driver, a user, a notification or a work item, finds
\* its mutex and work items initialised.
EntryReady == using # {} \/ hot \/ works # {} => ready

=============================================================================
