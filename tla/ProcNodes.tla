------------------------------ MODULE ProcNodes ------------------------------
(***************************************************************************)
(* The proc directory of one slot, node by node: pcie_init_slot with       *)
(* pcie_create_proc_nodes, which may fail at each node, pcie_release_dev,  *)
(* and users who open a node as soon as it is there.  AmbaPciPlatform      *)
(* takes a creation for one step; here is what happens inside it.          *)
(*                                                                         *)
(* A release is begun by a removal that a user asks for at the reboot node *)
(* or by any other; the boot that keeps its slot is in AmbaPciPlatform.    *)
(*                                                                         *)
(* procfs is external: a node that is being removed lets nobody in, and    *)
(* remove_proc_subtree goes on when nobody is left inside.                 *)
(***************************************************************************)
EXTENDS Integers, SequencesExt

CONSTANTS
  Thread,  \* users
  Opened,  \* the nodes they read or write
  NULL

\* In the order in which pcie_create_proc_nodes creates them.
NodeOrder == <<"status", "dev_info", "net", "dev_log", "reboot">>
Node == ToSet(NodeOrder)

\* The handlers that take g_pcie_drv.lock.
TakesLock == {"dev_info", "reboot"}

ASSUME ProcAssumption == Opened \subseteq Node /\ NULL \notin Thread \cup Node

VARIABLES
  pc,      \* where the hot-plug path is, "idle": the slot is not in use, "up": it is
  lock,    \* g_pcie_drv.lock: NULL, "driver" (the hot-plug path), or a user
  dir,     \* proc_mkdir has made the directory and e->proc_dir points to it
  nodes,   \* the nodes that users find
  dying,   \* nodes that are being removed and may still have users inside
  in_use,  \* e->in_use
  inside,  \* per user, the node whose handler it runs
  waits,   \* the users in mutex_lock
  removes  \* the user in pci_stop_and_remove_bus_device_locked

vars == <<pc, lock, dir, nodes, dying, in_use, inside, waits, removes>>

Init ==
  /\ pc = "idle" /\ lock = NULL /\ dir = FALSE /\ nodes = {} /\ dying = {}
  /\ in_use = FALSE /\ inside = [t \in Thread |-> NULL] /\ waits = {} /\ removes = {}

Driver(from, to) ==
  /\ pc = from /\ pc' = to
  /\ UNCHANGED <<inside, waits, removes>>

Unlock == lock' = NULL

----------------------------------------------------------------------------
(* Hot-plug: pcie_pci_bus_notify around pcie_init_slot, pcie_release_dev.  *)

AddBegin ==
  /\ Driver("idle", "mkdir")
  /\ lock = NULL /\ lock' = "driver"
  /\ UNCHANGED <<dir, nodes, dying, in_use>>

Mkdir ==
  \/ /\ Driver("mkdir", "create") /\ dir' = TRUE
     /\ UNCHANGED <<lock, nodes, dying, in_use>>
  \/ /\ Driver("mkdir", "idle") /\ Unlock
     /\ UNCHANGED <<dir, nodes, dying, in_use>>

\* The next node of NodeOrder, numbered from 1.
NextNode == CHOOSE i \in 1 .. Len(NodeOrder) :
  NodeOrder[i] \notin nodes /\ \A j \in 1 .. i - 1 : NodeOrder[j] \in nodes

\* Defect: a failure leaves the nodes made so far.
CreateFails_NoUndo ==
  /\ Driver("create", "idle") /\ Unlock
  /\ dir' = FALSE
  /\ UNCHANGED <<nodes, dying, in_use>>

\* err_flag: remove_proc_subtree begins.
CreateFails ==
  /\ Driver("create", "undo")
  /\ dying' = nodes /\ nodes' = {}
  /\ UNCHANGED <<lock, dir, in_use>>

\* proc_create_data of one node, or its failure.
CreateNode ==
  /\ nodes # Node
  /\ \/ /\ Driver("create", "create")
        /\ nodes' = nodes \cup {NodeOrder[NextNode]}
        /\ UNCHANGED <<lock, dir, dying, in_use>>
     \/ CreateFails

\* The rest of pcie_init_slot, and the unlock.
InitSlot ==
  /\ nodes = Node /\ Driver("create", "up") /\ Unlock
  /\ in_use' = TRUE
  /\ UNCHANGED <<dir, nodes, dying>>

\* Defect: the nodes are forgotten.
ReleaseBegin_KeepsNodes ==
  /\ Driver("up", "release")
  /\ lock = NULL /\ lock' = "driver"
  /\ UNCHANGED <<dir, nodes, dying, in_use>>

\* pcie_release_dev up to remove_proc_subtree.
ReleaseBegin ==
  /\ Driver("up", "release")
  /\ lock = NULL /\ lock' = "driver"
  /\ dying' = nodes /\ nodes' = {}
  /\ UNCHANGED <<dir, in_use>>

\* procfs: one node after the other goes, once its last user has left.
RemoveNode(n) ==
  /\ pc \in {"undo", "release"} /\ n \in dying
  /\ \A t \in Thread : inside[t] # n
  /\ dying' = dying \ {n}
  /\ UNCHANGED <<pc, lock, dir, nodes, in_use, inside, waits, removes>>

\* Defect: the error path of the creation returns with the lock held.
Removed_KeepsLock ==
  /\ pc \in {"undo", "release"} /\ dying = {}
  /\ Driver(pc, "idle")
  /\ lock' = IF pc = "undo" THEN lock ELSE NULL
  /\ dir' = FALSE /\ in_use' = FALSE
  /\ UNCHANGED <<nodes, dying>>

\* remove_proc_subtree has returned: the end of pcie_release_dev, or of the
\* error path of pcie_create_proc_nodes.
Removed ==
  /\ pc \in {"undo", "release"} /\ dying = {}
  /\ Driver(pc, "idle") /\ Unlock
  /\ dir' = FALSE /\ in_use' = FALSE
  /\ UNCHANGED <<nodes, dying>>

----------------------------------------------------------------------------
(* Users: pcie_proc_read_page, pcie_proc_dev_log_read, and                 *)
(* pcie_proc_reboot_write with pcie_reboot_write_entry.                    *)

UserStep == UNCHANGED <<pc, dir, nodes, dying, in_use>>

Enter(t, n) ==
  /\ inside[t] = NULL /\ n \in nodes
  /\ inside' = [inside EXCEPT ![t] = n]
  /\ UserStep /\ UNCHANGED <<lock, waits, removes>>

\* With its answer, or because there is no buffer, the slot is not in use or not
\* CONNECTED, or the call is not one the node takes; a holder of the lock drops
\* it.  Whoever removes the card does not get here: the removal waits for the
\* release, which waits for the handler, and so it does if another remover has
\* the rescan mutex.
Leave(t) ==
  /\ inside[t] # NULL /\ t \notin waits \cup removes
  /\ inside' = [inside EXCEPT ![t] = NULL]
  /\ lock' = IF lock = t THEN NULL ELSE lock
  /\ UserStep /\ UNCHANGED <<waits, removes>>

\* dev_info takes the lock whatever the slot, reboot only if it is in use.
WantLock(t) ==
  /\ inside[t] \in TakesLock /\ (inside[t] = "reboot" => in_use)
  /\ t \notin waits \cup removes /\ lock # t
  /\ waits' = waits \cup {t}
  /\ UserStep /\ UNCHANGED <<lock, inside, removes>>

GotLock(t) ==
  /\ t \in waits /\ lock = NULL
  /\ lock' = t /\ waits' = waits \ {t}
  /\ UserStep /\ UNCHANGED <<inside, removes>>

\* A write of 1 that finds the slot CONNECTED makes it REBOOTING, so that the next
\* one is refused, unlocks and removes the card.
RebootRemoves(t) ==
  /\ lock = t /\ inside[t] = "reboot" /\ removes = {}
  /\ removes' = {t} /\ Unlock
  /\ UserStep /\ UNCHANGED <<inside, waits>>

DriverNext ==
  \/ AddBegin \/ Mkdir \/ CreateNode \/ InitSlot \/ ReleaseBegin
  \/ Removed \/ \E n \in Node : RemoveNode(n)

Next ==
  \/ DriverNext
  \/ \E t \in Thread : Leave(t) \/ WantLock(t) \/ GotLock(t) \/ RebootRemoves(t)
  \/ \E t \in Thread, n \in Opened : Enter(t, n)

Spec == Init /\ [][Next]_vars

\* Threads run; a wait for a mutex ends when others keep releasing it; cards
\* and users need not come.
FairSpec ==
  /\ Spec
  /\ WF_vars(Mkdir) /\ WF_vars(CreateNode) /\ WF_vars(InitSlot) /\ WF_vars(Removed)
  /\ \A n \in Node : WF_vars(RemoveNode(n))
  /\ \A t \in Thread : WF_vars(Leave(t)) /\ SF_vars(GotLock(t))

----------------------------------------------------------------------------
\* A slot that is not in use has no trace of its directory left, even when
\* its creation failed half-way, so that the next card's proc_mkdir of the
\* same name succeeds; and a slot in use has all five nodes.
AllOrNothing ==
  /\ pc = "idle" => nodes = {} /\ dying = {} /\ ~dir /\ ~in_use
  /\ pc = "up" => nodes = Node /\ dir /\ in_use

\* Nobody runs a handler of a slot whose directory is gone: what the handler
\* reads through PDE_DATA is not reset under it.
NoneInsideReleased ==
  ~dir => \A t \in Thread : inside[t] = NULL

\* The wait inside remove_proc_subtree, with the lock held, ends, so that no
\* creation that fails and no release blocks hot-plug and the ioctls for ever.
\* The code does not keep this: see OnlyWaitersBlock.
LockComesFree == lock = "driver" ~> lock # "driver"

\* A user inside a node that is being removed who waits for the driver lock, or
\* for the removal of the card that it has asked for.
WaitsInDying(t) == t \in waits \cup removes /\ inside[t] \in dying

\* Nothing but such a user keeps the hot-plug path from giving the lock back:
\* no other handler, no failure of the creation at whichever node.
OnlyWaitersBlock ==
  lock = "driver" ~> lock # "driver" \/ \E t \in Thread : WaitsInDying(t)

=============================================================================
