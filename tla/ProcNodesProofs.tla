--------------------------- MODULE ProcNodesProofs ---------------------------
(***************************************************************************)
(* AllOrNothing and NoneInsideReleased for every set of users and whatever *)
(* nodes they open.                                                        *)
(*                                                                         *)
(* The inductive invariant says what the hot-plug path has made at each of *)
(* its stages, and that whoever runs a handler runs one of a node that is  *)
(* there or on its way out: remove_proc_subtree gets rid of a node only    *)
(* when nobody is in it, and until it returns the directory stays.         *)
(***************************************************************************)
EXTENDS ProcNodes, TLAPS

\* Stage by stage, what there is of the directory.
Stages ==
  /\ pc \in {"idle", "mkdir", "create", "up", "undo", "release"}
  /\ pc \in {"idle", "mkdir"} => nodes = {} /\ dying = {} /\ ~dir /\ ~in_use
  /\ pc = "create" => dying = {} /\ dir
  /\ pc = "up" => nodes = Node /\ dying = {} /\ dir /\ in_use
  /\ pc \in {"undo", "release"} => nodes = {} /\ dir

\* Users are inside of nodes that are there.
InsideNodes ==
  /\ nodes \subseteq Node /\ dying \subseteq Node
  /\ inside \in [Thread -> Node \cup {NULL}]
  /\ \A t \in Thread : inside[t] # NULL => inside[t] \in nodes \cup dying

ProcInv == Stages /\ InsideNodes

LEMMA FiveNodes ==
  /\ Len(NodeOrder) = 5
  /\ NodeOrder[1] = "status" /\ NodeOrder[2] = "dev_info" /\ NodeOrder[3] = "net"
  /\ NodeOrder[4] = "dev_log" /\ NodeOrder[5] = "reboot"
  /\ Node = {"status", "dev_info", "net", "dev_log", "reboot"}
<1>1. /\ Len(NodeOrder) = 5
      /\ NodeOrder[1] = "status" /\ NodeOrder[2] = "dev_info" /\ NodeOrder[3] = "net"
      /\ NodeOrder[4] = "dev_log" /\ NodeOrder[5] = "reboot"
  BY DEF NodeOrder
<1>2. Node = {NodeOrder[i] : i \in 1 .. 5}
  BY <1>1 DEF Node, ToSet, NodeOrder
<1>3. 1 .. 5 = {1, 2, 3, 4, 5}
  OBVIOUS
<1> QED
  BY <1>1, <1>2, <1>3

\* A node that is missing has a first one that is.
LEMMA NextNodeIsNode ==
  ASSUME nodes \subseteq Node, nodes # Node
  PROVE  NodeOrder[NextNode] \in Node
<1> DEFINE First(i) == NodeOrder[i] \notin nodes /\ \A j \in 1 .. i - 1 : NodeOrder[j] \in nodes
<1>1. \E i \in 1 .. Len(NodeOrder) : First(i)
  <2>1. CASE NodeOrder[1] \notin nodes
    <3>1. First(1)
      BY <2>1
    <3> QED
      BY <3>1, FiveNodes
  <2>2. CASE NodeOrder[1] \in nodes /\ NodeOrder[2] \notin nodes
    <3>1. 1 .. 2 - 1 = {1}
      OBVIOUS
    <3>2. First(2)
      BY <2>2, <3>1
    <3> QED
      BY <3>2, FiveNodes
  <2>3. CASE NodeOrder[1] \in nodes /\ NodeOrder[2] \in nodes /\ NodeOrder[3] \notin nodes
    <3>1. 1 .. 3 - 1 = {1, 2}
      OBVIOUS
    <3>2. First(3)
      BY <2>3, <3>1
    <3> QED
      BY <3>2, FiveNodes
  <2>4. CASE /\ NodeOrder[1] \in nodes /\ NodeOrder[2] \in nodes /\ NodeOrder[3] \in nodes
             /\ NodeOrder[4] \notin nodes
    <3>1. 1 .. 4 - 1 = {1, 2, 3}
      OBVIOUS
    <3>2. First(4)
      BY <2>4, <3>1
    <3> QED
      BY <3>2, FiveNodes
  <2>5. CASE /\ NodeOrder[1] \in nodes /\ NodeOrder[2] \in nodes /\ NodeOrder[3] \in nodes
             /\ NodeOrder[4] \in nodes /\ NodeOrder[5] \notin nodes
    <3>1. 1 .. 5 - 1 = {1, 2, 3, 4}
      OBVIOUS
    <3>2. First(5)
      BY <2>5, <3>1
    <3> QED
      BY <3>2, FiveNodes
  <2> QED
    BY <2>1, <2>2, <2>3, <2>4, <2>5, FiveNodes
<1>2. NextNode \in 1 .. Len(NodeOrder)
  BY <1>1 DEF NextNode
<1>3. NextNode \in {1, 2, 3, 4, 5}
  BY <1>2, FiveNodes
<1> QED
  BY <1>3, FiveNodes

LEMMA InitProc == Init => ProcInv
  BY DEF Init, ProcInv, Stages, InsideNodes

\* The hot-plug path goes from stage to stage.
LEMMA DriverKeeps ==
  ASSUME ProcInv, DriverNext
  PROVE  ProcInv'
<1> USE DEF ProcInv, Stages, InsideNodes, Driver
<1>1. CASE AddBegin
  BY <1>1 DEF AddBegin
<1>2. CASE Mkdir
  BY <1>2 DEF Mkdir
<1>3. CASE CreateNode
  <2>1. NodeOrder[NextNode] \in Node
    BY <1>3, NextNodeIsNode DEF CreateNode
  <2>2. CASE /\ Driver("create", "create")
             /\ nodes' = nodes \cup {NodeOrder[NextNode]}
             /\ UNCHANGED <<lock, dir, dying, in_use>>
    BY <2>1, <2>2
  <2>3. CASE CreateFails
    BY <2>3 DEF CreateFails
  <2> QED
    BY <1>3, <2>2, <2>3 DEF CreateNode
<1>4. CASE InitSlot
  BY <1>4 DEF InitSlot
<1>5. CASE ReleaseBegin
  BY <1>5 DEF ReleaseBegin
<1>6. CASE Removed
  BY <1>6 DEF Removed
<1>7. CASE \E n \in Node : RemoveNode(n)
  BY <1>7 DEF RemoveNode
<1> QED
  BY <1>1, <1>2, <1>3, <1>4, <1>5, <1>6, <1>7 DEF DriverNext

\* Users come in by a node that is there.
LEMMA UserKeeps ==
  ASSUME ProcInv, NEW t \in Thread,
         \/ Leave(t) \/ WantLock(t) \/ GotLock(t) \/ RebootRemoves(t) \/ \E n \in Opened : Enter(t, n)
  PROVE  ProcInv'
<1>1. UNCHANGED <<pc, dir, nodes, dying, in_use>>
  BY DEF Leave, WantLock, GotLock, RebootRemoves, Enter, UserStep
<1>2. Stages'
  BY <1>1 DEF ProcInv, Stages
<1>3. \/ inside' = inside
      \/ inside' = [inside EXCEPT ![t] = NULL]
      \/ \E n \in nodes : inside' = [inside EXCEPT ![t] = n]
  BY DEF Leave, WantLock, GotLock, RebootRemoves, Enter
<1>4. InsideNodes'
  BY <1>1, <1>3 DEF ProcInv, InsideNodes
<1> QED
  BY <1>2, <1>4 DEF ProcInv

LEMMA NextProc == ProcInv /\ [Next]_vars => ProcInv'
<1> SUFFICES ASSUME ProcInv, [Next]_vars PROVE ProcInv'
  OBVIOUS
<1>1. CASE DriverNext
  BY <1>1, DriverKeeps
<1>2. CASE \E t \in Thread : Leave(t) \/ WantLock(t) \/ GotLock(t) \/ RebootRemoves(t)
  BY <1>2, UserKeeps
<1>3. CASE \E t \in Thread, n \in Opened : Enter(t, n)
  BY <1>3, UserKeeps
<1>4. CASE UNCHANGED vars
  BY <1>4 DEF vars, ProcInv, Stages, InsideNodes
<1> QED
  BY <1>1, <1>2, <1>3, <1>4 DEF Next

LEMMA ProcInvariant == Spec => []ProcInv
<1> QED
  BY InitProc, NextProc, PTL DEF Spec

\* A slot is either in use with all five nodes or has no trace of a directory,
\* at whichever node its creation failed.
THEOREM ProcAllOrNothing == Spec => []AllOrNothing
<1>1. ProcInv => AllOrNothing
  BY DEF ProcInv, Stages, AllOrNothing
<1> QED
  BY <1>1, ProcInvariant, PTL

\* e->proc_dir is reset, and the slot given to the next card, only when the
\* last reader and writer of the old card's nodes has left.
THEOREM ProcNoneInside == Spec => []NoneInsideReleased
<1>1. ProcInv => NoneInsideReleased
  BY DEF ProcInv, Stages, InsideNodes, NoneInsideReleased
<1> QED
  BY <1>1, ProcInvariant, PTL
=============================================================================
