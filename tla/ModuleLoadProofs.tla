-------------------------- MODULE ModuleLoadProofs --------------------------
(***************************************************************************)
(* NothingLeft and BuiltOn for every set of users and slots, whoever opens *)
(* the device when; EntryReady if nobody opens it before init has          *)
(* returned.                                                               *)
(*                                                                         *)
(* The inductive invariant: at each stage of init, of its error path and   *)
(* of exit, which registrations there are (Chain), and who may be at work  *)
(* on slots (Activity): whatever fills a slot goes through the notifier,   *)
(* which is the last to come and the first to go.                          *)
(***************************************************************************)
EXTENDS ModuleLoad, TLAPS

LEMMA SixItems ==
  /\ Len(InitOrder) = 6
  /\ InitOrder[1] = "chrdev" /\ InitOrder[2] = "class" /\ InitOrder[3] = "cdev"
  /\ InitOrder[4] = "ctrl_dev" /\ InitOrder[5] = "proc_root" /\ InitOrder[6] = "notifier"
  /\ Item = {"chrdev", "class", "cdev", "ctrl_dev", "proc_root", "notifier"}
<1>1. /\ Len(InitOrder) = 6
      /\ InitOrder[1] = "chrdev" /\ InitOrder[2] = "class" /\ InitOrder[3] = "cdev"
      /\ InitOrder[4] = "ctrl_dev" /\ InitOrder[5] = "proc_root" /\ InitOrder[6] = "notifier"
  BY DEF InitOrder
<1>2. Item = {InitOrder[i] : i \in 1 .. 6}
  BY <1>1 DEF Item, ToSet, InitOrder
<1>3. 1 .. 6 = {1, 2, 3, 4, 5, 6}
  OBVIOUS
<1> QED
  BY <1>1, <1>2, <1>3

LEMMA NeedsIs ==
  /\ Needs["cdev"] = {"chrdev"}
  /\ Needs["ctrl_dev"] = {"chrdev", "class", "cdev"}
  /\ \A i \in {"chrdev", "class", "proc_root", "notifier"} : Needs[i] = {}
  BY SixItems DEF Needs

\* What is registered at each stage, and that nothing outlives its base.
Chain ==
  /\ pc \in {"unloaded", "init", "undo", "live", "cancel", "release", "exit"}
  /\ step \in 0 .. 7 /\ have \subseteq Item /\ known = have
  /\ pc = "unloaded" => have = {}
  /\ pc = "init" =>
       /\ 1 <= step
       /\ \A j \in 1 .. 6 : InitOrder[j] \in have => j < step
       /\ \A j \in 1 .. 6 : j < step /\ InitOrder[j] # "proc_root" => InitOrder[j] \in have
  /\ pc \in {"undo", "exit"} =>
       /\ step <= 6
       /\ \A j \in 1 .. 6 : InitOrder[j] \in have => j <= step
  /\ \A i \in have : Needs[i] \subseteq have

\* Who is at work: slots are filled by notifications and by the scan at the end
\* of init, timeouts are scheduled by users.
Activity ==
  /\ hot => "notifier" \in have
  /\ pc \in {"undo", "cancel", "release", "exit"} => "notifier" \notin have
  /\ pc \in {"unloaded", "init", "undo", "exit"} /\ "notifier" \notin have =>
       slots = {} /\ works = {}
  /\ pc = "release" => works = {}
  /\ pc \in {"cancel", "release", "exit"} => using = {}
  /\ slots # {} => "proc_root" \in have
  /\ pc # "unloaded" => ready

LoadInv == Chain /\ Activity

LEMMA InitInv == Init => LoadInv
  BY DEF Init, LoadInv, Chain, Activity

\* A registration that succeeds has all that it needs in front of it.
LEMMA RegisterInv ==
  ASSUME LoadInv, InitStep, have' = have \cup {This}
  PROVE  \A i \in have' : Needs[i] \subseteq have'
<1>1. step \in 1 .. 6 /\ pc = "init"
  BY SixItems DEF InitStep, LoadInv, Chain
<1>2. \A j \in 1 .. 4 : j < step => InitOrder[j] \in have
  BY <1>1, SixItems DEF LoadInv, Chain
<1>3. \A i \in have : Needs[i] \subseteq have
  BY DEF LoadInv, Chain
<1>4. Needs[This] \subseteq have
  <2>1. CASE step = 3
    BY <1>2, <2>1, SixItems, NeedsIs DEF This
  <2>2. CASE step = 4
    BY <1>2, <2>2, SixItems, NeedsIs DEF This
  <2>3. CASE step \in {1, 2, 5, 6}
    BY <2>3, SixItems, NeedsIs DEF This
  <2> QED
    BY <1>1, <2>1, <2>2, <2>3
<1> QED
  BY <1>3, <1>4

\* Going backwards, what is left needs nothing that goes.
LEMMA UnregisterInv ==
  ASSUME LoadInv, Undo
  PROVE  \A i \in have' : Needs[i] \subseteq have'
<1>1. step \in 1 .. 6 /\ \A j \in 1 .. 6 : InitOrder[j] \in have => j <= step
  BY DEF Undo, LoadInv, Chain
<1>2. have \subseteq Item /\ \A i \in have : Needs[i] \subseteq have
  BY DEF LoadInv, Chain
<1>3. have' = have \/ have' = have \ {InitOrder[step]}
  BY DEF Undo, UndoItem
<1>4. \A i \in have : InitOrder[step] \notin Needs[i]
  <2> SUFFICES ASSUME NEW i \in have, InitOrder[step] \in Needs[i]
               PROVE  FALSE
    OBVIOUS
  <2>1. CASE i = "cdev"
    BY <1>1, <2>1, SixItems, NeedsIs
  <2>2. CASE i = "ctrl_dev"
    BY <1>1, <2>2, SixItems, NeedsIs
  <2>3. CASE i \in {"chrdev", "class", "proc_root", "notifier"}
    BY <2>3, NeedsIs
  <2> QED
    BY <1>2, <2>1, <2>2, <2>3, SixItems
<1> QED
  BY <1>2, <1>3, <1>4

LEMMA BeginInv ==
  ASSUME LoadInv, InitBegin
  PROVE  LoadInv'
<1>1. /\ pc = "unloaded" /\ pc' = "init" /\ step' = 1 /\ ready' = TRUE
      /\ have' = {} /\ known' = {} /\ UNCHANGED <<using, hot, slots, works>>
  BY DEF InitBegin, outside, LoadInv, Chain
<1>2. Chain'
  BY <1>1 DEF Chain
<1>3. Activity'
  BY <1>1 DEF LoadInv, Chain, Activity
<1> QED
  BY <1>2, <1>3 DEF LoadInv

LEMMA StepInv ==
  ASSUME LoadInv, InitStep
  PROVE  LoadInv'
<1>1. /\ pc = "init" /\ step \in 1 .. 6 /\ This \in Item
      /\ UNCHANGED <<ready, using, hot, slots, works>>
  BY SixItems DEF InitStep, LoadInv, Chain, outside, This
<1>2. CASE have' = have \cup {This} /\ known' = known \cup {This} /\ step' = step + 1 /\ pc' = pc
  <2>1. \A j \in 1 .. 6 : InitOrder[j] \in have' => j < step'
    <3>1. \A j \in 1 .. 6 : InitOrder[j] = InitOrder[step] => j = step
      BY <1>1, SixItems
    <3> QED
      BY <1>1, <1>2, <3>1 DEF LoadInv, Chain, This
  <2>2. \A j \in 1 .. 6 : j < step' /\ InitOrder[j] # "proc_root" => InitOrder[j] \in have'
    BY <1>1, <1>2 DEF LoadInv, Chain, This
  <2>3. Chain'
    BY <1>1, <1>2, <2>1, <2>2, RegisterInv DEF LoadInv, Chain
  <2>4. Activity'
    BY <1>1, <1>2 DEF LoadInv, Chain, Activity
  <2> QED
    BY <2>3, <2>4 DEF LoadInv
<1>3. CASE This = "proc_root" /\ step' = step + 1 /\ UNCHANGED <<pc, have, known>>
  <2>1. Chain'
    BY <1>1, <1>3 DEF LoadInv, Chain, This
  <2>2. Activity'
    BY <1>1, <1>3 DEF LoadInv, Activity
  <2> QED
    BY <2>1, <2>2 DEF LoadInv
<1>4. CASE pc' = "undo" /\ step' = Len(InitOrder) /\ UNCHANGED <<have, known>>
  <2>1. "notifier" \notin have
    BY <1>1, SixItems DEF LoadInv, Chain
  <2>2. Chain'
    BY <1>1, <1>4, SixItems DEF LoadInv, Chain
  <2>3. Activity'
    BY <1>1, <1>4, <2>1 DEF LoadInv, Activity
  <2> QED
    BY <2>2, <2>3 DEF LoadInv
<1> QED
  BY <1>2, <1>3, <1>4 DEF InitStep

LEMMA DoneInv ==
  ASSUME LoadInv, InitDone
  PROVE  LoadInv'
<1>1. /\ pc = "init" /\ pc' = "live" /\ UNCHANGED <<step, have, known, ready, using, hot, works>>
      /\ "proc_root" \notin known => slots' = slots
  BY DEF InitDone, Found
<1>2. Chain'
  BY <1>1 DEF LoadInv, Chain
<1>3. Activity'
  BY <1>1 DEF LoadInv, Chain, Activity
<1> QED
  BY <1>2, <1>3 DEF LoadInv

LEMMA UndoInv ==
  ASSUME LoadInv, Undo
  PROVE  LoadInv'
<1>1. /\ pc \in {"undo", "exit"} /\ pc' = pc /\ step \in 1 .. 6 /\ step' = step - 1
      /\ UNCHANGED <<ready, using, hot, slots, works>>
  BY DEF Undo, LoadInv, Chain, outside
<1>2. known = have /\ known' = have' /\ have' = have \ {InitOrder[step]}
  BY DEF Undo, UndoItem, Undone, LoadInv, Chain
<1>3. \A j \in 1 .. 6 : InitOrder[j] \in have' => j <= step'
  BY <1>1, <1>2 DEF LoadInv, Chain
<1>4. Chain'
  BY <1>1, <1>2, <1>3, UnregisterInv DEF LoadInv, Chain
<1>5. Activity'
  BY <1>1, <1>2 DEF LoadInv, Activity
<1> QED
  BY <1>4, <1>5 DEF LoadInv

LEMMA GoneInv ==
  ASSUME LoadInv, Gone
  PROVE  LoadInv'
<1>1. /\ pc \in {"undo", "exit"} /\ step = 0 /\ pc' = "unloaded" /\ known' = {}
      /\ UNCHANGED <<step, have, using, hot, slots, works>>
  BY DEF Gone, outside
<1>2. have = {}
  <2>1. \A j \in 1 .. 6 : InitOrder[j] \notin have
    BY <1>1 DEF LoadInv, Chain
  <2> QED
    BY <2>1, SixItems DEF LoadInv, Chain
<1>3. Chain'
  BY <1>1, <1>2 DEF LoadInv, Chain
<1>4. Activity'
  BY <1>1, <1>2 DEF LoadInv, Activity
<1> QED
  BY <1>3, <1>4 DEF LoadInv

\* Unload.
LEMMA ExitInv ==
  ASSUME LoadInv, ExitBegin \/ ExitCancelSync \/ ExitRelease
  PROVE  LoadInv'
<1>1. CASE ExitBegin
  <2>1. /\ pc = "live" /\ pc' = "cancel" /\ using = {} /\ ~hot
        /\ have' = have \ {"notifier"} /\ known' = known \ {"notifier"}
        /\ UNCHANGED <<step, ready, using, hot, slots, works>>
    BY <1>1 DEF ExitBegin, outside
  <2>2. \A i \in have : "notifier" \notin Needs[i]
    BY SixItems, NeedsIs DEF LoadInv, Chain
  <2>3. Chain'
    BY <2>1, <2>2 DEF LoadInv, Chain
  <2>4. Activity'
    BY <2>1 DEF LoadInv, Activity
  <2> QED
    BY <2>3, <2>4 DEF LoadInv
<1>2. CASE ExitCancelSync
  BY <1>2 DEF ExitCancelSync, LoadInv, Chain, Activity
<1>3. CASE ExitRelease
  <2>1. /\ pc = "release" /\ pc' = "exit" /\ step' = 6 /\ slots' = {}
        /\ UNCHANGED <<have, known, ready, using, hot, works>>
    BY <1>3, SixItems DEF ExitRelease
  <2>2. Chain'
    BY <2>1 DEF LoadInv, Chain
  <2>3. Activity'
    BY <2>1 DEF LoadInv, Activity
  <2> QED
    BY <2>2, <2>3 DEF LoadInv
<1> QED
  BY <1>1, <1>2, <1>3

\* Users, notifications and work items.
LEMMA OutsideInv ==
  ASSUME LoadInv,
         \/ NotifyBegin \/ NotifyEnd
         \/ \E u \in User : Open(u) \/ Close(u) \/ \E s \in Slot : Boot(u, s)
         \/ \E s \in Slot : Timeout(s)
  PROVE  LoadInv'
<1>1. UNCHANGED <<pc, step, have, known, ready>>
  BY DEF NotifyBegin, NotifyEnd, Open, Close, Boot, Timeout
<1>2. Chain'
  BY <1>1 DEF LoadInv, Chain
<1>3. ASSUME NotifyBegin PROVE Activity'
  BY <1>3 DEF NotifyBegin, LoadInv, Activity
<1>4. ASSUME NotifyEnd PROVE Activity'
  BY <1>1, <1>4 DEF NotifyEnd, LoadInv, Chain, Activity
<1>5. ASSUME NEW u \in User, Open(u) \/ Close(u)
      PROVE  Activity'
  BY <1>5 DEF Open, Close, LoadInv, Activity
<1>6. ASSUME NEW u \in User, NEW s \in Slot, Boot(u, s)
      PROVE  Activity'
  BY <1>6 DEF Boot, LoadInv, Activity
<1>7. ASSUME NEW s \in Slot, Timeout(s)
      PROVE  Activity'
  BY <1>7 DEF Timeout, LoadInv, Activity
<1>8. Activity'
  BY <1>3, <1>4, <1>5, <1>6, <1>7 DEF LoadInv
<1> QED
  BY <1>2, <1>8 DEF LoadInv

LEMMA NextInv == LoadInv /\ [Next]_vars => LoadInv'
<1> SUFFICES ASSUME LoadInv, [Next]_vars PROVE LoadInv'
  OBVIOUS
<1>1. CASE InitBegin \/ InitStep \/ InitDone \/ Undo \/ Gone
  BY <1>1, BeginInv, StepInv, DoneInv, UndoInv, GoneInv
<1>2. CASE ExitBegin \/ ExitCancelSync \/ ExitRelease
  BY <1>2, ExitInv
<1>3. CASE UNCHANGED vars
  BY <1>3 DEF vars, LoadInv, Chain, Activity
<1> QED
  BY <1>1, <1>2, <1>3, OutsideInv DEF Next

LEMMA LoadInvariant == Spec => []LoadInv
<1> QED
  BY InitInv, NextInv, PTL DEF Spec

\* Whichever registration fails, and after every unload, nothing is registered
\* and no slot or timeout is left, and the flags of init never claim what has
\* not been registered; even when users are inside the device all the while.
THEOREM LoadNothingLeft == Spec => []NothingLeft
<1>1. LoadInv => NothingLeft
  BY DEF LoadInv, Chain, Activity, NothingLeft
<1> QED
  BY <1>1, LoadInvariant, PTL

\* The order of init, of its error path and of exit keeps everything that is
\* registered on its base, and proc_root above every slot's directory.
THEOREM LoadBuiltOn == Spec => []BuiltOn
<1>1. LoadInv => BuiltOn
  BY DEF LoadInv, Chain, Activity, BuiltOn
<1> QED
  BY <1>1, LoadInvariant, PTL

(***************************************************************************)
(* Entry.  Opening during init is the one way in before the module is      *)
(* live; without it users come and go in a live module only.               *)
(***************************************************************************)
UsersInLive == pc \in {"unloaded", "init", "undo"} => using = {}

LEMMA NextUsers ==
  ASSUME Env = {}, LoadInv, UsersInLive, [Next]_vars
  PROVE  UsersInLive'
<1>1. CASE InitBegin \/ InitStep \/ InitDone \/ Undo \/ Gone
  BY <1>1 DEF InitBegin, InitStep, InitDone, Undo, Gone, outside, UsersInLive, LoadInv, Activity
<1>2. CASE ExitBegin \/ ExitCancelSync \/ ExitRelease
  BY <1>2 DEF ExitBegin, ExitCancelSync, ExitRelease, outside, UsersInLive
<1>3. CASE NotifyBegin \/ NotifyEnd
  BY <1>3 DEF NotifyBegin, NotifyEnd, UsersInLive
<1>4. ASSUME NEW u \in User, Open(u) \/ Close(u)
      PROVE  UsersInLive'
  BY <1>4 DEF Open, Close, UsersInLive
<1>5. ASSUME NEW u \in User, NEW s \in Slot, Boot(u, s)
      PROVE  UsersInLive'
  BY <1>5 DEF Boot, UsersInLive
<1>6. ASSUME NEW s \in Slot, Timeout(s)
      PROVE  UsersInLive'
  BY <1>6 DEF Timeout, UsersInLive
<1>7. CASE UNCHANGED vars
  BY <1>7 DEF vars, UsersInLive
<1> QED
  BY <1>1, <1>2, <1>3, <1>4, <1>5, <1>6, <1>7 DEF Next

\* If nobody opens the device before init has returned, whoever is in the
\* driver, through the device, the notifier or a work item, finds the mutex
\* initialised and not yet destroyed.
THEOREM LoadEntryReady ==
  ASSUME Env = {}
  PROVE  Spec => []EntryReady
<1>1. Init => UsersInLive
  BY DEF Init, UsersInLive
<1>2. LoadInv /\ UsersInLive /\ [Next]_vars => UsersInLive'
  BY NextUsers
<1>3. LoadInv /\ UsersInLive => EntryReady
  BY DEF LoadInv, Chain, Activity, UsersInLive, EntryReady
<1> QED
  BY <1>1, <1>2, <1>3, LoadInvariant, PTL DEF Spec
=============================================================================
