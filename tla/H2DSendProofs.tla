---------------------------- MODULE H2DSendProofs ----------------------------
(***************************************************************************)
(* The H2D ioctls for any number of calls, slots and cards, any chunk size *)
(* and any file and buffer length.                                         *)
(*                                                                         *)
(* What a call holds is a function of where it is in the ladder (Ladder);  *)
(* how far it has come and where its next chunk goes are one number        *)
(* (Position); and what it has put where follows from that number as long  *)
(* as the card is the one that the slot check has seen (Placed).           *)
(***************************************************************************)
EXTENDS H2DSend, FiniteSetTheorems, TLAPS

Before == {"check", "get", "open", "alloc"}
After  == {"free", "close", "put", "done"}
PC     == Before \cup {"read", "xfer"} \cup After

Unit == [card : 0 .. MaxCards, unit : 0 .. MaxLen]

HeldAt(op, pc) ==
  (IF pc \in {"open", "alloc", "read", "xfer", "free", "close", "put"} THEN {"sym"} ELSE {})
  \cup (IF op = "file" /\ pc \in {"alloc", "read", "xfer", "free", "close"}
        THEN {"file"} ELSE {})
  \cup (IF pc \in {"read", "xfer", "free"} THEN {"kbuf"} ELSE {})

Ladder(c) ==
  /\ c.held = HeldAt(c.op, c.pc)
  /\ c.op = "buffer" => c.pc \notin {"open", "close"}

Position(c) ==
  /\ c.base + c.size <= AddrMod /\ c.pos <= c.size
  /\ c.pc \in Before => c.pos = 0
  /\ c.pc \in Before \cup {"read"} => c.ep_addr = (c.base + c.pos) % AddrMod
  /\ c.pc = "xfer" => /\ c.kbuf.n >= 1 /\ c.kbuf.first + c.kbuf.n = c.pos
                      /\ c.ep_addr = (c.base + c.kbuf.first) % AddrMod
  /\ c.pc \in After /\ c.ret = "ok" => c.pos = c.size

\* How much has been transferred.
DoneUnits(c) == IF c.pc = "xfer" THEN c.kbuf.first ELSE c.pos

\* s is what the call has put where, n the number of the card now in its slot.
Placed(c, s, n) ==
  /\ c.on <= n
  /\ c.pc \in Before => \A a \in Addr : s[a] = NULL
  /\ \A a \in Addr : a < c.base => s[a] = NULL
  /\ c.ret = "ok" /\ n = c.on =>
       \A a \in Addr : s[a] = IF a - c.base \in 0 .. DoneUnits(c) - 1
                              THEN [card |-> c.on, unit |-> a - c.base] ELSE NULL

Good(c, s, n) == Ladder(c) /\ Position(c) /\ Placed(c, s, n)

Calls ==
  /\ th \in [Thread -> Call \cup {Idle}]
  /\ sent \in [Thread -> [Addr -> {NULL} \cup Unit]]
  /\ card \in [Slot -> 0 .. MaxCards]
  /\ \A t \in Thread : Busy(t) => Good(th[t], sent[t], card[th[t].slot])

\* The calls that have the symbol, and that the module stays loaded for.
Holders == {t \in Thread : Busy(t) /\ "sym" \in th[t].held}

References ==
  /\ turbo \in BOOLEAN
  /\ turbo_refs = Cardinality(Holders)
  /\ Holders # {} => turbo

World ==
  /\ status \in [Slot -> Life!Status] /\ function \in [Slot -> Life!Function]
  /\ listening \in BOOLEAN

H2DInv == World /\ Calls /\ References

LEMMA Sizes ==
  /\ AddrMod \in Nat \ {0} /\ ChunkMax \in Nat \ {0} /\ MaxLen \in Nat /\ MaxCards \in Nat
  /\ Addr = 0 .. AddrMod - 1 /\ 0 \in Addr
  BY H2DAssumption DEF Addr

\* Idle is no call.
LEMMA CallsAreBusy ==
  ASSUME NEW c \in Call
  PROVE  /\ c # Idle
         /\ c.op \in {"file", "buffer"} /\ c.slot \in Slot /\ c.base \in Addr
         /\ c.size \in 0 .. MaxLen /\ c.pc \in PC /\ c.held \in SUBSET {"sym", "file", "kbuf"}
         /\ c.ret \in {"ok", "error"} /\ c.pos \in 0 .. MaxLen /\ c.ep_addr \in Addr
         /\ c.kbuf \in [first : 0 .. MaxLen, n : 0 .. MaxLen]
         /\ c.kbuf.first \in 0 .. MaxLen /\ c.kbuf.n \in 0 .. MaxLen
         /\ c.on \in 0 .. MaxCards
<1>1. /\ c.op \in {"file", "buffer"} /\ c.slot \in Slot /\ c.base \in Addr
      /\ c.size \in 0 .. MaxLen /\ c.pc \in PC /\ c.held \in SUBSET {"sym", "file", "kbuf"}
      /\ c.ret \in {"ok", "error"} /\ c.pos \in 0 .. MaxLen /\ c.ep_addr \in Addr
      /\ c.kbuf \in [first : 0 .. MaxLen, n : 0 .. MaxLen]
      /\ c.on \in 0 .. MaxCards
  BY DEF Call, PC, Before, After
<1>2. c # Idle
  BY <1>1 DEF Idle
<1> QED
  BY <1>1, <1>2

\* A step of one call leaves the others as they are.
LEMMA OneCall ==
  ASSUME Calls, NEW t \in Thread, NEW x \in Call \cup {Idle},
         NEW y \in [Addr -> {NULL} \cup Unit],
         th' = [th EXCEPT ![t] = x], sent' = [sent EXCEPT ![t] = y], card' = card,
         x # Idle => Good(x, y, card[x.slot])
  PROVE  Calls'
<1>1. /\ th' \in [Thread -> Call \cup {Idle}]
      /\ sent' \in [Thread -> [Addr -> {NULL} \cup Unit]]
      /\ card' \in [Slot -> 0 .. MaxCards]
  BY DEF Calls
<1>2. ASSUME NEW u \in Thread, Busy(u)'
      PROVE  Good(th'[u], sent'[u], card'[th'[u].slot])
  <2>1. CASE u = t
    <3>1. th'[u] = x /\ sent'[u] = y
      BY <2>1 DEF Calls
    <3>2. x # Idle
      BY <1>2, <3>1 DEF Busy
    <3> QED
      BY <3>1, <3>2
  <2>2. CASE u # t
    <3>1. th'[u] = th[u] /\ sent'[u] = sent[u]
      BY <2>2 DEF Calls
    <3>2. Busy(u)
      BY <1>2, <3>1 DEF Busy
    <3>3. Good(th[u], sent[u], card[th[u].slot])
      BY <3>2 DEF Calls
    <3> QED
      BY <3>1, <3>3
  <2> QED
    BY <2>1, <2>2
<1> QED
  BY <1>1, <1>2 DEF Calls

\* Who is at a step is a call, and what is known of it.
LEMMA AtCall ==
  ASSUME Calls, NEW t \in Thread, NEW pc, At(t, pc)
  PROVE  /\ th[t] \in Call /\ th[t].pc = pc /\ Busy(t)
         /\ sent[t] \in [Addr -> {NULL} \cup Unit]
         /\ Good(th[t], sent[t], card[th[t].slot])
         /\ card[th[t].slot] \in 0 .. MaxCards
<1>1. Busy(t) /\ th[t].pc = pc
  BY DEF At
<1>2. th[t] \in Call
  BY <1>1 DEF Busy, Calls
<1>3. th[t].slot \in Slot
  BY <1>2, CallsAreBusy
<1> QED
  BY <1>1, <1>2, <1>3 DEF Calls

\* Who holds the symbol after a step of t.
LEMMA HoldersAfter ==
  ASSUME Calls, NEW t \in Thread, NEW x \in Call \cup {Idle},
         th' = [th EXCEPT ![t] = x]
  PROVE  Holders' = IF x # Idle /\ "sym" \in x.held THEN Holders \cup {t} ELSE Holders \ {t}
<1>1. th'[t] = x /\ \A u \in Thread : u # t => th'[u] = th[u]
  BY DEF Calls
<1> QED
  BY <1>1 DEF Holders, Busy

\* A step that neither takes nor gives back the symbol.
LEMMA SameReferences ==
  ASSUME Calls, References, NEW t \in Thread, NEW x \in Call \cup {Idle},
         th' = [th EXCEPT ![t] = x], turbo' = turbo, turbo_refs' = turbo_refs,
         (x # Idle /\ "sym" \in x.held) <=> t \in Holders
  PROVE  References'
<1>1. Holders' = Holders
  <2>1. CASE t \in Holders
    <3>1. Holders' = Holders \cup {t}
      BY <2>1, HoldersAfter
    <3> QED
      BY <2>1, <3>1
  <2>2. CASE t \notin Holders
    <3>1. Holders' = Holders \ {t}
      BY <2>2, HoldersAfter
    <3> QED
      BY <2>2, <3>1
  <2> QED
    BY <2>1, <2>2
<1> QED
  BY <1>1 DEF References

LEMMA WithPc ==
  ASSUME NEW c \in Call, NEW pc \in PC
  PROVE  /\ [c EXCEPT !.pc = pc] \in Call
         /\ [c EXCEPT !.pc = pc].op = c.op /\ [c EXCEPT !.pc = pc].slot = c.slot
         /\ [c EXCEPT !.pc = pc].base = c.base /\ [c EXCEPT !.pc = pc].size = c.size
         /\ [c EXCEPT !.pc = pc].pc = pc /\ [c EXCEPT !.pc = pc].held = c.held
         /\ [c EXCEPT !.pc = pc].ret = c.ret /\ [c EXCEPT !.pc = pc].pos = c.pos
         /\ [c EXCEPT !.pc = pc].ep_addr = c.ep_addr /\ [c EXCEPT !.pc = pc].kbuf = c.kbuf
         /\ [c EXCEPT !.pc = pc].on = c.on
  BY DEF Call, PC, Before, After

\* The way out with an error: nothing is promised any more of what was sent.
LEMMA FailsOn ==
  ASSUME Calls, References, NEW t \in Thread, Busy(t), NEW pc \in After, Fails(t, pc),
         th[t].held = HeldAt(th[t].op, pc), th[t].op = "buffer" => pc # "close"
  PROVE  Calls' /\ References' /\ UNCHANGED lifeVars
<1> DEFINE c == th[t]
           e == [c EXCEPT !.ret = "error"]
           x == [e EXCEPT !.pc = pc]
<1>1. c \in Call /\ sent[t] \in [Addr -> {NULL} \cup Unit] /\ Good(c, sent[t], card[c.slot])
  BY DEF Calls, Busy
<1>2. /\ e \in Call /\ e.op = c.op /\ e.slot = c.slot /\ e.base = c.base /\ e.size = c.size
      /\ e.held = c.held /\ e.ret = "error" /\ e.pos = c.pos /\ e.on = c.on
  BY <1>1 DEF Call
<1>3. pc \in PC /\ pc \notin Before /\ pc \notin {"read", "xfer", "open"}
  BY DEF PC, Before, After
<1>4. /\ x \in Call /\ x.op = c.op /\ x.slot = c.slot /\ x.base = c.base /\ x.size = c.size
      /\ x.held = c.held /\ x.ret = "error" /\ x.pos = c.pos /\ x.on = c.on /\ x.pc = pc
  <2> HIDE DEF e, c
  <2> QED
    BY <1>2, <1>3, WithPc
<1>5. Go(t, pc, e) /\ sent' = sent /\ turbo' = turbo /\ turbo_refs' = turbo_refs
  BY DEF Fails
<1> HIDE DEF x, e, c
<1>6. Good(x, sent[t], card[x.slot])
  <2>1. Ladder(x)
    BY <1>3, <1>4 DEF Ladder, c
  <2>2. Position(x)
    BY <1>1, <1>3, <1>4 DEF Position, Good
  <2>3. Placed(x, sent[t], card[x.slot])
    BY <1>1, <1>3, <1>4 DEF Placed, Good
  <2> QED
    BY <2>1, <2>2, <2>3 DEF Good
<1>7. sent' = [sent EXCEPT ![t] = sent[t]]
  BY <1>5 DEF Calls
<1>8. Calls' /\ th' = [th EXCEPT ![t] = x] /\ UNCHANGED lifeVars
  <2>1. th' = [th EXCEPT ![t] = x] /\ card' = card /\ UNCHANGED lifeVars
    BY <1>5 DEF x, Go
  <2>2. Calls'
    BY <1>1, <1>4, <1>6, <1>7, <2>1, OneCall
  <2> QED
    BY <2>1, <2>2
<1>9. (x # Idle /\ "sym" \in x.held) <=> t \in Holders
  BY <1>4, CallsAreBusy DEF Holders, c
<1> QED
  BY <1>4, <1>5, <1>8, <1>9, SameReferences

----------------------------------------------------------------------------
(* The world around a call.                                                *)

\* What a call has put where stays true when a newer card has come.
LEMMA NewerCard ==
  ASSUME NEW c \in Call, NEW s, NEW n \in Nat, NEW m \in Nat, n <= m, Good(c, s, n)
  PROVE  Good(c, s, m)
<1>1. c.on \in Nat
  BY CallsAreBusy, Sizes
<1> QED
  BY <1>1 DEF Good, Placed

LEMMA SlotsMoveKeeps ==
  ASSUME H2DInv, SlotsMove
  PROVE  H2DInv'
<1>1. UNCHANGED <<turbo, turbo_refs, th, sent>>
  BY DEF SlotsMove
<1>2. World'
  BY DEF SlotsMove, H2DInv, World, Life!Next, Life!Listen, Life!Slots
<1>3. card' \in [Slot -> 0 .. MaxCards] /\ \A s \in Slot : card[s] <= card'[s]
  <2>1. \A s \in Slot : card[s] \in Nat
    BY Sizes DEF H2DInv, Calls
  <2>2. card' = [s \in Slot |-> IF function[s] = "none" /\ function'[s] # "none"
                                THEN card[s] + 1 ELSE card[s]]
    BY DEF SlotsMove
  <2>3. \A s \in Slot : card'[s] = card[s] \/ card'[s] = card[s] + 1
    BY <2>2
  <2>4. \A s \in Slot : card'[s] <= MaxCards
    BY DEF SlotsMove
  <2>5. \A s \in Slot : card'[s] \in 0 .. MaxCards /\ card[s] <= card'[s]
    BY <2>1, <2>3, <2>4, Sizes
  <2> QED
    BY <2>2, <2>5
<1>4. Calls'
  <2>1. ASSUME NEW t \in Thread, Busy(t)
        PROVE  Good(th[t], sent[t], card'[th[t].slot])
    <3>1. th[t] \in Call /\ Good(th[t], sent[t], card[th[t].slot])
      BY <2>1 DEF H2DInv, Calls, Busy
    <3>2. th[t].slot \in Slot
      BY <3>1, CallsAreBusy
    <3>3. /\ card[th[t].slot] \in Nat /\ card'[th[t].slot] \in Nat
          /\ card[th[t].slot] <= card'[th[t].slot]
      BY <1>3, <3>2, Sizes DEF H2DInv, Calls
    <3> QED
      BY <3>1, <3>3, NewerCard
  <2> QED
    BY <1>1, <1>3, <2>1 DEF H2DInv, Calls, Busy
<1>5. References'
  BY <1>1 DEF H2DInv, References, Holders, Busy
<1> QED
  BY <1>2, <1>4, <1>5 DEF H2DInv

LEMMA TurboLoadsKeeps ==
  ASSUME IsFiniteSet(Thread), H2DInv, TurboLoads
  PROVE  H2DInv'
<1>1. UNCHANGED <<lifeVars, card, turbo_refs, th, sent>> /\ turbo' = ~turbo
  BY DEF TurboLoads
<1>2. IsFiniteSet(Holders)
  BY FS_Subset DEF Holders
<1>3. Holders = {}
  <2>1. CASE turbo
    <3>1. Cardinality(Holders) = 0
      BY <2>1 DEF TurboLoads, H2DInv, References
    <3> QED
      BY <1>2, <3>1, FS_EmptySet
  <2>2. CASE ~turbo
    BY <2>2 DEF H2DInv, References
  <2> QED
    BY <2>1, <2>2
<1>4. Holders' = Holders
  BY <1>1 DEF Holders, Busy
<1>5. turbo' \in BOOLEAN
  BY <1>1 DEF H2DInv, References
<1>6. References'
  BY <1>1, <1>3, <1>4, <1>5 DEF H2DInv, References
<1>7. World' /\ Calls'
  BY <1>1 DEF H2DInv, World, Calls, Busy, lifeVars
<1> QED
  BY <1>6, <1>7 DEF H2DInv

----------------------------------------------------------------------------
(* A call.                                                                 *)

LEMMA ModSmall ==
  ASSUME NEW m \in Nat \ {0}, NEW x \in 0 .. m - 1
  PROVE  x % m = x
  OBVIOUS

LEMMA ModUnder ==
  ASSUME NEW m \in Nat \ {0}, NEW x \in 0 .. m - 1
  PROVE  (x - m) % m = x
  OBVIOUS

LEMMA EnterKeeps ==
  ASSUME Env = {}, H2DInv, NEW t \in Thread, NEW r \in Request, Enter(t, r)
  PROVE  H2DInv'
<1> DEFINE x == [op |-> r.op, slot |-> r.slot, base |-> r.ep_addr, size |-> r.size,
                 pc |-> "check", held |-> {}, ret |-> "ok",
                 pos |-> 0, ep_addr |-> r.ep_addr, kbuf |-> NoUnits, on |-> 0]
<1>1. /\ th' = [th EXCEPT ![t] = x] /\ sent' = [sent EXCEPT ![t] = Nowhere]
      /\ UNCHANGED <<lifeVars, card, turbo, turbo_refs>>
  BY DEF Enter
<1>2. /\ r.op \in {"file", "buffer"} /\ r.slot \in Slot /\ r.ep_addr \in Addr
      /\ r.size \in 0 .. MaxLen
  BY H2DAssumption DEF Request
<1>3. x \in Call
  <2>1. NoUnits \in [first : 0 .. MaxLen, n : 0 .. MaxLen]
    BY Sizes DEF NoUnits
  <2>2. 0 \in 0 .. MaxLen /\ 0 \in 0 .. MaxCards
    BY Sizes
  <2> QED
    BY <1>2, <2>1, <2>2 DEF Call
<1>4. r.ep_addr + r.size <= AddrMod
  <2>1. CASE r.op = "file"
    BY <2>1 DEF Enter
  <2>2. CASE r.op = "buffer"
    BY <1>2, <2>2, Sizes DEF Enter, Accepted
  <2> QED
    BY <1>2, <2>1, <2>2
<1>5. Good(x, Nowhere, card[x.slot])
  <2>1. Ladder(x)
    BY <1>2 DEF Ladder, HeldAt
  <2>2. Position(x)
    <3>1. (r.ep_addr + 0) % AddrMod = r.ep_addr
      <4>1. r.ep_addr + 0 = r.ep_addr
        BY <1>2, Sizes
      <4> QED
        BY <1>2, <4>1, ModSmall, Sizes
    <3>2. r.size \in Nat
      BY <1>2, Sizes
    <3> QED
      BY <1>4, <3>1, <3>2 DEF Position, Before, After
  <2>3. Placed(x, Nowhere, card[x.slot])
    <3>1. card[r.slot] \in Nat
      BY <1>2, Sizes DEF H2DInv, Calls
    <3>2. \A a \in Addr : Nowhere[a] = NULL
      BY DEF Nowhere
    <3>3. DoneUnits(x) = 0
      BY DEF DoneUnits
    <3>4. \A a : a \notin 0 .. 0 - 1
      OBVIOUS
    <3> QED
      BY <3>1, <3>2, <3>3, <3>4 DEF Placed
  <2> QED
    BY <2>1, <2>2, <2>3 DEF Good
<1>6. Calls'
  <2>1. Nowhere \in [Addr -> {NULL} \cup Unit]
    BY DEF Nowhere
  <2> HIDE DEF x
  <2> QED
    BY <1>1, <1>3, <1>5, <2>1, OneCall DEF H2DInv
<1>7. References'
  <2>1. t \notin Holders
    BY DEF Enter, Holders
  <2>2. x.held = {}
    OBVIOUS
  <2> HIDE DEF x
  <2> QED
    BY <1>1, <1>3, <2>1, <2>2, SameReferences DEF H2DInv
<1>8. World'
  BY <1>1 DEF H2DInv, World, lifeVars
<1> QED
  BY <1>6, <1>7, <1>8 DEF H2DInv

LEMMA ReturnKeeps ==
  ASSUME H2DInv, NEW t \in Thread, Return(t)
  PROVE  H2DInv'
<1>1. /\ th' = [th EXCEPT ![t] = Idle] /\ sent' = [sent EXCEPT ![t] = Nowhere]
      /\ UNCHANGED <<lifeVars, card, turbo, turbo_refs>>
  BY DEF Return
<1>2. Calls'
  <2>1. Nowhere \in [Addr -> {NULL} \cup Unit]
    BY DEF Nowhere
  <2> QED
    BY <1>1, <2>1, OneCall DEF H2DInv
<1>3. t \notin Holders
  <2>1. Ladder(th[t]) /\ th[t].pc = "done"
    BY AtCall DEF Return, H2DInv, Good
  <2> QED
    BY <2>1 DEF Holders, Ladder, HeldAt
<1>4. References'
  BY <1>1, <1>3, SameReferences DEF H2DInv
<1>5. World'
  BY <1>1 DEF H2DInv, World, lifeVars
<1> QED
  BY <1>2, <1>4, <1>5 DEF H2DInv

\* A step within a call that neither takes nor gives back the symbol.
LEMMA CallGoesOn ==
  ASSUME H2DInv, NEW t \in Thread, Busy(t),
         NEW x \in Call, NEW y \in [Addr -> {NULL} \cup Unit],
         th' = [th EXCEPT ![t] = x], sent' = [sent EXCEPT ![t] = y],
         UNCHANGED <<lifeVars, card, turbo, turbo_refs>>,
         "sym" \in x.held <=> "sym" \in th[t].held,
         Good(x, y, card[x.slot])
  PROVE  H2DInv'
<1>1. Calls'
  BY OneCall DEF H2DInv
<1>2. References'
  <2>1. (x # Idle /\ "sym" \in x.held) <=> t \in Holders
    BY CallsAreBusy DEF Holders
  <2> QED
    BY <2>1, SameReferences DEF H2DInv
<1>3. World'
  BY DEF H2DInv, World, lifeVars
<1> QED
  BY <1>1, <1>2, <1>3 DEF H2DInv

LEMMA FailsKeeps ==
  ASSUME H2DInv, NEW t \in Thread, NEW from \in PC, At(t, from), NEW pc \in After,
         Fails(t, pc),
         HeldAt(th[t].op, from) = HeldAt(th[t].op, pc),
         th[t].op = "buffer" => pc # "close"
  PROVE  H2DInv'
<1>1. Busy(t) /\ th[t].held = HeldAt(th[t].op, pc)
  BY AtCall DEF H2DInv, Good, Ladder
<1>2. Calls' /\ References' /\ UNCHANGED lifeVars
  BY <1>1, FailsOn DEF H2DInv
<1> QED
  BY <1>2 DEF H2DInv, World, lifeVars

LEMMA CheckSlotKeeps ==
  ASSUME H2DInv, NEW t \in Thread, CheckSlot(t)
  PROVE  H2DInv'
<1> DEFINE c == th[t]
<1>1. At(t, "check")
  BY DEF CheckSlot
<1>2. /\ c \in Call /\ c.pc = "check" /\ Busy(t) /\ sent[t] \in [Addr -> {NULL} \cup Unit]
      /\ Good(c, sent[t], card[c.slot]) /\ card[c.slot] \in 0 .. MaxCards
  BY <1>1, AtCall DEF H2DInv
<1>3. CASE /\ Go(t, "get", [th[t] EXCEPT !.on = card[th[t].slot]])
           /\ UNCHANGED <<turbo, turbo_refs, sent>>
  <2> DEFINE e == [c EXCEPT !.on = card[c.slot]]
             x == [e EXCEPT !.pc = "get"]
  <2>1. /\ x \in Call /\ x.op = c.op /\ x.slot = c.slot /\ x.base = c.base
        /\ x.size = c.size /\ x.pc = "get" /\ x.held = c.held /\ x.ret = c.ret
        /\ x.pos = c.pos /\ x.ep_addr = c.ep_addr /\ x.on = card[c.slot]
    BY <1>2 DEF Call
  <2>2. th' = [th EXCEPT ![t] = x] /\ UNCHANGED <<lifeVars, card, turbo, turbo_refs>>
    BY <1>3 DEF Go
  <2> HIDE DEF x, e, c
  <2>3. sent' = [sent EXCEPT ![t] = sent[t]]
    BY <1>3 DEF H2DInv, Calls
  <2>4. Good(x, sent[t], card[x.slot])
    <3>1. Ladder(x)
      BY <1>2, <2>1 DEF Good, Ladder, HeldAt
    <3>2. Position(x)
      BY <1>2, <2>1 DEF Good, Position, Before, After
    <3>3. Placed(x, sent[t], card[x.slot])
      <4>1. \A a \in Addr : sent[t][a] = NULL
        BY <1>2 DEF Good, Placed, Before
      <4>2. DoneUnits(x) = 0
        BY <1>2, <2>1 DEF DoneUnits, Good, Position, Before
      <4>3. \A a : a \notin 0 .. 0 - 1
        OBVIOUS
      <4>4. x.on <= card[x.slot]
        BY <1>2, <2>1, Sizes
      <4> QED
        BY <4>1, <4>2, <4>3, <4>4 DEF Placed
    <3> QED
      BY <3>1, <3>2, <3>3 DEF Good
  <2>5. "sym" \in x.held <=> "sym" \in th[t].held
    BY <2>1 DEF c
  <2> QED
    BY <1>2, <2>1, <2>2, <2>3, <2>4, <2>5, CallGoesOn
<1>4. CASE Fails(t, "done")
  <2>1. HeldAt(th[t].op, "check") = HeldAt(th[t].op, "done")
    BY DEF HeldAt
  <2>2. "check" \in PC /\ "done" \in After
    BY DEF PC, Before, After
  <2> QED
    BY <1>1, <1>4, <2>1, <2>2, FailsKeeps
<1> QED
  BY <1>3, <1>4 DEF CheckSlot

\* Taking a step on the way to the transfers, nothing is sent or moved.
LEMMA BeforeGood ==
  ASSUME NEW c \in Call, NEW x \in Call, NEW s, NEW n, c.pc \in Before,
         x.pc \in Before \cup {"read"},
         x.base = c.base, x.size = c.size, x.pos = c.pos, x.ep_addr = c.ep_addr,
         x.ret = c.ret, x.on = c.on,
         Good(c, s, n), Ladder(x)
  PROVE  Good(x, s, n)
<1>1. Position(x)
  BY DEF Good, Position, Before, After
<1>2. DoneUnits(x) = DoneUnits(c)
  BY DEF DoneUnits, Before
<1>3. Placed(x, s, n)
  BY <1>2 DEF Good, Placed
<1> QED
  BY <1>1, <1>3 DEF Good

LEMMA SymbolGetKeeps ==
  ASSUME IsFiniteSet(Thread), H2DInv, NEW t \in Thread, SymbolGet(t)
  PROVE  H2DInv'
<1> DEFINE c == th[t]
           next == IF c.op = "file" THEN "open" ELSE "alloc"
<1>1. At(t, "get")
  BY DEF SymbolGet
<1>2. /\ c \in Call /\ c.pc = "get" /\ Busy(t) /\ sent[t] \in [Addr -> {NULL} \cup Unit]
      /\ Good(c, sent[t], card[c.slot]) /\ card[c.slot] \in 0 .. MaxCards
  BY <1>1, AtCall DEF H2DInv
<1>3. CASE /\ turbo /\ turbo_refs' = turbo_refs + 1
           /\ Go(t, next, [th[t] EXCEPT !.held = {"sym"}])
           /\ UNCHANGED <<turbo, sent>>
  <2> DEFINE e == [c EXCEPT !.held = {"sym"}]
             x == [e EXCEPT !.pc = next]
  <2>1. /\ x \in Call /\ x.op = c.op /\ x.slot = c.slot /\ x.base = c.base
        /\ x.size = c.size /\ x.pc = next /\ x.held = {"sym"} /\ x.ret = c.ret
        /\ x.pos = c.pos /\ x.ep_addr = c.ep_addr /\ x.on = c.on
    BY <1>2 DEF Call
  <2>2. th' = [th EXCEPT ![t] = x] /\ UNCHANGED <<lifeVars, card, turbo>>
    BY <1>3 DEF Go
  <2>3. next \in {"open", "alloc"} /\ (c.op = "file" <=> next = "open")
    OBVIOUS
  <2>4. c.op \in {"file", "buffer"}
    BY <1>2, CallsAreBusy
  <2> HIDE DEF x, e, c, next
  <2>5. sent' = [sent EXCEPT ![t] = sent[t]]
    BY <1>3 DEF H2DInv, Calls
  <2>6. Ladder(x)
    BY <2>1, <2>3, <2>4 DEF Ladder, HeldAt
  <2>7. Good(x, sent[t], card[x.slot])
    <3>1. c.pc \in Before /\ x.pc \in Before \cup {"read"}
      BY <1>2, <2>1, <2>3 DEF Before
    <3> QED
      BY <1>2, <2>1, <2>6, <3>1, BeforeGood
  <2>8. Calls'
    BY <1>2, <2>1, <2>2, <2>5, <2>7, OneCall DEF H2DInv
  <2>9. References'
    <3>1. t \notin Holders
      BY <1>2 DEF Holders, Good, Ladder, HeldAt, c
    <3>2. Holders' = Holders \cup {t}
      BY <2>1, <2>2, HoldersAfter, CallsAreBusy DEF H2DInv
    <3>3. IsFiniteSet(Holders)
      BY FS_Subset DEF Holders
    <3>4. Cardinality(Holders') = Cardinality(Holders) + 1
      BY <3>1, <3>2, <3>3, FS_AddElement
    <3> QED
      BY <1>3, <3>2, <3>4 DEF H2DInv, References
  <2> QED
    BY <2>2, <2>8, <2>9 DEF H2DInv, World, lifeVars
<1>4. CASE Fails(t, "done")
  <2>1. HeldAt(th[t].op, "get") = HeldAt(th[t].op, "done")
    BY DEF HeldAt
  <2>2. "get" \in PC /\ "done" \in After
    BY DEF PC, Before, After
  <2> QED
    BY <1>1, <1>4, <2>1, <2>2, FailsKeeps
<1> QED
  BY <1>3, <1>4 DEF SymbolGet

LEMMA FilpOpenKeeps ==
  ASSUME H2DInv, NEW t \in Thread, FilpOpen(t)
  PROVE  H2DInv'
<1> DEFINE c == th[t]
<1>1. At(t, "open")
  BY DEF FilpOpen
<1>2. /\ c \in Call /\ c.pc = "open" /\ Busy(t) /\ sent[t] \in [Addr -> {NULL} \cup Unit]
      /\ Good(c, sent[t], card[c.slot]) /\ card[c.slot] \in 0 .. MaxCards
  BY <1>1, AtCall DEF H2DInv
<1>3. c.op = "file" /\ c.held = {"sym"}
  BY <1>2, CallsAreBusy DEF Good, Ladder, HeldAt
<1>4. CASE /\ Go(t, "alloc", [th[t] EXCEPT !.held = @ \cup {"file"}])
           /\ UNCHANGED <<turbo, turbo_refs, sent>>
  <2> DEFINE e == [c EXCEPT !.held = @ \cup {"file"}]
             x == [e EXCEPT !.pc = "alloc"]
  <2>1. /\ x \in Call /\ x.op = c.op /\ x.slot = c.slot /\ x.base = c.base
        /\ x.size = c.size /\ x.pc = "alloc" /\ x.held = c.held \cup {"file"}
        /\ x.ret = c.ret /\ x.pos = c.pos /\ x.ep_addr = c.ep_addr /\ x.on = c.on
    BY <1>2 DEF Call
  <2>2. th' = [th EXCEPT ![t] = x] /\ UNCHANGED <<lifeVars, card, turbo, turbo_refs>>
    BY <1>4 DEF Go
  <2> HIDE DEF x, e, c
  <2>3. sent' = [sent EXCEPT ![t] = sent[t]]
    BY <1>4 DEF H2DInv, Calls
  <2>4. Ladder(x)
    BY <1>3, <2>1 DEF Ladder, HeldAt
  <2>5. Good(x, sent[t], card[x.slot])
    <3>1. c.pc \in Before /\ x.pc \in Before \cup {"read"}
      BY <1>2, <2>1 DEF Before
    <3> QED
      BY <1>2, <2>1, <2>4, <3>1, BeforeGood
  <2>6. "sym" \in x.held <=> "sym" \in th[t].held
    BY <2>1 DEF c
  <2> QED
    BY <1>2, <2>1, <2>2, <2>3, <2>5, <2>6, CallGoesOn
<1>5. CASE Fails(t, "put")
  <2>1. HeldAt(th[t].op, "open") = HeldAt(th[t].op, "put")
    BY DEF HeldAt
  <2>2. "open" \in PC /\ "put" \in After
    BY DEF PC, Before, After
  <2> QED
    BY <1>1, <1>5, <2>1, <2>2, FailsKeeps
<1> QED
  BY <1>4, <1>5 DEF FilpOpen

LEMMA VmallocKeeps ==
  ASSUME H2DInv, NEW t \in Thread, Vmalloc(t)
  PROVE  H2DInv'
<1> DEFINE c == th[t]
<1>1. At(t, "alloc")
  BY DEF Vmalloc
<1>2. /\ c \in Call /\ c.pc = "alloc" /\ Busy(t) /\ sent[t] \in [Addr -> {NULL} \cup Unit]
      /\ Good(c, sent[t], card[c.slot]) /\ card[c.slot] \in 0 .. MaxCards
  BY <1>1, AtCall DEF H2DInv
<1>3. /\ c.op \in {"file", "buffer"}
      /\ c.held = IF c.op = "file" THEN {"sym", "file"} ELSE {"sym"}
  BY <1>2, CallsAreBusy DEF Good, Ladder, HeldAt
<1>4. CASE /\ Go(t, "read", [th[t] EXCEPT !.held = @ \cup {"kbuf"}])
           /\ UNCHANGED <<turbo, turbo_refs, sent>>
  <2> DEFINE e == [c EXCEPT !.held = @ \cup {"kbuf"}]
             x == [e EXCEPT !.pc = "read"]
  <2>1. /\ x \in Call /\ x.op = c.op /\ x.slot = c.slot /\ x.base = c.base
        /\ x.size = c.size /\ x.pc = "read" /\ x.held = c.held \cup {"kbuf"}
        /\ x.ret = c.ret /\ x.pos = c.pos /\ x.ep_addr = c.ep_addr /\ x.on = c.on
    BY <1>2 DEF Call
  <2>2. th' = [th EXCEPT ![t] = x] /\ UNCHANGED <<lifeVars, card, turbo, turbo_refs>>
    BY <1>4 DEF Go
  <2> HIDE DEF x, e, c
  <2>3. sent' = [sent EXCEPT ![t] = sent[t]]
    BY <1>4 DEF H2DInv, Calls
  <2>4. Ladder(x)
    BY <1>3, <2>1 DEF Ladder, HeldAt
  <2>5. Good(x, sent[t], card[x.slot])
    <3>1. c.pc \in Before /\ x.pc \in Before \cup {"read"}
      BY <1>2, <2>1 DEF Before
    <3> QED
      BY <1>2, <2>1, <2>4, <3>1, BeforeGood
  <2>6. "sym" \in x.held <=> "sym" \in th[t].held
    BY <2>1 DEF c
  <2> QED
    BY <1>2, <2>1, <2>2, <2>3, <2>5, <2>6, CallGoesOn
<1>5. CASE Fails(t, AfterNoBuffer(th[t].op))
  <2>1. HeldAt(c.op, "alloc") = HeldAt(c.op, AfterNoBuffer(c.op))
    BY <1>3 DEF HeldAt, AfterNoBuffer
  <2>2. "alloc" \in PC /\ AfterNoBuffer(c.op) \in After
    BY DEF PC, Before, After, AfterNoBuffer
  <2>3. c.op = "buffer" => AfterNoBuffer(c.op) # "close"
    BY DEF AfterNoBuffer
  <2> QED
    BY <1>1, <1>5, <2>1, <2>2, <2>3, FailsKeeps
<1> QED
  BY <1>4, <1>5 DEF Vmalloc

\* Giving something back moves no data.
LEMMA AfterGood ==
  ASSUME NEW c \in Call, NEW x \in Call, NEW s, NEW n,
         c.pc \in After \cup {"read"}, c.pc = "read" => c.pos = c.size, x.pc \in After,
         x.base = c.base, x.size = c.size, x.pos = c.pos,
         x.ret = c.ret, x.on = c.on,
         Good(c, s, n), Ladder(x)
  PROVE  Good(x, s, n)
<1>1. Position(x)
  BY DEF Good, Position, Before, After
<1>2. DoneUnits(x) = DoneUnits(c)
  BY DEF DoneUnits, After
<1>3. x.pc \notin Before
  BY DEF Before, After
<1>4. Placed(x, s, n)
  BY <1>2, <1>3 DEF Good, Placed
<1> QED
  BY <1>1, <1>4 DEF Good

LEMMA UnwindKeeps ==
  ASSUME IsFiniteSet(Thread), H2DInv, NEW t \in Thread, Unwind(t)
  PROVE  H2DInv'
<1> DEFINE c == th[t]
<1>1. CASE /\ At(t, "free")
           /\ Go(t, AfterNoBuffer(th[t].op), [th[t] EXCEPT !.held = @ \ {"kbuf"}])
           /\ UNCHANGED <<turbo, turbo_refs, sent>>
  <2> DEFINE pc == AfterNoBuffer(c.op)
             e == [c EXCEPT !.held = @ \ {"kbuf"}]
             x == [e EXCEPT !.pc = pc]
  <2>1. /\ c \in Call /\ c.pc = "free" /\ Busy(t) /\ sent[t] \in [Addr -> {NULL} \cup Unit]
        /\ Good(c, sent[t], card[c.slot])
    BY <1>1, AtCall DEF H2DInv
  <2>2. pc = IF c.op = "file" THEN "close" ELSE "put"
    BY DEF AfterNoBuffer
  <2>3. /\ x \in Call /\ x.op = c.op /\ x.slot = c.slot /\ x.base = c.base
        /\ x.size = c.size /\ x.pc = pc /\ x.held = c.held \ {"kbuf"}
        /\ x.ret = c.ret /\ x.pos = c.pos /\ x.on = c.on
    <3> HIDE DEF pc
    <3>1. pc \in PC
      BY <2>2 DEF PC, After
    <3>2. /\ e \in Call /\ e.op = c.op /\ e.slot = c.slot /\ e.base = c.base
          /\ e.size = c.size /\ e.held = c.held \ {"kbuf"}
          /\ e.ret = c.ret /\ e.pos = c.pos /\ e.on = c.on
      BY <2>1 DEF Call
    <3> HIDE DEF e, c
    <3> QED
      BY <3>1, <3>2, WithPc
  <2>4. th' = [th EXCEPT ![t] = x] /\ UNCHANGED <<lifeVars, card, turbo, turbo_refs>>
    BY <1>1 DEF Go
  <2>5. c.op \in {"file", "buffer"}
    BY <2>1, CallsAreBusy
  <2> HIDE DEF x, e, pc, c
  <2>6. sent' = [sent EXCEPT ![t] = sent[t]]
    BY <1>1 DEF H2DInv, Calls
  <2>7. Ladder(x)
    BY <2>1, <2>2, <2>3, <2>5 DEF Good, Ladder, HeldAt
  <2>8. Good(x, sent[t], card[x.slot])
    <3>1. c.pc \in After /\ x.pc \in After
      BY <2>1, <2>2, <2>3 DEF After
    <3>2. c.pc \in After \cup {"read"} /\ (c.pc = "read" => c.pos = c.size)
      BY <3>1 DEF After
    <3> QED
      BY <2>1, <2>3, <2>7, <3>1, <3>2, AfterGood
  <2>9. "sym" \in x.held <=> "sym" \in th[t].held
    BY <2>3 DEF c
  <2> QED
    BY <2>1, <2>3, <2>4, <2>6, <2>8, <2>9, CallGoesOn
<1>2. CASE /\ At(t, "close")
           /\ Go(t, "put", [th[t] EXCEPT !.held = @ \ {"file"}])
           /\ UNCHANGED <<turbo, turbo_refs, sent>>
  <2> DEFINE e == [c EXCEPT !.held = @ \ {"file"}]
             x == [e EXCEPT !.pc = "put"]
  <2>1. /\ c \in Call /\ c.pc = "close" /\ Busy(t) /\ sent[t] \in [Addr -> {NULL} \cup Unit]
        /\ Good(c, sent[t], card[c.slot])
    BY <1>2, AtCall DEF H2DInv
  <2>2. /\ x \in Call /\ x.op = c.op /\ x.slot = c.slot /\ x.base = c.base
        /\ x.size = c.size /\ x.pc = "put" /\ x.held = c.held \ {"file"}
        /\ x.ret = c.ret /\ x.pos = c.pos /\ x.on = c.on
    BY <2>1 DEF Call
  <2>3. th' = [th EXCEPT ![t] = x] /\ UNCHANGED <<lifeVars, card, turbo, turbo_refs>>
    BY <1>2 DEF Go
  <2>4. c.op \in {"file", "buffer"}
    BY <2>1, CallsAreBusy
  <2> HIDE DEF x, e, c
  <2>5. sent' = [sent EXCEPT ![t] = sent[t]]
    BY <1>2 DEF H2DInv, Calls
  <2>6. Ladder(x)
    BY <2>1, <2>2, <2>4 DEF Good, Ladder, HeldAt
  <2>7. Good(x, sent[t], card[x.slot])
    <3>1. c.pc \in After /\ x.pc \in After
      BY <2>1, <2>2 DEF After
    <3>2. c.pc \in After \cup {"read"} /\ (c.pc = "read" => c.pos = c.size)
      BY <3>1 DEF After
    <3> QED
      BY <2>1, <2>2, <2>6, <3>1, <3>2, AfterGood
  <2>8. "sym" \in x.held <=> "sym" \in th[t].held
    BY <2>2 DEF c
  <2> QED
    BY <2>1, <2>2, <2>3, <2>5, <2>7, <2>8, CallGoesOn
<1>3. CASE /\ At(t, "put") /\ turbo_refs' = turbo_refs - 1
           /\ Go(t, "done", [th[t] EXCEPT !.held = @ \ {"sym"}])
           /\ UNCHANGED <<turbo, sent>>
  <2> DEFINE e == [c EXCEPT !.held = @ \ {"sym"}]
             x == [e EXCEPT !.pc = "done"]
  <2>1. /\ c \in Call /\ c.pc = "put" /\ Busy(t) /\ sent[t] \in [Addr -> {NULL} \cup Unit]
        /\ Good(c, sent[t], card[c.slot])
    BY <1>3, AtCall DEF H2DInv
  <2>2. /\ x \in Call /\ x.op = c.op /\ x.slot = c.slot /\ x.base = c.base
        /\ x.size = c.size /\ x.pc = "done" /\ x.held = c.held \ {"sym"}
        /\ x.ret = c.ret /\ x.pos = c.pos /\ x.on = c.on
    BY <2>1 DEF Call
  <2>3. th' = [th EXCEPT ![t] = x] /\ UNCHANGED <<lifeVars, card, turbo>>
    BY <1>3 DEF Go
  <2> HIDE DEF x, e, c
  <2>4. sent' = [sent EXCEPT ![t] = sent[t]]
    BY <1>3 DEF H2DInv, Calls
  <2>5. c.held = {"sym"}
    BY <2>1 DEF Good, Ladder, HeldAt
  <2>6. Ladder(x)
    BY <2>2, <2>5 DEF Ladder, HeldAt
  <2>7. Good(x, sent[t], card[x.slot])
    <3>1. c.pc \in After /\ x.pc \in After
      BY <2>1, <2>2 DEF After
    <3>2. c.pc \in After \cup {"read"} /\ (c.pc = "read" => c.pos = c.size)
      BY <3>1 DEF After
    <3> QED
      BY <2>1, <2>2, <2>6, <3>1, <3>2, AfterGood
  <2>8. Calls'
    BY <2>1, <2>2, <2>3, <2>4, <2>7, OneCall DEF H2DInv
  <2>9. References'
    <3>1. t \in Holders
      BY <2>1, <2>5 DEF Holders, c
    <3>2. Holders' = Holders \ {t}
      BY <2>2, <2>3, HoldersAfter DEF H2DInv
    <3>3. IsFiniteSet(Holders)
      BY FS_Subset DEF Holders
    <3>4. Cardinality(Holders') = Cardinality(Holders) - 1
      BY <3>1, <3>2, <3>3, FS_RemoveElement
    <3> QED
      BY <1>3, <3>1, <3>2, <3>4 DEF H2DInv, References
  <2> QED
    BY <2>3, <2>8, <2>9 DEF H2DInv, World, lifeVars
<1> QED
  BY <1>1, <1>2, <1>3 DEF Unwind

\* A chunk is not empty and does not reach beyond the source.
LEMMA ChunkSize ==
  ASSUME NEW c \in Call, c.pos <= c.size, NEW n \in ChunkSizes(c)
  PROVE  n \in Nat /\ n >= 1 /\ c.pos + n <= c.size /\ c.pos + n \in 0 .. MaxLen
<1> DEFINE rest == c.size - c.pos
           most == LeastOf(rest, ChunkMax)
<1>1. /\ c.size \in 0 .. MaxLen /\ c.pos \in 0 .. MaxLen /\ c.op \in {"file", "buffer"}
      /\ ChunkMax \in Nat \ {0} /\ MaxLen \in Nat
  BY CallsAreBusy, Sizes
<1>2. rest \in Nat
  BY <1>1
<1> HIDE DEF rest
<1>3. most \in Nat /\ most <= rest
  BY <1>1, <1>2 DEF LeastOf
<1>4. n \in Nat /\ n >= 1 /\ n <= most
  <2>1. ChunkSizes(c) = IF c.op = "file" THEN 1 .. most ELSE {most} \ {0}
    BY DEF ChunkSizes, rest
  <2> HIDE DEF most
  <2>2. CASE c.op = "file"
    BY <1>3, <2>1, <2>2
  <2>3. CASE c.op # "file"
    BY <1>3, <2>1, <2>3
  <2> QED
    BY <2>2, <2>3
<1> HIDE DEF most
<1>5. n <= rest
  BY <1>2, <1>3, <1>4
<1> QED
  BY <1>1, <1>4, <1>5 DEF rest

LEMMA ReadChunkKeeps ==
  ASSUME H2DInv, NEW t \in Thread, ReadChunk(t)
  PROVE  H2DInv'
<1> DEFINE c == th[t]
<1>1. At(t, "read")
  BY DEF ReadChunk
<1>2. /\ c \in Call /\ c.pc = "read" /\ Busy(t) /\ sent[t] \in [Addr -> {NULL} \cup Unit]
      /\ Good(c, sent[t], card[c.slot]) /\ card[c.slot] \in 0 .. MaxCards
  BY <1>1, AtCall DEF H2DInv
<1>3. /\ c.op \in {"file", "buffer"} /\ c.pos <= c.size /\ c.pos \in 0 .. MaxLen
      /\ c.base \in Addr /\ c.size \in 0 .. MaxLen
      /\ c.ep_addr = (c.base + c.pos) % AddrMod
  BY <1>2, CallsAreBusy DEF Good, Position
<1>s. sent' = sent => sent' = [sent EXCEPT ![t] = sent[t]]
  BY DEF H2DInv, Calls
<1>4. ASSUME NEW n \in ChunkSizes(c),
             Go(t, "xfer", [th[t] EXCEPT !.kbuf = [first |-> th[t].pos, n |-> n],
                                         !.pos = NextPos(th[t], n)]),
             UNCHANGED <<turbo, turbo_refs, sent>>
      PROVE  H2DInv'
  <2> DEFINE e == [c EXCEPT !.kbuf = [first |-> c.pos, n |-> n], !.pos = NextPos(c, n)]
             x == [e EXCEPT !.pc = "xfer"]
  <2>1. n \in Nat /\ n >= 1 /\ c.pos + n <= c.size /\ c.pos + n \in 0 .. MaxLen
    BY <1>2, <1>3, ChunkSize
  <2>2. /\ x \in Call /\ x.op = c.op /\ x.slot = c.slot /\ x.base = c.base
        /\ x.size = c.size /\ x.pc = "xfer" /\ x.held = c.held /\ x.ret = c.ret
        /\ x.pos = c.pos + n /\ x.ep_addr = c.ep_addr /\ x.on = c.on
        /\ x.kbuf = [first |-> c.pos, n |-> n]
    <3>1. n \in 0 .. MaxLen
      BY <1>3, <2>1, Sizes
    <3>2. [first |-> c.pos, n |-> n] \in [first : 0 .. MaxLen, n : 0 .. MaxLen]
      BY <1>3, <3>1
    <3> QED
      BY <1>2, <2>1, <3>2 DEF Call, NextPos
  <2>3. th' = [th EXCEPT ![t] = x] /\ UNCHANGED <<lifeVars, card, turbo, turbo_refs>>
    BY <1>4 DEF Go
  <2> HIDE DEF x, e, c
  <2>4. Ladder(x)
    BY <1>2, <2>2 DEF Good, Ladder, HeldAt
  <2>5. Position(x)
    <3>1. x.kbuf.first = c.pos /\ x.kbuf.n = n
      BY <2>2
    <3> QED
      BY <1>2, <1>3, <2>1, <2>2, <3>1 DEF Good, Position, Before, After
  <2>6. Placed(x, sent[t], card[x.slot])
    <3>1. DoneUnits(x) = DoneUnits(c)
      BY <1>2, <2>2 DEF DoneUnits
    <3> QED
      BY <1>2, <2>2, <3>1 DEF Good, Placed, Before
  <2>7. Good(x, sent[t], card[x.slot])
    BY <2>4, <2>5, <2>6 DEF Good
  <2>8. "sym" \in x.held <=> "sym" \in th[t].held
    BY <2>2 DEF c
  <2> QED
    BY <1>2, <1>4, <1>s, <2>2, <2>3, <2>7, <2>8, CallGoesOn
<1>5. CASE th[t].pos = th[t].size /\ Go(t, "free", th[t]) /\ UNCHANGED <<turbo, turbo_refs, sent>>
  <2> DEFINE x == [c EXCEPT !.pc = "free"]
  <2>1. /\ x \in Call /\ x.op = c.op /\ x.slot = c.slot /\ x.base = c.base
        /\ x.size = c.size /\ x.pc = "free" /\ x.held = c.held
        /\ x.ret = c.ret /\ x.pos = c.pos /\ x.on = c.on
    BY <1>2 DEF Call
  <2>2. th' = [th EXCEPT ![t] = x] /\ UNCHANGED <<lifeVars, card, turbo, turbo_refs>>
    BY <1>5 DEF Go
  <2>3. c.pos = c.size
    BY <1>5
  <2> HIDE DEF x, c
  <2>4. Ladder(x)
    BY <1>2, <2>1 DEF Good, Ladder, HeldAt
  <2>5. Good(x, sent[t], card[x.slot])
    <3>1. c.pc \in After \cup {"read"} /\ (c.pc = "read" => c.pos = c.size) /\ x.pc \in After
      BY <1>2, <2>1, <2>3 DEF After
    <3> QED
      BY <1>2, <2>1, <2>4, <3>1, AfterGood
  <2>6. "sym" \in x.held <=> "sym" \in th[t].held
    BY <2>1 DEF c
  <2> QED
    BY <1>2, <1>5, <1>s, <2>1, <2>2, <2>5, <2>6, CallGoesOn
<1>6. CASE Fails(t, "free")
  <2>1. HeldAt(th[t].op, "read") = HeldAt(th[t].op, "free")
    BY DEF HeldAt
  <2>2. "read" \in PC /\ "free" \in After
    BY DEF PC, Before, After
  <2> QED
    BY <1>1, <1>6, <2>1, <2>2, FailsKeeps
<1> QED
  BY <1>4, <1>5, <1>6 DEF ReadChunk

\* A chunk that ends within the address space touches its own window only.
LEMMA Window ==
  ASSUME NEW ep \in Addr, NEW n \in Nat, ep + n <= AddrMod, NEW a \in Addr
  PROVE  /\ (a - ep) % AddrMod < n <=> a - ep \in 0 .. n - 1
         /\ a - ep \in 0 .. n - 1 => (a - ep) % AddrMod = a - ep
<1>1. /\ AddrMod \in Nat \ {0} /\ a \in 0 .. AddrMod - 1 /\ ep \in 0 .. AddrMod - 1
      /\ a \in Int /\ ep \in Int
  BY Sizes
<1>2. CASE a >= ep
  <2>1. a - ep \in 0 .. AddrMod - 1
    BY <1>1, <1>2
  <2>2. (a - ep) % AddrMod = a - ep
    BY <1>1, <2>1, ModSmall
  <2> QED
    BY <1>1, <2>1, <2>2
<1>3. CASE a < ep
  <2> DEFINE z == (a - ep) + AddrMod
  <2>1. z \in 0 .. AddrMod - 1 /\ z >= n /\ z - AddrMod = a - ep
    BY <1>1, <1>3
  <2>2. (z - AddrMod) % AddrMod = z
    <3> HIDE DEF z
    <3> QED
      BY <1>1, <2>1, ModUnder
  <2>3. (a - ep) % AddrMod = z
    BY <2>1, <2>2
  <2>4. ~((a - ep) % AddrMod < n)
    <3> HIDE DEF z
    <3> QED
      BY <1>1, <2>1, <2>3
  <2>5. a - ep \notin 0 .. n - 1
    BY <1>1, <1>3
  <2> QED
    BY <2>4, <2>5
<1> QED
  BY <1>1, <1>2, <1>3

\* The units transferred so far and those of the next chunk.
LEMMA NextUnits ==
  ASSUME NEW a \in Int, NEW base \in Int, NEW first \in Nat, NEW n \in Nat
  PROVE  a - base \in 0 .. (first + n) - 1
           <=> a - base \in 0 .. first - 1 \/ a - (base + first) \in 0 .. n - 1
<1>1. a - (base + first) = (a - base) - first
  OBVIOUS
<1> DEFINE u == a - base
<1>2. u \in Int
  OBVIOUS
<1>3. u \in 0 .. (first + n) - 1 <=> 0 <= u /\ u < first + n
  BY <1>2
<1>4. u \in 0 .. first - 1 <=> 0 <= u /\ u < first
  BY <1>2
<1>5. u - first \in 0 .. n - 1 <=> first <= u /\ u < first + n
  BY <1>2
<1> HIDE DEF u
<1>6. (0 <= u /\ u < first + n) <=> (0 <= u /\ u < first) \/ (first <= u /\ u < first + n)
  BY <1>2
<1> QED
  BY <1>1, <1>3, <1>4, <1>5, <1>6 DEF u

LEMMA H2dXferKeeps ==
  ASSUME H2DInv, NEW t \in Thread, H2dXfer(t)
  PROVE  H2DInv'
<1> DEFINE c == th[t]
           n == c.kbuf.n
           ep == c.ep_addr
           y == [a \in Addr |-> IF (a - ep) % AddrMod < n
                                THEN [card |-> card[c.slot], unit |-> UnitAt(c, a)]
                                ELSE sent[t][a]]
<1>1. At(t, "xfer")
  BY DEF H2dXfer
<1>2. /\ c \in Call /\ c.pc = "xfer" /\ Busy(t) /\ sent[t] \in [Addr -> {NULL} \cup Unit]
      /\ Good(c, sent[t], card[c.slot]) /\ card[c.slot] \in 0 .. MaxCards
  BY <1>1, AtCall DEF H2DInv
<1>3. /\ AddrMod \in Nat \ {0} /\ MaxLen \in Nat
      /\ c.pos \in 0 .. MaxLen /\ c.kbuf.first \in 0 .. MaxLen /\ n \in 0 .. MaxLen
      /\ c.base \in 0 .. AddrMod - 1 /\ c.size \in 0 .. MaxLen /\ ep \in Addr
  BY <1>2, CallsAreBusy, Sizes
<1>4. /\ c.base + c.size <= AddrMod /\ c.pos <= c.size
      /\ n >= 1 /\ c.kbuf.first + n = c.pos
      /\ ep = (c.base + c.kbuf.first) % AddrMod
  BY <1>2 DEF Good, Position
<1>5. CASE /\ sent' = [sent EXCEPT ![t] =
                [a \in Addr |-> IF (a - c.ep_addr) % AddrMod < c.kbuf.n
                                THEN [card |-> card[c.slot], unit |-> UnitAt(c, a)]
                                ELSE @[a]]]
           /\ Go(t, "read", [c EXCEPT !.ep_addr = NextEpAddr(c), !.kbuf = NoUnits])
           /\ UNCHANGED <<turbo, turbo_refs>>
  <2> DEFINE e == [c EXCEPT !.ep_addr = NextEpAddr(c), !.kbuf = NoUnits]
             x == [e EXCEPT !.pc = "read"]
             first == c.kbuf.first
  <2>1. NextEpAddr(c) = (ep + n) % AddrMod /\ NextEpAddr(c) \in Addr
    <3>1. ep + n \in Int
      BY <1>3, Sizes
    <3>2. (ep + n) % AddrMod \in 0 .. AddrMod - 1
      <4> HIDE DEF ep, n
      <4> QED
        BY <1>3, <3>1
    <3> QED
      BY <3>2, Sizes DEF NextEpAddr
  <2>2. /\ x \in Call /\ x.op = c.op /\ x.slot = c.slot /\ x.base = c.base
        /\ x.size = c.size /\ x.pc = "read" /\ x.held = c.held /\ x.ret = c.ret
        /\ x.pos = c.pos /\ x.ep_addr = NextEpAddr(c) /\ x.on = c.on
    <3>1. NoUnits \in [first : 0 .. MaxLen, n : 0 .. MaxLen]
      BY <1>3 DEF NoUnits
    <3> HIDE DEF ep, n
    <3> QED
      BY <1>2, <2>1, <3>1 DEF Call
  <2>3. th' = [th EXCEPT ![t] = x] /\ UNCHANGED <<lifeVars, card, turbo, turbo_refs>>
    BY <1>5 DEF Go
  <2>4. sent' = [sent EXCEPT ![t] = y]
    BY <1>5
  <2>5. UNCHANGED <<turbo, turbo_refs>> /\ \A a \in Addr : UnitAt(c, a) = first + ((a - ep) % AddrMod)
    BY <1>5 DEF UnitAt
  <2>6. \A a \in Addr : y[a] = IF (a - ep) % AddrMod < n
                               THEN [card |-> card[c.slot], unit |-> first + ((a - ep) % AddrMod)]
                               ELSE sent[t][a]
    BY <2>5
  <2>7. first \in 0 .. MaxLen /\ first + n = c.pos /\ DoneUnits(c) = first
    BY <1>2, <1>3, <1>4 DEF DoneUnits
  <2>8. DOMAIN y = Addr /\ y = [a \in Addr |-> y[a]]
    OBVIOUS
  <2> HIDE DEF x, e, y
  <2>9. ep = c.base + first /\ ep + n <= AddrMod
    <3> DEFINE b == c.base + first
    <3>1. b \in 0 .. AddrMod - 1
      <4> HIDE DEF n, first
      <4> QED
        BY <1>3, <1>4, <2>7
    <3>2. b % AddrMod = b
      <4> HIDE DEF b
      <4> QED
        BY <1>3, <3>1, ModSmall
    <3>3. ep = b
      BY <1>4, <3>2
    <3>4. ep + n = c.base + c.pos
      <4> HIDE DEF n, first, ep
      <4> QED
        BY <1>3, <1>4, <2>7, <3>3
    <3> QED
      <4> HIDE DEF n, first, ep
      <4> QED
        BY <1>3, <1>4, <3>3, <3>4
  <2> HIDE DEF first, ep, n, c
  \* The window of this chunk, address by address.
  <2>10. ASSUME NEW a \in Addr
         PROVE  y[a] = IF a - ep \in 0 .. n - 1
                       THEN [card |-> card[c.slot], unit |-> a - c.base] ELSE sent[t][a]
    <3>1. n \in Nat /\ a \in Int /\ ep \in Int /\ c.base \in Int /\ first \in Int
      BY <1>3, <2>7, Sizes
    <3>2. /\ (a - ep) % AddrMod < n <=> a - ep \in 0 .. n - 1
          /\ a - ep \in 0 .. n - 1 => (a - ep) % AddrMod = a - ep
      BY <1>3, <2>9, <3>1, Window
    <3>3. first + (a - ep) = a - c.base
      BY <2>9, <3>1
    <3> QED
      BY <2>6, <3>2, <3>3
  <2>11. y \in [Addr -> {NULL} \cup Unit]
    <3>1. ASSUME NEW a \in Addr PROVE y[a] \in {NULL} \cup Unit
      <4>1. CASE a - ep \in 0 .. n - 1
        <5>1. /\ n \in Nat /\ a \in Int /\ c.base \in Int /\ first \in Nat
              /\ c.pos \in Nat /\ c.pos <= MaxLen
          BY <1>3, <2>7, Sizes
        <5>2. a - (c.base + first) \in 0 .. n - 1
          BY <2>9, <4>1
        <5>3. a - c.base \in 0 .. (first + n) - 1
          BY <5>1, <5>2, NextUnits
        <5>4. a - c.base \in 0 .. MaxLen
          BY <1>3, <2>7, <5>1, <5>3
        <5>5. [card |-> card[c.slot], unit |-> a - c.base] \in Unit
          BY <1>2, <5>4 DEF Unit
        <5>6. y[a] = [card |-> card[c.slot], unit |-> a - c.base]
          BY <2>10, <4>1
        <5> QED
          BY <5>5, <5>6
      <4>2. CASE a - ep \notin 0 .. n - 1
        BY <1>2, <2>10, <4>2
      <4> QED
        BY <4>1, <4>2
    <3> QED
      BY <2>8, <3>1
  <2>12. Ladder(x)
    BY <1>2, <2>2 DEF Good, Ladder, HeldAt
  <2>13. Position(x)
    <3>1. ep + n = x.base + x.pos
      BY <1>3, <1>4, <2>2, <2>7, <2>9
    <3>2. x.ep_addr = (x.base + x.pos) % AddrMod
      BY <2>1, <2>2, <3>1
    <3> QED
      BY <1>4, <2>2, <3>2 DEF Position, Before, After
  <2>14. Placed(x, y, card[x.slot])
    <3>1. ASSUME NEW a \in Addr, a < x.base
          PROVE  y[a] = NULL
      <4>1. a - ep \notin 0 .. n - 1
        BY <1>3, <2>2, <2>7, <2>9, <3>1, Sizes
      <4> QED
        BY <1>2, <2>2, <2>10, <3>1, <4>1 DEF Good, Placed
    <3>2. ASSUME x.ret = "ok", card[x.slot] = x.on, NEW a \in Addr
          PROVE  y[a] = IF a - x.base \in 0 .. DoneUnits(x) - 1
                        THEN [card |-> x.on, unit |-> a - x.base] ELSE NULL
      <4>1. sent[t][a] = IF a - c.base \in 0 .. first - 1
                         THEN [card |-> c.on, unit |-> a - c.base] ELSE NULL
        BY <1>2, <2>2, <2>7, <3>2 DEF Good, Placed
      <4>2. DoneUnits(x) = c.pos
        BY <2>2 DEF DoneUnits
      <4>3. y[a] = IF a - ep \in 0 .. n - 1
                   THEN [card |-> c.on, unit |-> a - c.base] ELSE sent[t][a]
        BY <2>2, <2>10, <3>2
      <4>4. a - c.base \in 0 .. c.pos - 1
              <=> a - c.base \in 0 .. first - 1 \/ a - ep \in 0 .. n - 1
        <5>1. n \in Nat /\ a \in Int /\ c.base \in Int /\ first \in Nat
          BY <1>3, <2>7, Sizes
        <5> QED
          BY <2>7, <2>9, <5>1, NextUnits
      <4> QED
        BY <2>2, <4>1, <4>2, <4>3, <4>4
    <3> QED
      BY <1>2, <2>2, <3>1, <3>2 DEF Good, Placed, Before
  <2>15. Good(x, y, card[x.slot])
    BY <2>12, <2>13, <2>14 DEF Good
  <2>16. "sym" \in x.held <=> "sym" \in th[t].held
    BY <2>2 DEF c
  <2> QED
    BY <1>2, <2>2, <2>3, <2>4, <2>11, <2>15, <2>16, CallGoesOn
<1>6. CASE Fails(t, "free")
  <2>1. HeldAt(th[t].op, "xfer") = HeldAt(th[t].op, "free")
    BY DEF HeldAt
  <2>2. "xfer" \in PC /\ "free" \in After
    BY DEF PC, Before, After
  <2> QED
    BY <1>1, <1>6, <2>1, <2>2, FailsKeeps
<1> QED
  BY <1>5, <1>6 DEF H2dXfer

LEMMA InitH2D == Init => H2DInv
<1> SUFFICES ASSUME Init PROVE H2DInv
  OBVIOUS
<1>1. World
  BY DEF Init, Life!Init, World, Life!Status, Life!Function
<1>2. \A t \in Thread : ~Busy(t)
  BY DEF Init, Busy
<1>3. Calls
  <2>1. 0 \in 0 .. MaxCards
    BY Sizes
  <2>2. Nowhere \in [Addr -> {NULL} \cup Unit]
    BY DEF Nowhere
  <2> QED
    BY <1>2, <2>1, <2>2 DEF Init, Calls
<1>4. References
  <2>1. Holders = {}
    BY <1>2 DEF Holders
  <2> QED
    BY <2>1, FS_EmptySet DEF Init, References
<1> QED
  BY <1>1, <1>3, <1>4 DEF H2DInv

LEMMA NextH2D ==
  ASSUME IsFiniteSet(Thread), Env = {}, H2DInv, [Next]_vars
  PROVE  H2DInv'
<1>1. CASE SlotsMove
  BY <1>1, SlotsMoveKeeps
<1>2. CASE TurboLoads
  BY <1>2, TurboLoadsKeeps
<1>3. ASSUME NEW t \in Thread, CallStep(t)
      PROVE  H2DInv'
  BY <1>3, CheckSlotKeeps, SymbolGetKeeps, FilpOpenKeeps, VmallocKeeps, ReadChunkKeeps,
     H2dXferKeeps, UnwindKeeps, ReturnKeeps DEF CallStep, PastLock
<1>4. ASSUME NEW t \in Thread, NEW r \in Request, Enter(t, r)
      PROVE  H2DInv'
  BY <1>4, EnterKeeps
<1>5. CASE UNCHANGED vars
  BY <1>5 DEF vars, lifeVars, H2DInv, World, Calls, References, Holders, Busy
<1> QED
  BY <1>1, <1>2, <1>3, <1>4, <1>5 DEF Next

LEMMA H2DInvariant ==
  ASSUME IsFiniteSet(Thread), Env = {}
  PROVE  Spec => []H2DInv
<1>1. H2DInv /\ [Next]_vars => H2DInv'
  BY NextH2D
<1> QED
  BY <1>1, InitH2D, PTL DEF Spec

\* Types; in particular no more references are taken than there are calls.
THEOREM H2DTypeCorrect ==
  ASSUME IsFiniteSet(Thread), Env = {}
  PROVE  Spec => []TypeOK
<1>1. H2DInv => TypeOK
  <2> SUFFICES ASSUME H2DInv PROVE TypeOK
    OBVIOUS
  <2>1. turbo_refs \in 0 .. Cardinality(Thread)
    <3>1. Holders \in SUBSET Thread
      BY DEF Holders
    <3>2. /\ IsFiniteSet(Holders) /\ Cardinality(Holders) <= Cardinality(Thread)
          /\ Cardinality(Thread) \in Nat
      BY <3>1, FS_Subset, FS_CardinalityType
    <3>3. Cardinality(Holders) \in Nat
      BY <3>2, FS_CardinalityType
    <3> QED
      BY <3>2, <3>3 DEF H2DInv, References
  <2>2. \A t \in Thread : Busy(t) => th[t] \in Call
    BY DEF H2DInv, Calls, Busy
  <2> QED
    BY <2>1, <2>2 DEF H2DInv, World, Calls, References, Unit, TypeOK
<1> QED
  BY <1>1, H2DInvariant, PTL

\* A call that has succeeded has put every unit of its source at its own
\* address, on the card its slot check has seen if that is still there,
\* whatever the chunk size, the length and the short reads.
THEOREM H2DDelivered ==
  ASSUME IsFiniteSet(Thread), Env = {}
  PROVE  Spec => []Delivered
<1>1. H2DInv => Delivered
  <2> SUFFICES ASSUME H2DInv, NEW t \in Thread, Succeeded(t),
                      card[th[t].slot] = th[t].on, NEW a \in Addr
               PROVE  sent[t][a] = IF Wanted(t, a)
                                   THEN [card |-> th[t].on, unit |-> a - th[t].base]
                                   ELSE NULL
    BY DEF Delivered
  <2>1. At(t, "done") /\ th[t].ret = "ok"
    BY DEF Succeeded
  <2>2. th[t].pc = "done" /\ Good(th[t], sent[t], card[th[t].slot])
    BY <2>1, AtCall DEF H2DInv
  <2>3. DoneUnits(th[t]) = th[t].size
    BY <2>1, <2>2 DEF Good, Position, After, DoneUnits
  <2> QED
    BY <2>1, <2>2, <2>3 DEF Good, Placed, Wanted
<1> QED
  BY <1>1, H2DInvariant, PTL

\* If no file reaches beyond the last address, none of the addresses below the
\* one requested is written.
THEOREM H2DLowMemSafe ==
  ASSUME IsFiniteSet(Thread), Env = {}
  PROVE  Spec => []LowMemSafe
<1>1. H2DInv => LowMemSafe
  BY DEF H2DInv, Calls, Good, Placed, LowMemSafe
<1> QED
  BY <1>1, H2DInvariant, PTL

\* The sibling module is referenced once by each call that has its symbol, and
\* a call that is done has given everything back.
THEOREM H2DNothingLeaks ==
  ASSUME IsFiniteSet(Thread), Env = {}
  PROVE  Spec => []NothingLeaks
<1>1. H2DInv => NothingLeaks
  <2> SUFFICES ASSUME H2DInv PROVE NothingLeaks
    OBVIOUS
  <2>1. turbo_refs = Cardinality({t \in Thread : Busy(t) /\ "sym" \in th[t].held})
    BY DEF H2DInv, References, Holders
  <2>2. ASSUME NEW t \in Thread, At(t, "done") PROVE th[t].held = {}
    <3>1. Ladder(th[t]) /\ th[t].pc = "done"
      BY <2>2, AtCall DEF H2DInv, Good
    <3> QED
      BY <3>1 DEF Ladder, HeldAt
  <2> QED
    BY <2>1, <2>2 DEF NothingLeaks
<1> QED
  BY <1>1, H2DInvariant, PTL

\* A transfer is asked for only while the sibling module is loaded and held.
THEOREM H2DCallsLoaded ==
  ASSUME IsFiniteSet(Thread), Env = {}
  PROVE  Spec => []CallsLoaded
<1>1. H2DInv => CallsLoaded
  <2> SUFFICES ASSUME H2DInv, NEW t \in Thread, At(t, "xfer")
               PROVE  turbo /\ {"sym", "kbuf"} \subseteq th[t].held
    BY DEF CallsLoaded
  <2>1. Ladder(th[t]) /\ th[t].pc = "xfer" /\ Busy(t)
    BY AtCall DEF H2DInv, Good
  <2>2. {"sym", "kbuf"} \subseteq th[t].held
    BY <2>1 DEF Ladder, HeldAt
  <2>3. t \in Holders
    BY <2>1, <2>2 DEF Holders
  <2> QED
    BY <2>2, <2>3 DEF H2DInv, References
<1> QED
  BY <1>1, H2DInvariant, PTL
=============================================================================
