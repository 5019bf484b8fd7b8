---------------------------- MODULE PcieRingProofs ----------------------------
(***************************************************************************)
(* The firmware ring for any number of descriptors and blocks, any word    *)
(* size and image lengths: types, flow control, and the mapping.           *)
(***************************************************************************)
EXTENDS PcieRing, TLAPS

LEMMA ModSmall ==
  ASSUME NEW m \in Nat \ {0}, NEW x \in 0 .. m - 1
  PROVE  x % m = x
  OBVIOUS

LEMMA ModOver ==
  ASSUME NEW m \in Nat \ {0}, NEW x \in 0 .. m - 1
  PROVE  (x + m) % m = x
  OBVIOUS

LEMMA ModUnder ==
  ASSUME NEW m \in Nat \ {0}, NEW x \in 0 .. m - 1
  PROVE  (x - m) % m = x
  OBVIOUS

LEMMA Remainder ==
  ASSUME NEW a \in Int, NEW m \in Nat \ {0}
  PROVE  a % m \in 0 .. m - 1
  OBVIOUS

LEMMA Sizes ==
  /\ Num \in Nat \ {0} /\ MaxBlk \in Nat \ {0} /\ MapMax \in Nat \ {0}
  /\ WordMod \in Nat \ {0} /\ WordMod > 2 * Num /\ WordMod > MaxBlk + 1
  /\ Num \in Word /\ MaxBlk \in Word /\ AllOnes \in Word /\ 0 \in Word /\ 1 \in Word
  BY RingAssumption DEF Word, AllOnes

\* Words are added and subtracted with at most one wrap.
LEMMA PlusIs ==
  ASSUME NEW a \in Word, NEW b \in Word
  PROVE  /\ Plus(a, b) \in Word
         /\ Plus(a, b) = IF a + b < WordMod THEN a + b ELSE a + b - WordMod
<1>m. WordMod \in Nat \ {0} /\ a \in Int /\ b \in Int
  BY Sizes DEF Word
<1>1. CASE a + b < WordMod
  <2>1. a + b \in 0 .. WordMod - 1
    BY <1>1, <1>m DEF Word
  <2> QED
    BY <1>1, <1>m, <2>1, ModSmall DEF Plus, Word
<1>2. CASE ~(a + b < WordMod)
  <2>1. (a + b) - WordMod \in 0 .. WordMod - 1
    BY <1>2, <1>m DEF Word
  <2>2. (((a + b) - WordMod) + WordMod) % WordMod = (a + b) - WordMod
    BY <1>m, <2>1, ModOver
  <2>3. ((a + b) - WordMod) + WordMod = a + b
    BY <1>m
  <2> QED
    BY <1>2, <1>m, <2>1, <2>2, <2>3 DEF Plus, Word
<1> QED
  BY <1>1, <1>2

LEMMA MinusIs ==
  ASSUME NEW a \in Word, NEW b \in Word
  PROVE  /\ Minus(a, b) \in Word
         /\ Minus(a, b) = IF a >= b THEN a - b ELSE a - b + WordMod
<1>m. WordMod \in Nat \ {0} /\ a \in Int /\ b \in Int
  BY Sizes DEF Word
<1>1. CASE a >= b
  <2>1. a - b \in 0 .. WordMod - 1
    BY <1>1, <1>m DEF Word
  <2> QED
    BY <1>1, <1>m, <2>1, ModSmall DEF Minus, Word
<1>2. CASE ~(a >= b)
  <2>1. (a - b) + WordMod \in 0 .. WordMod - 1
    BY <1>2, <1>m DEF Word
  <2>2. (((a - b) + WordMod) - WordMod) % WordMod = (a - b) + WordMod
    BY <1>m, <2>1, ModUnder
  <2>3. ((a - b) + WordMod) - WordMod = a - b
    BY <1>m
  <2> QED
    BY <1>2, <1>m, <2>1, <2>2, <2>3 DEF Minus, Word
<1> QED
  BY <1>1, <1>2

(***************************************************************************)
(* Types.  Beside TypeOK: what a request in progress knows of the card is  *)
(* true as long as the card is there, and it posts only chunks that exist. *)
(***************************************************************************)
Starting == {"ready", "init", "init_blk", "init_avail"}
Polling == {"poll", "poll_num", "poll_avail"}
Posting == {"wait", "desc", "copy", "publish"} \cup Polling

CardKnown ==
  /\ ~gone /\ pc \in Posting \cup {"init_blk", "init_avail"} => ctx.num = Num
  /\ ~gone /\ pc \in Posting \cup {"init_avail"} => ctx.max_blk = MaxBlk

ChunkLeft == pc = "copy" => pos < Chunks[img]

TypeInv == TypeOK /\ CardKnown /\ ChunkLeft

LEMMA InitType == Init => TypeInv
<1> SUFFICES ASSUME Init PROVE TypeInv
  OBVIOUS
<1>1. avail \in Word
  BY Sizes, PlusIs DEF Init
<1>2. NoCtx \in [num : Word, max_blk : Word, cur_avail : Word, cur_blk : Word]
  BY Sizes DEF NoCtx
<1>3. NoDesc \in Desc
  BY Sizes DEF NoDesc, Desc
<1>4. desc \in [0 .. Num - 1 -> Desc] /\ blk \in [0 .. MaxBlk - 1 -> Chunk \cup {NULL}]
  BY <1>3 DEF Init
<1>5. mem \in [Chunk -> Chunk \cup {NULL}] /\ set \in [Image -> {"no", "whole", "torn"}]
  BY DEF Init
<1>6. /\ img \in Image /\ pos \in Nat /\ attempts \in Nat
      /\ polled \in [used : Word, num : Word, avail : Word]
  BY Sizes DEF Init, Image, NoPoll
<1>7. TypeOK
  BY <1>1, <1>2, <1>4, <1>5, <1>6 DEF Init, TypeOK
<1> QED
  BY <1>7 DEF Init, TypeInv, CardKnown, ChunkLeft, Posting, Polling

LEMMA ReadIsWord ==
  ASSUME NEW w \in Word
  PROVE  pcie_ring_r32(w) \in Word
  BY Sizes DEF pcie_ring_r32

LEMMA FailType ==
  ASSUME TypeInv, Fail
  PROVE  TypeInv'
  BY DEF TypeInv, TypeOK, CardKnown, ChunkLeft, Fail, ringVars, epVars, Posting, Polling

LEMMA ReadyType ==
  ASSUME TypeInv, pcie_ring_wait_ep_ready
  PROVE  TypeInv'
<1>1. CASE TimedOut
  BY <1>1, FailType DEF TimedOut
<1>2. CASE ~TimedOut
  BY <1>2 DEF TypeInv, TypeOK, CardKnown, ChunkLeft, pcie_ring_wait_ep_ready,
              ringVars, epVars, Posting, Polling
<1> QED
  BY <1>1, <1>2

LEMMA CtxType ==
  ASSUME TypeInv, pcie_ring_ctx_init
  PROVE  TypeInv'
<1>1. CASE Fail
  BY <1>1, FailType
<1>w. pcie_ring_r32(Num) \in Word /\ pcie_ring_r32(MaxBlk) \in Word /\ pcie_ring_r32(avail) \in Word
  <2>1. avail \in Word
    BY DEF TypeInv, TypeOK
  <2> QED
    BY <2>1, Sizes, ReadIsWord
<1>2. CASE CtxNum /\ ~Fail
  <2>1. /\ ctx' = [NoCtx EXCEPT !.num = pcie_ring_r32(Num)] /\ pc' = "init_blk"
        /\ UNCHANGED <<img, pos, polled, attempts, ringVars, epVars, gone, oob>>
    BY <1>2 DEF CtxNum
  <2>2. ctx'.num = pcie_ring_r32(Num)
    BY <2>1 DEF NoCtx
  <2>3. ctx' \in [num : Word, max_blk : Word, cur_avail : Word, cur_blk : Word]
    BY <1>w, <2>1, Sizes DEF NoCtx
  <2>4. CardKnown' /\ ChunkLeft'
    BY <2>1, <2>2 DEF CardKnown, ChunkLeft, pcie_ring_r32, Posting, Polling
  <2> QED
    BY <2>1, <2>3, <2>4 DEF TypeInv, TypeOK, ringVars, epVars
<1>3. CASE CtxMaxBlk /\ ~Fail
  <2>1. /\ pc = "init_blk" /\ pc' = "init_avail"
        /\ ctx' = [ctx EXCEPT !.max_blk = pcie_ring_r32(MaxBlk)]
        /\ UNCHANGED <<img, pos, polled, attempts, ringVars, epVars, gone, oob>>
    BY <1>3 DEF CtxMaxBlk
  <2>2. /\ ctx' \in [num : Word, max_blk : Word, cur_avail : Word, cur_blk : Word]
        /\ ctx'.num = ctx.num /\ ctx'.max_blk = pcie_ring_r32(MaxBlk)
    BY <1>w, <2>1 DEF TypeInv, TypeOK
  <2>3. CardKnown' /\ ChunkLeft'
    BY <2>1, <2>2 DEF TypeInv, CardKnown, ChunkLeft, pcie_ring_r32, Posting, Polling
  <2> QED
    BY <2>1, <2>2, <2>3 DEF TypeInv, TypeOK, ringVars, epVars
<1>4. CASE CtxAvail
  <2>1. /\ pc = "init_avail" /\ pc' = "wait" /\ pos' = 0
        /\ ctx' = [ctx EXCEPT !.cur_avail = Minus(pcie_ring_r32(avail), ctx.num)]
        /\ UNCHANGED <<img, polled, attempts, ringVars, epVars, gone, oob>>
    BY <1>4 DEF CtxAvail
  <2>2. ctx.num \in Word
    BY DEF TypeInv, TypeOK
  <2>3. Minus(pcie_ring_r32(avail), ctx.num) \in Word
    BY <1>w, <2>2, MinusIs
  <2>4. /\ ctx' \in [num : Word, max_blk : Word, cur_avail : Word, cur_blk : Word]
        /\ ctx'.num = ctx.num /\ ctx'.max_blk = ctx.max_blk
    BY <2>1, <2>3 DEF TypeInv, TypeOK
  <2>5. CardKnown' /\ ChunkLeft'
    BY <2>1, <2>4 DEF TypeInv, CardKnown, ChunkLeft, Posting, Polling
  <2> QED
    BY <2>1, <2>4, <2>5 DEF TypeInv, TypeOK, ringVars, epVars
<1> QED
  BY <1>1, <1>2, <1>3, <1>4 DEF pcie_ring_ctx_init

LEMMA PostWaitType ==
  ASSUME TypeInv, PostWait
  PROVE  TypeInv'
<1>1. CASE Fail
  BY <1>1, FailType
<1>2. CASE ~Fail
  BY <1>2 DEF TypeInv, TypeOK, CardKnown, ChunkLeft, PostWait, TimedOut,
              ringVars, epVars, Posting, Polling
<1> QED
  BY <1>1, <1>2

\* A chunk that is left to post is one of its image.
LEMMA NextChunk ==
  ASSUME TypeInv, Data
  PROVE  <<img, pos>> \in Chunk
<1>1. img \in Image /\ pos \in Nat /\ Chunks[img] \in Nat
  BY RingAssumption DEF TypeInv, TypeOK
<1>2. pos \in 0 .. Chunks[img] - 1
  BY <1>1 DEF Data
<1>3. <<img, pos>> \in {img} \X (0 .. Chunks[img] - 1)
  BY <1>2
<1> QED
  BY <1>1, <1>3 DEF Chunk

LEMMA PostDescType ==
  ASSUME TypeInv, PostDesc
  PROVE  TypeInv'
<1> DEFINE b == IF gone THEN 0 ELSE ctx.cur_blk % ctx.max_blk
<1>1. b \in 0 .. MaxBlk - 1
  <2>1. CASE gone
    BY <2>1, Sizes
  <2>2. CASE ~gone
    <3>1. ctx.max_blk = MaxBlk
      BY <2>2 DEF TypeInv, CardKnown, PostDesc, Posting, Polling
    <3>2. ctx.cur_blk \in Int
      BY DEF TypeInv, TypeOK, Word
    <3> QED
      BY <2>2, <3>1, <3>2, Sizes, Remainder
  <2> QED
    BY <2>1, <2>2
<1>2. ASSUME NEW d \in Desc, pcie_ring_desc(d)
      PROVE  desc' \in [0 .. Num - 1 -> Desc]
  BY <1>2 DEF pcie_ring_desc, TypeInv, TypeOK
<1>3. /\ UNCHANGED <<img, pos, ctx, polled, attempts, used, blk, epVars, gone, oob>>
      /\ pc = "desc" /\ pc' \in {"copy", "publish"} /\ (pc' = "copy" => Data)
  BY DEF PostDesc
<1>4. desc' \in [0 .. Num - 1 -> Desc]
  <2>1. CASE Data
    <3> DEFINE d == [cmd |-> "DATA", chunk |-> <<img, pos>>, img |-> NULL, blk |-> b]
    <3>1. d \in Desc
      BY <1>1, <2>1, NextChunk DEF Desc
    <3>2. pcie_ring_desc(d)
      BY <2>1 DEF PostDesc
    <3> QED
      BY <1>2, <3>1, <3>2
  <2>2. CASE ~Data
    <3> DEFINE d == [cmd |-> "SET", chunk |-> NULL, img |-> img, blk |-> 0]
    <3>1. d \in Desc
      BY Sizes DEF Desc, TypeInv, TypeOK
    <3>2. pcie_ring_desc(d)
      BY <2>2 DEF PostDesc
    <3> QED
      BY <1>2, <3>1, <3>2
  <2> QED
    BY <2>1, <2>2
<1>5. CardKnown' /\ ChunkLeft'
  BY <1>3 DEF TypeInv, CardKnown, ChunkLeft, Data, Posting, Polling
<1> QED
  BY <1>3, <1>4, <1>5 DEF TypeInv, TypeOK, epVars

LEMMA PostCopyType ==
  ASSUME TypeInv, PostCopy
  PROVE  TypeInv'
<1> DEFINE b == ctx.cur_blk % ctx.max_blk
<1>1. <<img, pos>> \in Chunk
  BY NextChunk DEF TypeInv, ChunkLeft, PostCopy, Data
<1>2. blk' \in [0 .. MaxBlk - 1 -> Chunk \cup {NULL}]
  BY <1>1 DEF TypeInv, TypeOK, PostCopy
<1>3. /\ UNCHANGED <<img, pos, polled, attempts, used, desc, epVars, gone>>
      /\ pc = "copy" /\ pc' = "publish" /\ oob' \in BOOLEAN
      /\ ctx' = [ctx EXCEPT !.cur_blk = Plus(@, 1)]
  BY DEF PostCopy, TypeInv, TypeOK
<1>4. Plus(ctx.cur_blk, 1) \in Word
  BY Sizes, PlusIs DEF TypeInv, TypeOK
<1>5. /\ ctx' \in [num : Word, max_blk : Word, cur_avail : Word, cur_blk : Word]
      /\ ctx'.num = ctx.num /\ ctx'.max_blk = ctx.max_blk
  BY <1>3, <1>4 DEF TypeInv, TypeOK
<1>6. CardKnown' /\ ChunkLeft'
  BY <1>3, <1>5 DEF TypeInv, CardKnown, ChunkLeft, Posting, Polling
<1> QED
  BY <1>2, <1>3, <1>5, <1>6 DEF TypeInv, TypeOK, epVars

LEMMA PublishType ==
  ASSUME TypeInv, PostPublish
  PROVE  TypeInv'
<1>1. Plus(used, 1) \in Word /\ Plus(ctx.cur_avail, 1) \in Word
  BY Sizes, PlusIs DEF TypeInv, TypeOK
<1>2. used' \in Word
  BY <1>1 DEF PostPublish, TypeInv, TypeOK
<1>3. /\ ctx' \in [num : Word, max_blk : Word, cur_avail : Word, cur_blk : Word]
      /\ ctx'.num = ctx.num /\ ctx'.max_blk = ctx.max_blk
  BY <1>1 DEF PostPublish, TypeInv, TypeOK
<1>4. /\ UNCHANGED <<img, polled, attempts, desc, blk, epVars, gone, oob>>
      /\ pc = "publish" /\ pc' \in {"wait", "poll"} /\ pos' \in Nat
  BY DEF PostPublish, TypeInv, TypeOK
<1>5. CardKnown' /\ ChunkLeft'
  BY <1>3, <1>4 DEF TypeInv, CardKnown, ChunkLeft, Posting, Polling
<1> QED
  BY <1>2, <1>3, <1>4, <1>5 DEF TypeInv, TypeOK, epVars

LEMMA PollType ==
  ASSUME TypeInv, pcie_ring_xfer_poll
  PROVE  TypeInv'
<1>1. CASE PollTimedOut
  BY <1>1, FailType DEF PollTimedOut, TimedOut
<1>w. pcie_ring_r32(Num) \in Word /\ pcie_ring_r32(used) \in Word /\ pcie_ring_r32(avail) \in Word
  <2>1. avail \in Word /\ used \in Word
    BY DEF TypeInv, TypeOK
  <2> QED
    BY <2>1, Sizes, ReadIsWord
<1>2. CASE PollUsed
  <2>1. polled' \in [used : Word, num : Word, avail : Word]
    BY <1>2, <1>w, Sizes DEF PollUsed, NoPoll
  <2> QED
    BY <1>2, <2>1 DEF PollUsed, TypeInv, TypeOK, CardKnown, ChunkLeft, ringVars, epVars,
                      Posting, Polling
<1>3. CASE PollNum
  <2>1. polled' \in [used : Word, num : Word, avail : Word]
    BY <1>3, <1>w DEF PollNum, TypeInv, TypeOK
  <2> QED
    BY <1>3, <2>1 DEF PollNum, TypeInv, TypeOK, CardKnown, ChunkLeft, ringVars, epVars,
                      Posting, Polling
<1>4. CASE PollAvail
  <2>1. /\ pc = "poll_avail" /\ pc' \in {"poll", "done", "init"}
        /\ img' \in {img, img + 1} /\ (img = 3 => img' = img)
        /\ UNCHANGED <<pos, ctx, attempts, ringVars, epVars, gone, oob>>
    BY <1>4 DEF PollAvail
  <2>2. polled' \in [used : Word, num : Word, avail : Word]
    <3>1. NoPoll \in [used : Word, num : Word, avail : Word]
      BY Sizes DEF NoPoll
    <3>2. [polled EXCEPT !.avail = pcie_ring_r32(avail)] \in [used : Word, num : Word, avail : Word]
      BY <1>w DEF TypeInv, TypeOK
    <3>3. polled' = NoPoll \/ polled' = [polled EXCEPT !.avail = pcie_ring_r32(avail)]
      BY <1>4 DEF PollAvail
    <3> QED
      BY <3>1, <3>2, <3>3
  <2>3. img' \in Image
    BY <2>1 DEF Image, TypeInv, TypeOK
  <2>4. CardKnown' /\ ChunkLeft'
    BY <2>1 DEF TypeInv, CardKnown, ChunkLeft, Posting, Polling
  <2> QED
    BY <2>1, <2>2, <2>3, <2>4 DEF TypeInv, TypeOK, ringVars, epVars
<1> QED
  BY <1>1, <1>2, <1>3, <1>4 DEF pcie_ring_xfer_poll

LEMMA EndpointType ==
  ASSUME TypeInv, Endpoint
  PROVE  TypeInv'
<1> DEFINE next == Minus(avail, Num)
           d == desc[next % Num]
<1>1. UNCHANGED <<hostVars, ringVars, map_blk, gone, oob>> /\ avail' = Plus(avail, 1)
  BY DEF Endpoint
<1>2. avail' \in Word
  BY <1>1, Sizes, PlusIs DEF TypeInv, TypeOK
<1>3. d \in Desc
  <2>1. next \in Int
    BY Sizes, MinusIs DEF TypeInv, TypeOK, Word
  <2>2. next % Num \in 0 .. Num - 1
    BY <2>1, Sizes, Remainder
  <2> QED
    BY <2>2 DEF TypeInv, TypeOK
<1>4. blk[d.blk] \in Chunk \cup {NULL}
  BY <1>3 DEF Desc, TypeInv, TypeOK
<1>5. mem' \in [Chunk -> Chunk \cup {NULL}]
  BY <1>4 DEF Endpoint, TypeInv, TypeOK
<1>6. set' \in [Image -> {"no", "whole", "torn"}]
  BY DEF Endpoint, TypeInv, TypeOK
<1>7. CardKnown' /\ ChunkLeft'
  BY <1>1 DEF TypeInv, CardKnown, ChunkLeft, hostVars
<1> QED
  BY <1>1, <1>2, <1>5, <1>6, <1>7 DEF TypeInv, TypeOK, hostVars, ringVars

LEMMA NextType == TypeInv /\ [Next]_vars => TypeInv'
<1> SUFFICES ASSUME TypeInv, [Next]_vars PROVE TypeInv'
  OBVIOUS
<1>1. CASE Host
  BY <1>1, ReadyType, CtxType, PostWaitType, PostDescType, PostCopyType,
     PublishType, PollType DEF Host
<1>2. CASE Retry
  BY <1>2 DEF Retry, TypeInv, TypeOK, CardKnown, ChunkLeft, ringVars, epVars, Posting, Polling, Image
<1>3. CASE Endpoint
  BY <1>3, EndpointType
<1>4. CASE Vanish
  BY <1>4 DEF Vanish, TypeInv, TypeOK, CardKnown, ChunkLeft, hostVars, ringVars, epVars
<1>5. CASE UNCHANGED vars
  BY <1>5 DEF vars, TypeInv, TypeOK, CardKnown, ChunkLeft
<1> QED
  BY <1>1, <1>2, <1>3, <1>4, <1>5 DEF Next

LEMMA TypeInvariant == Spec => []TypeInv
<1> QED
  BY InitType, NextType, PTL DEF Spec

\* The words of the ring stay words, descriptors name existing chunks and
\* blocks, and the counters of struct pcie_ring_ctx wrap with them, whatever
\* faults occur and however often the request is retried.
THEOREM RingTypeCorrect == Spec => []TypeOK
<1>1. TypeInv => TypeOK
  BY DEF TypeInv
<1> QED
  BY <1>1, TypeInvariant, PTL

(***************************************************************************)
(* Bounds.  While the card is there the size check has seen its max_blk.   *)
(***************************************************************************)
BoundInv ==
  /\ TypeInv /\ ~gone /\ ~oob
  /\ pc \in Posting \cup {"init_avail"} => MaxBlk + 1 <= map_blk

LEMMA CopyBound ==
  ASSUME BoundInv, PostCopy
  PROVE  ~oob'
<1> DEFINE b == ctx.cur_blk % ctx.max_blk
<1>1. ctx.max_blk = MaxBlk /\ MaxBlk + 1 <= map_blk
  BY DEF BoundInv, TypeInv, CardKnown, PostCopy, Posting, Polling
<1>2. ctx.cur_blk \in Int /\ map_blk \in Int
  BY DEF BoundInv, TypeInv, TypeOK, Word
<1>3. b \in 0 .. MaxBlk - 1
  BY <1>1, <1>2, Sizes, Remainder
<1>4. ~(b + 1 >= map_blk)
  BY <1>1, <1>2, <1>3, Sizes
<1> QED
  BY <1>4 DEF PostCopy, BoundInv

LEMMA SizeCheck ==
  ASSUME BoundInv, CtxMaxBlk, ~Fail
  PROVE  MaxBlk + 1 <= map_blk
<1>1. ~MapTooSmall(MaxBlk)
  BY DEF CtxMaxBlk, pcie_ring_r32, BoundInv
<1>2. Plus(MaxBlk, 1) = MaxBlk + 1
  BY Sizes, PlusIs
<1>3. map_blk \in Int
  BY DEF BoundInv, TypeInv, TypeOK
<1> QED
  BY <1>1, <1>2, <1>3, Sizes DEF MapTooSmall

LEMMA NextBound ==
  ASSUME "vanish" \notin Faults, BoundInv, [Next]_vars
  PROVE  BoundInv'
<1>1. TypeInv'
  BY NextType DEF BoundInv
<1>2. ~gone' /\ map_blk' = map_blk
  BY DEF BoundInv, Next, Host, Retry, Endpoint, Vanish, vars, hostVars, ringVars, epVars,
         pcie_ring_wait_ep_ready, pcie_ring_ctx_init, CtxNum, CtxMaxBlk, CtxAvail, PostWait,
         PostDesc, PostCopy, PostPublish, pcie_ring_xfer_poll, PollUsed, PollNum, PollAvail,
         PollTimedOut, TimedOut, Fail
<1>3. ~oob'
  <2>1. CASE PostCopy
    BY <2>1, CopyBound
  <2>2. CASE ~PostCopy
    BY <2>2 DEF BoundInv, Next, Host, Retry, Endpoint, Vanish, vars, hostVars, ringVars,
           epVars, pcie_ring_wait_ep_ready, pcie_ring_ctx_init, CtxNum, CtxMaxBlk, CtxAvail,
           PostWait, PostDesc, PostPublish, pcie_ring_xfer_poll, PollUsed, PollNum,
           PollAvail, PollTimedOut, TimedOut, Fail
  <2> QED
    BY <2>1, <2>2
<1>4. pc' \in Posting \cup {"init_avail"} => MaxBlk + 1 <= map_blk
  <2>1. CASE Fail
    BY <2>1 DEF Fail, Posting, Polling
  <2>2. CASE CtxMaxBlk /\ ~Fail
    BY <2>2, SizeCheck
  <2>3. CASE ~CtxMaxBlk /\ ~Fail
    BY <2>3 DEF BoundInv, Next, Host, Retry, Endpoint, Vanish, vars, hostVars,
           pcie_ring_wait_ep_ready, pcie_ring_ctx_init, CtxNum, CtxAvail, PostWait, PostDesc,
           PostCopy, PostPublish, pcie_ring_xfer_poll, PollUsed, PollNum, PollAvail,
           PollTimedOut, TimedOut, Posting, Polling
  <2> QED
    BY <2>1, <2>2, <2>3
<1> QED
  BY <1>1, <1>2, <1>3, <1>4 DEF BoundInv

\* On a card that stays on the bus every data block that the host writes lies
\* inside the mapping, for any max_blk, any length of the BAR and any sequence
\* of failures and retries: what pcie_ring_ctx_init has checked holds for the
\* whole image.
THEOREM RingInBounds ==
  ASSUME "vanish" \notin Faults
  PROVE  Spec => []InBounds
<1>1. Init => BoundInv
  BY InitType DEF Init, BoundInv, Posting, Polling
<1>2. BoundInv /\ [Next]_vars => BoundInv'
  BY NextBound
<1>3. BoundInv => InBounds
  BY DEF BoundInv, InBounds
<1> QED
  BY <1>1, <1>2, <1>3, PTL DEF Spec

(***************************************************************************)
(* Flow control: the host's view of the ring is the ring.                  *)
(***************************************************************************)
Outstanding == Minus(used, Minus(avail, Num))

FlowInv ==
  /\ Outstanding <= Num
  /\ ~gone /\ pc \in Starting => used = Minus(avail, Num)
  /\ ~gone /\ pc \in {"desc", "copy", "publish"} => Outstanding < Num
  /\ ~gone /\ pc \in Posting => ctx.cur_avail = used
  /\ ~gone /\ pc \in {"poll_num", "poll_avail"} => polled.used = used
  /\ ~gone /\ pc = "poll_avail" => polled.num = Num

\* One more descriptor is outstanding, across the wrap of used.
LEMMA PublishCounts ==
  ASSUME NEW u \in Word, NEW n \in Word, Minus(u, n) < Num
  PROVE  Minus(Plus(u, 1), n) = Minus(u, n) + 1
<1>1. Plus(u, 1) \in Word /\ Plus(u, 1) = IF u + 1 < WordMod THEN u + 1 ELSE u + 1 - WordMod
  BY Sizes, PlusIs
<1>2. Minus(u, n) = IF u >= n THEN u - n ELSE u - n + WordMod
  BY MinusIs
<1>3. Minus(Plus(u, 1), n) = IF Plus(u, 1) >= n THEN Plus(u, 1) - n ELSE Plus(u, 1) - n + WordMod
  BY <1>1, MinusIs
<1>s. Num \in Nat \ {0} /\ WordMod \in Nat /\ WordMod > 2 * Num
  BY Sizes
<1> QED
  BY <1>1, <1>2, <1>3, <1>s DEF Word

\* One less, across the wrap of avail.
LEMMA ConsumeCounts ==
  ASSUME NEW u \in Word, NEW n \in Word, u # n
  PROVE  Minus(u, Plus(n, 1)) = Minus(u, n) - 1
<1>1. Plus(n, 1) \in Word /\ Plus(n, 1) = IF n + 1 < WordMod THEN n + 1 ELSE n + 1 - WordMod
  BY Sizes, PlusIs
<1>2. Minus(u, n) = IF u >= n THEN u - n ELSE u - n + WordMod
  BY MinusIs
<1>3. Minus(u, Plus(n, 1)) = IF u >= Plus(n, 1) THEN u - Plus(n, 1) ELSE u - Plus(n, 1) + WordMod
  BY <1>1, MinusIs
<1>s. Num \in Nat \ {0} /\ WordMod \in Nat /\ WordMod > 2 * Num
  BY Sizes
<1> QED
  BY <1>1, <1>2, <1>3, <1>s DEF Word

LEMMA ConsumeNext ==
  ASSUME NEW a \in Word
  PROVE  Minus(Plus(a, 1), Num) = Plus(Minus(a, Num), 1)
<1>1. Plus(a, 1) \in Word /\ Plus(a, 1) = IF a + 1 < WordMod THEN a + 1 ELSE a + 1 - WordMod
  BY Sizes, PlusIs
<1>2. Minus(a, Num) \in Word /\ Minus(a, Num) = IF a >= Num THEN a - Num ELSE a - Num + WordMod
  BY Sizes, MinusIs
<1>3. Minus(Plus(a, 1), Num) = IF Plus(a, 1) >= Num THEN Plus(a, 1) - Num ELSE Plus(a, 1) - Num + WordMod
  BY <1>1, Sizes, MinusIs
<1>4. Plus(Minus(a, Num), 1) = IF Minus(a, Num) + 1 < WordMod THEN Minus(a, Num) + 1 ELSE Minus(a, Num) + 1 - WordMod
  BY <1>2, Sizes, PlusIs
<1>s. Num \in Nat \ {0} /\ WordMod \in Nat /\ WordMod > 2 * Num
  BY Sizes
<1> QED
  BY <1>1, <1>2, <1>3, <1>4, <1>s DEF Word

\* What the host waits for in front of a descriptor: the ring is not full.
LEMMA FullIs ==
  ASSUME NEW u \in Word, NEW a \in Word
  PROVE  Minus(u, Minus(a, Num)) = Num <=> u = a
<1>1. Minus(a, Num) \in Word /\ Minus(a, Num) = IF a >= Num THEN a - Num ELSE a - Num + WordMod
  BY Sizes, MinusIs
<1>2. Minus(u, Minus(a, Num)) = IF u >= Minus(a, Num) THEN u - Minus(a, Num) ELSE u - Minus(a, Num) + WordMod
  BY <1>1, MinusIs
<1>s. Num \in Nat \ {0} /\ WordMod \in Nat /\ WordMod > 2 * Num
  BY Sizes
<1> QED
  BY <1>1, <1>2, <1>s DEF Word

\* What the final poll compares: the ring is empty.
LEMMA EmptyIs ==
  ASSUME NEW u \in Word, NEW a \in Word
  PROVE  /\ Plus(u, Num) = a <=> u = Minus(a, Num)
         /\ Minus(u, Minus(a, Num)) = 0 <=> u = Minus(a, Num)
<1>1. Minus(a, Num) \in Word /\ Minus(a, Num) = IF a >= Num THEN a - Num ELSE a - Num + WordMod
  BY Sizes, MinusIs
<1>2. Minus(u, Minus(a, Num)) = IF u >= Minus(a, Num) THEN u - Minus(a, Num) ELSE u - Minus(a, Num) + WordMod
  BY <1>1, MinusIs
<1>3. Plus(u, Num) = IF u + Num < WordMod THEN u + Num ELSE u + Num - WordMod
  BY Sizes, PlusIs
<1>s. Num \in Nat \ {0} /\ WordMod \in Nat /\ WordMod > 2 * Num
  BY Sizes
<1> QED
  BY <1>1, <1>2, <1>3, <1>s DEF Word

LEMMA OutstandingNat ==
  ASSUME TypeOK
  PROVE  Outstanding \in Nat /\ Minus(avail, Num) \in Word /\ used \in Word /\ avail \in Word
<1>1. Minus(avail, Num) \in Word /\ used \in Word /\ avail \in Word
  BY Sizes, MinusIs DEF TypeOK
<1> QED
  BY <1>1, MinusIs DEF Outstanding, Word

LEMMA InitFlow == Init => FlowInv
<1> SUFFICES ASSUME Init PROVE FlowInv
  OBVIOUS
<1>1. used \in Word /\ avail \in Word /\ Plus(used, Num) = avail
  BY Sizes, PlusIs DEF Init
<1>2. used = Minus(avail, Num) /\ Outstanding = 0
  BY <1>1, EmptyIs DEF Outstanding
<1> QED
  BY <1>2, Sizes DEF Init, FlowInv, Starting, Posting, Polling

\* The steps that neither publish nor consume.
LEMMA StillFlow ==
  ASSUME FlowInv, UNCHANGED <<avail, used, ctx, polled>>, gone => gone',
         pc' \in {pc, "failed"} \/ gone'
  PROVE  FlowInv'
BY DEF FlowInv, Outstanding, Starting, Posting, Polling

LEMMA CtxFlow ==
  ASSUME TypeInv, FlowInv, pcie_ring_ctx_init
  PROVE  FlowInv'
<1>1. CASE Fail
  BY <1>1, StillFlow DEF Fail, ringVars, epVars
<1>2. CASE (CtxNum \/ CtxMaxBlk) /\ ~Fail
  <2>1. /\ pc \in {"init", "init_blk"} /\ pc' \in {"init_blk", "init_avail"}
        /\ UNCHANGED <<ringVars, epVars, gone>>
    BY <1>2 DEF CtxNum, CtxMaxBlk
  <2> QED
    BY <2>1 DEF FlowInv, Outstanding, Starting, Posting, Polling, ringVars, epVars
<1>3. CASE CtxAvail
  <2>1. /\ pc = "init_avail" /\ pc' = "wait" /\ UNCHANGED <<ringVars, epVars, gone>>
        /\ ctx'.cur_avail = Minus(pcie_ring_r32(avail), ctx.num)
    BY <1>3 DEF CtxAvail, TypeInv, TypeOK
  <2>2. ~gone => ctx'.cur_avail = Minus(avail, Num)
    BY <2>1 DEF TypeInv, CardKnown, pcie_ring_r32
  <2> QED
    BY <2>1, <2>2 DEF FlowInv, Outstanding, Starting, Posting, Polling, ringVars, epVars
<1> QED
  BY <1>1, <1>2, <1>3 DEF pcie_ring_ctx_init

LEMMA WaitFlow ==
  ASSUME TypeInv, FlowInv, PostWait
  PROVE  FlowInv'
<1>1. CASE Fail
  BY <1>1, StillFlow DEF Fail, ringVars, epVars
<1>2. CASE ~Fail
  <2>1. /\ pc = "wait" /\ pc' = "desc" /\ RoomFor(ctx.cur_avail)
        /\ UNCHANGED <<img, pos, ctx, polled, attempts, ringVars, epVars, gone, oob>>
    BY <1>2 DEF PostWait, TimedOut
  <2>2. Outstanding \in Nat /\ used \in Word /\ avail \in Word
    BY OutstandingNat DEF TypeInv
  <2>3. ~gone => avail # used
    BY <2>1 DEF FlowInv, Posting, Polling, RoomFor, pcie_ring_r32
  <2>4. ~gone => Outstanding < Num
    BY <2>2, <2>3, FullIs, Sizes DEF FlowInv, Outstanding
  <2> QED
    BY <2>1, <2>4 DEF FlowInv, Outstanding, Starting, Posting, Polling, ringVars, epVars
<1> QED
  BY <1>1, <1>2

LEMMA PublishFlow ==
  ASSUME TypeInv, FlowInv, PostPublish
  PROVE  FlowInv'
<1>1. /\ pc = "publish" /\ pc' \in {"wait", "poll"}
      /\ UNCHANGED <<img, polled, attempts, desc, blk, epVars, gone, oob>>
      /\ used' = IF gone THEN used ELSE Plus(used, 1)
      /\ ctx'.cur_avail = Plus(ctx.cur_avail, 1)
  BY DEF PostPublish, TypeInv, TypeOK
<1>2. CASE gone
  BY <1>1, <1>2 DEF FlowInv, Outstanding, epVars
<1>3. CASE ~gone
  <2>1. Outstanding \in Nat /\ Minus(avail, Num) \in Word /\ used \in Word
    BY OutstandingNat DEF TypeInv
  <2>2. Outstanding' = Outstanding + 1
    BY <1>1, <1>3, <2>1, PublishCounts DEF FlowInv, Outstanding, epVars
  <2>3. Outstanding' <= Num
    BY <1>1, <1>3, <2>1, <2>2, Sizes DEF FlowInv
  <2> QED
    BY <1>1, <1>3, <2>3 DEF FlowInv, Starting, Posting, Polling
<1> QED
  BY <1>2, <1>3

\* While the card is there, a poll that matches has read the ring as it is.
LEMMA MatchDrained ==
  ASSUME TypeInv, FlowInv, pc = "poll_avail", AllConsumed, ~gone
  PROVE  used = Minus(avail, Num)
<1>1. Plus(used, Num) = avail
  BY DEF AllConsumed, pcie_ring_r32, FlowInv
<1> QED
  BY <1>1, OutstandingNat, EmptyIs DEF TypeInv

LEMMA PollFlow ==
  ASSUME TypeInv, FlowInv, pcie_ring_xfer_poll
  PROVE  FlowInv'
<1>1. CASE PollTimedOut
  BY <1>1, StillFlow DEF PollTimedOut, TimedOut, Fail, ringVars, epVars
<1>2. CASE PollUsed
  <2>1. polled'.used = pcie_ring_r32(used)
    BY <1>2 DEF PollUsed, NoPoll
  <2> QED
    BY <1>2, <2>1 DEF PollUsed, FlowInv, Outstanding, Starting, Posting, Polling, ringVars,
                      epVars, pcie_ring_r32
<1>3. CASE PollNum
  <2>1. polled'.used = polled.used /\ polled'.num = pcie_ring_r32(Num)
    BY <1>3 DEF PollNum, TypeInv, TypeOK
  <2> QED
    BY <1>3, <2>1 DEF PollNum, FlowInv, Outstanding, Starting, Posting, Polling, ringVars,
                      epVars, pcie_ring_r32
<1>4. CASE PollAvail
  <2>1. /\ pc = "poll_avail" /\ pc' \in {"poll", "done", "init"}
        /\ (pc' # "poll" => AllConsumed)
        /\ UNCHANGED <<pos, ctx, attempts, ringVars, epVars, gone, oob>>
    BY <1>4 DEF PollAvail
  <2>2. ~gone /\ pc' # "poll" => used = Minus(avail, Num)
    BY <2>1, MatchDrained
  <2> QED
    BY <2>1, <2>2 DEF FlowInv, Outstanding, Starting, Posting, Polling, ringVars, epVars
<1> QED
  BY <1>1, <1>2, <1>3, <1>4 DEF pcie_ring_xfer_poll

LEMMA EndpointFlow ==
  ASSUME TypeInv, FlowInv, Endpoint
  PROVE  FlowInv' /\ Outstanding' = Outstanding - 1
<1>1. /\ UNCHANGED <<hostVars, ringVars, map_blk, gone, oob>> /\ avail' = Plus(avail, 1)
      /\ used # Minus(avail, Num) /\ ~gone
  BY DEF Endpoint
<1>2. Outstanding \in Nat /\ Minus(avail, Num) \in Word /\ used \in Word /\ avail \in Word
  BY OutstandingNat DEF TypeInv
<1>3. Outstanding' = Outstanding - 1
  BY <1>1, <1>2, ConsumeNext, ConsumeCounts DEF Outstanding, ringVars
<1>4. Outstanding' <= Num /\ (Outstanding < Num => Outstanding' < Num)
  BY <1>2, <1>3, Sizes DEF FlowInv
<1> QED
  BY <1>1, <1>3, <1>4 DEF FlowInv, Starting, Posting, Polling, hostVars, ringVars

LEMMA NextFlow ==
  ASSUME Drained, TypeInv, FlowInv, [Next]_vars
  PROVE  FlowInv'
<1>1. CASE pcie_ring_wait_ep_ready
  BY <1>1 DEF pcie_ring_wait_ep_ready, TimedOut, Fail, FlowInv, Outstanding, Starting, Posting, Polling,
              ringVars, epVars
<1>2. CASE pcie_ring_ctx_init
  BY <1>2, CtxFlow
<1>3. CASE PostWait
  BY <1>3, WaitFlow
<1>4. CASE PostDesc
  BY <1>4 DEF PostDesc, FlowInv, Outstanding, Starting, Posting, Polling, epVars
<1>5. CASE PostCopy
  <2>1. ctx'.cur_avail = ctx.cur_avail
    BY <1>5 DEF PostCopy, TypeInv, TypeOK
  <2> QED
    BY <1>5, <2>1 DEF PostCopy, FlowInv, Outstanding, Starting, Posting, Polling, epVars
<1>6. CASE PostPublish
  BY <1>6, PublishFlow
<1>7. CASE pcie_ring_xfer_poll
  BY <1>7, PollFlow
<1>8. CASE Retry
  BY <1>8 DEF Retry, FlowInv, Outstanding, Starting, Posting, Polling, ringVars, epVars
<1>9. CASE Endpoint
  BY <1>9, EndpointFlow
<1>10. CASE Vanish
  BY <1>10 DEF Vanish, FlowInv, Outstanding, hostVars, ringVars, epVars
<1>11. CASE UNCHANGED vars
  BY <1>11 DEF vars, FlowInv, Outstanding
<1> QED
  BY <1>1, <1>2, <1>3, <1>4, <1>5, <1>6, <1>7, <1>8, <1>9, <1>10, <1>11 DEF Next, Host

\* The ring never holds more descriptors than it has room for, and the host's
\* own cur_avail is the used word, across the wrap of both counters and for a
\* ring of any size, if a failed request is retried only when the endpoint
\* has caught up.
THEOREM RingNoOverrun ==
  ASSUME Drained
  PROVE  Spec => []NoOverrun
<1>1. Init => TypeInv /\ FlowInv
  BY InitType, InitFlow
<1>2. TypeInv /\ FlowInv /\ [Next]_vars => TypeInv' /\ FlowInv'
  BY NextType, NextFlow
<1>3. FlowInv => NoOverrun
  BY DEF FlowInv, NoOverrun, Outstanding, Posting, Polling
<1> QED
  BY <1>1, <1>2, <1>3, PTL DEF Spec

(***************************************************************************)
(* Remainders: the places of outstanding items differ.                     *)
(***************************************************************************)
LEMMA Quotient ==
  ASSUME NEW a \in Int, NEW m \in Nat \ {0}
  PROVE  \E q \in Int : a = m * q + (a % m)
<1> WITNESS a \div m \in Int
<1> QED OBVIOUS

LEMMA NoMultiple ==
  ASSUME NEW m \in Nat \ {0}, NEW k \in 1 .. m - 1, NEW z \in Int
  PROVE  k # m * z
<1>1. CASE z <= 0
  <2>1. m * z <= 0
    BY <1>1
  <2> QED
    BY <2>1
<1>2. CASE z >= 1
  <2>1. m * (z - 1) >= 0
    BY <1>2
  <2>2. m * z = m * (z - 1) + m
    OBVIOUS
  <2> QED
    BY <2>1, <2>2
<1> QED
  BY <1>1, <1>2

LEMMA Distribute ==
  ASSUME NEW m \in Int, NEW p \in Int, NEW q \in Int
  PROVE  m * q - m * p = m * (q - p) /\ m * q + m * p = m * (q + p) /\ -(m * q) = m * (-q)
  OBVIOUS

\* Two numbers with the same remainder are apart by a multiple.
LEMMA SameRemainder ==
  ASSUME NEW m \in Nat \ {0}, NEW a \in Int, NEW b \in Int, a % m = b % m
  PROVE  \E z \in Int : a - b = m * z
<1>1. PICK q \in Int : a = m * q + (a % m)
  BY Quotient
<1>2. PICK p \in Int : b = m * p + (b % m)
  BY Quotient
<1> DEFINE r == a % m
           A == m * q
           B == m * p
<1>3. r \in Int /\ A \in Int /\ B \in Int
  OBVIOUS
<1>4. a = A + r /\ b = B + r
  BY <1>1, <1>2
<1>5. A - B = m * (q - p)
  BY Distribute
<1>6. a - b = A - B
  <2> HIDE DEF r, A, B
  <2> QED
    BY <1>3, <1>4
<1> HIDE DEF A, B
<1>7. a - b = m * (q - p) /\ q - p \in Int
  BY <1>5, <1>6
<1> QED
  BY <1>7

LEMMA ModDiffer ==
  ASSUME NEW m \in Nat \ {0}, NEW a \in Int, NEW k \in 1 .. m - 1
  PROVE  (a - k) % m # a % m
<1> SUFFICES ASSUME a % m = (a - k) % m PROVE FALSE
  OBVIOUS
<1>0. a - k \in Int
  OBVIOUS
<1>1. PICK z \in Int : a - (a - k) = m * z
  BY <1>0, SameRemainder
<1>2. a - (a - k) = k
  OBVIOUS
<1> QED
  BY <1>1, <1>2, NoMultiple

\* Remainders do not see a multiple.
LEMMA ModTurn ==
  ASSUME NEW m \in Nat \ {0}, NEW w \in Int, w % m = 0, NEW a \in Int
  PROVE  (a + w) % m = a % m
<1>1. PICK q \in Int : w = m * q
  <2>1. PICK q \in Int : w = m * q + (w % m)
    BY Quotient
  <2>2. w = m * q + 0
    BY <2>1
  <2> QED
    BY <2>2
<1>2. PICK p \in Int : a = m * p + (a % m)
  BY Quotient
<1>0. a + w \in Int
  OBVIOUS
<1>3. PICK t \in Int : a + w = m * t + ((a + w) % m)
  BY <1>0, Quotient
<1> DEFINE r == a % m
           s == (a + w) % m
           P == m * p
           Q == m * q
           T == m * t
<1>4. r \in 0 .. m - 1 /\ s \in 0 .. m - 1
  OBVIOUS
<1>5. P \in Int /\ Q \in Int /\ T \in Int
  OBVIOUS
<1>6. w = Q /\ a = P + r /\ a + w = T + s
  BY <1>1, <1>2, <1>3
<1>7. (P + Q) - T = m * ((p + q) - t)
  <2>1. P + Q = m * (p + q)
    BY Distribute
  <2>2. m * (p + q) - T = m * ((p + q) - t)
    BY Distribute
  <2> QED
    BY <2>1, <2>2
<1>8. T - (P + Q) = m * (t - (p + q))
  <2>1. P + Q = m * (p + q)
    BY Distribute
  <2>2. T - m * (p + q) = m * (t - (p + q))
    BY Distribute
  <2> QED
    BY <2>1, <2>2
<1> HIDE DEF r, s, P, Q, T
<1>9. s - r = (P + Q) - T /\ r - s = T - (P + Q)
  BY <1>4, <1>5, <1>6
<1>10. ~(s - r \in 1 .. m - 1)
  BY <1>7, <1>9, NoMultiple
<1>11. ~(r - s \in 1 .. m - 1)
  BY <1>8, <1>9, NoMultiple
<1>12. r = s
  BY <1>4, <1>10, <1>11
<1> QED
  BY <1>12 DEF r, s

LEMMA SlotsDiffer ==
  ASSUME WordMod % Num = 0, NEW u \in Word, NEW k \in 1 .. Num - 1
  PROVE  Minus(u, k) % Num # u % Num
<1>s. Num \in Nat \ {0} /\ WordMod \in Nat /\ WordMod > 2 * Num /\ WordMod % Num = 0
  BY RingAssumption
<1>1. k \in Word /\ u \in Int /\ k \in Int /\ u - k \in Int
  BY <1>s DEF Word
<1>2. Minus(u, k) = IF u >= k THEN u - k ELSE (u - k) + WordMod
  BY <1>1, MinusIs
<1>3. (u - k) % Num # u % Num
  BY <1>s, <1>1, ModDiffer
<1>4. ((u - k) + WordMod) % Num = (u - k) % Num
  <2> DEFINE a == u - k
  <2>1. a \in Int /\ WordMod \in Int /\ Num \in Nat \ {0}
    BY <1>s, <1>1
  <2> HIDE DEF a
  <2>2. (a + WordMod) % Num = a % Num
    BY <1>s, <2>1, ModTurn
  <2> QED
    BY <2>2 DEF a
<1>5. CASE u >= k
  BY <1>2, <1>3, <1>5
<1>6. CASE ~(u >= k)
  BY <1>2, <1>3, <1>4, <1>6
<1> QED
  BY <1>5, <1>6

\* Seen from the next value of used, an item is one place further behind.
LEMMA OneBehind ==
  ASSUME NEW u \in Word, NEW k \in 0 .. Num
  PROVE  Minus(Plus(u, 1), k + 1) = Minus(u, k)
<1>s. Num \in Nat \ {0} /\ WordMod \in Nat /\ WordMod > 2 * Num
  BY Sizes
<1>1. Plus(u, 1) \in Word /\ Plus(u, 1) = IF u + 1 < WordMod THEN u + 1 ELSE u + 1 - WordMod
  BY Sizes, PlusIs
<1>2. k \in Word /\ k + 1 \in Word
  BY <1>s DEF Word
<1>3. Minus(u, k) = IF u >= k THEN u - k ELSE u - k + WordMod
  BY <1>2, MinusIs
<1>4. Minus(Plus(u, 1), k + 1) =
        IF Plus(u, 1) >= k + 1 THEN Plus(u, 1) - (k + 1) ELSE Plus(u, 1) - (k + 1) + WordMod
  BY <1>1, <1>2, MinusIs
<1> QED
  BY <1>1, <1>2, <1>3, <1>4, <1>s DEF Word

LEMMA MinusMinus ==
  ASSUME NEW u \in Word, NEW n \in Word
  PROVE  Minus(u, 0) = u /\ Minus(u, Minus(u, n)) = n
<1>1. Minus(u, n) \in Word /\ Minus(u, n) = IF u >= n THEN u - n ELSE u - n + WordMod
  BY MinusIs
<1>2. Minus(u, 0) = IF u >= 0 THEN u - 0 ELSE u - 0 + WordMod
  BY Sizes, MinusIs
<1>3. Minus(u, Minus(u, n)) =
        IF u >= Minus(u, n) THEN u - Minus(u, n) ELSE u - Minus(u, n) + WordMod
  BY <1>1, MinusIs
<1> QED
  BY <1>1, <1>2, <1>3, Sizes DEF Word

(***************************************************************************)
(* Delivery.  The items of an image are its chunks, numbered from 0, and   *)
(* then its SET_*_ADDR.  The endpoint has consumed the first m of them;    *)
(* the next Outstanding ones are in the ring, the youngest behind used.    *)
(***************************************************************************)
SlotOf(k) == Minus(used, k) % Num

IsItem(d, j) ==
  IF j < Chunks[img]
  THEN d.cmd = "DATA" /\ d.chunk = <<img, j>> /\ d.blk = j % MaxBlk
  ELSE d.cmd = "SET" /\ d.img = img

Holds(i, j) == IsItem(desc[i], j) /\ (j < Chunks[img] => blk[j % MaxBlk] = <<img, j>>)

Posted == IF pc \in Polling THEN Chunks[img] + 1 ELSE pos

Consumed(m) ==
  /\ pc \in Posting => m + Outstanding = Posted
  /\ m + Outstanding <= Chunks[img] + 1
  /\ \A j \in Nat : j < m /\ j < Chunks[img] => mem[<<img, j>>] = <<img, j>>
  /\ m > Chunks[img] => set[img] = "whole"
  /\ \A k \in 1 .. Outstanding : Holds(SlotOf(k), m + Outstanding - k)

\* The item in the host's hands.
InHand ==
  /\ pc \in {"init_blk", "init_avail"} => ctx.cur_blk = 0
  /\ pc \in Posting => pos <= Chunks[img]
  /\ ~gone /\ pc \in {"wait", "desc", "copy"} => ctx.cur_blk = pos
  /\ ~gone /\ pc = "publish" => ctx.cur_blk = IF Data THEN pos + 1 ELSE pos
  /\ ~gone /\ pc = "copy" => IsItem(desc[used % Num], pos)
  /\ ~gone /\ pc = "publish" => Holds(used % Num, pos)

\* The images in front of the one the host is at.  A poll that has read used
\* from the card knows of them even if the card vanishes before it ends.
Arrived(i) == Whole(i) /\ set[i] = "whole"

EarlierArrived == \A i \in Image : i < img => Arrived(i)

Arrivals ==
  /\ ~gone => EarlierArrived
  /\ pc \in {"poll_num", "poll_avail"} /\ polled.used # AllOnes => EarlierArrived
  /\ pc = "poll_avail" => polled.num \in {Num, AllOnes}
  /\ DeliveredOnSuccess

DeliverInv ==
  /\ TypeInv /\ FlowInv
  /\ MemIntact /\ SetAfterData
  /\ ~gone => \E m \in Nat : Consumed(m)
  /\ InHand /\ Arrivals

\* Retries wait for the endpoint, the ring has a block for every descriptor, the
\* descriptors divide the values of a word evenly, and an image has fewer chunks
\* than a word has values.
DeliverAssumption ==
  /\ Drained /\ Num <= MaxBlk /\ WordMod % Num = 0
  /\ \A i \in Image : Chunks[i] < WordMod

LEMMA ImgLength ==
  ASSUME TypeInv
  PROVE  img \in Image /\ Chunks[img] \in Nat \ {0} /\ pos \in Nat
  BY RingAssumption DEF TypeInv, TypeOK

LEMMA DrainedIs ==
  ASSUME TypeInv
  PROVE  used = Minus(avail, Num) <=> Outstanding = 0
  BY OutstandingNat, EmptyIs DEF TypeInv, Outstanding

\* With nothing outstanding a new image, or a new request, may begin.
LEMMA FreshConsumed ==
  ASSUME TypeInv, Outstanding = 0, pc \in Posting => Posted = 0
  PROVE  Consumed(0)
<1>1. Chunks[img] \in Nat
  BY ImgLength
<1> QED
  BY <1>1 DEF Consumed

\* Steps that leave the ring, the endpoint and the place in the image alone.
LEMMA StillConsumed ==
  ASSUME UNCHANGED <<img, used, avail, desc, blk, mem, set>>,
         NEW m \in Nat, Consumed(m),
         pc' \in Posting => pc \in Posting /\ Posted' = Posted
  PROVE  Consumed(m)'
BY DEF Consumed, Outstanding, Holds, IsItem, SlotOf

LEMMA InitDeliver ==
  ASSUME Init
  PROVE  DeliverInv
<1>1. TypeInv /\ FlowInv
  BY InitType, InitFlow
<1>2. Outstanding = 0
  BY <1>1, DrainedIs DEF Init, FlowInv, Starting
<1>3. Consumed(0)
  BY <1>1, <1>2, FreshConsumed DEF Init, Posting, Polling
<1>4. MemIntact /\ SetAfterData /\ InHand /\ Arrivals
  BY DEF Init, MemIntact, SetAfterData, InHand, Arrivals, EarlierArrived, DeliveredOnSuccess,
         Posting, Polling, Image
<1> QED
  BY <1>1, <1>3, <1>4 DEF DeliverInv

\* A step that leaves the endpoint's memory alone and neither polls nor succeeds.
LEMMA StillArrivals ==
  ASSUME Arrivals, UNCHANGED <<img, mem, set, gone>>,
         pc' \notin {"poll_num", "poll_avail", "done"}
  PROVE  Arrivals'
BY DEF Arrivals, EarlierArrived, Arrived, Whole, DeliveredOnSuccess

\* A step that is not the host's loses nothing that has arrived.
LEMMA OthersArrivals ==
  ASSUME Arrivals, UNCHANGED <<pc, img, polled>>, gone => gone',
         \A i \in Image : Arrived(i) => Arrived(i)'
  PROVE  Arrivals'
<1>1. EarlierArrived => EarlierArrived'
  BY DEF EarlierArrived
<1>2. DeliveredOnSuccess'
  BY DEF Arrivals, DeliveredOnSuccess, LostInPoll, Arrived
<1> QED
  BY <1>1, <1>2 DEF Arrivals

\* A failing step ends the request; what is in the ring stays there.
LEMMA FailDeliver ==
  ASSUME DeliverInv, Fail, TypeInv', FlowInv'
  PROVE  DeliverInv'
<1>1. /\ pc' = "failed"
      /\ UNCHANGED <<img, pos, ctx, used, avail, desc, blk, mem, set, gone>>
  BY DEF Fail, ringVars, epVars
<1>2. ~gone' => \E m \in Nat : Consumed(m)'
  <2> SUFFICES ASSUME ~gone PROVE \E m \in Nat : Consumed(m)'
    BY <1>1
  <2>1. PICK m \in Nat : Consumed(m)
    BY DEF DeliverInv
  <2>2. Consumed(m)'
    BY <1>1, <2>1, StillConsumed DEF Posting, Polling
  <2> QED
    BY <2>2
<1>3. MemIntact' /\ SetAfterData'
  BY <1>1 DEF DeliverInv, MemIntact, SetAfterData
<1>4. InHand' /\ Arrivals'
  BY <1>1, StillArrivals DEF DeliverInv, InHand, Posting, Polling
<1> QED
  BY <1>2, <1>3, <1>4 DEF DeliverInv

LEMMA ReadyDeliver ==
  ASSUME DeliverInv, pcie_ring_wait_ep_ready, TypeInv', FlowInv'
  PROVE  DeliverInv'
<1>1. CASE Fail
  BY <1>1, FailDeliver
<1>2. CASE ~Fail
  <2>1. /\ ~gone /\ pc = "ready" /\ pc' = "init"
        /\ UNCHANGED <<img, pos, ctx, used, avail, desc, blk, mem, set, gone>>
    BY <1>2 DEF pcie_ring_wait_ep_ready, TimedOut, ringVars, epVars
  <2>2. PICK m \in Nat : Consumed(m)
    BY <2>1 DEF DeliverInv
  <2>3. Consumed(m)'
    BY <2>1, <2>2, StillConsumed DEF Posting, Polling
  <2>4. MemIntact' /\ SetAfterData' /\ InHand' /\ Arrivals'
    BY <2>1, StillArrivals DEF DeliverInv, MemIntact, SetAfterData, InHand, Posting, Polling
  <2> QED
    BY <2>3, <2>4 DEF DeliverInv
<1> QED
  BY <1>1, <1>2

LEMMA CtxDeliver ==
  ASSUME DeliverInv, pcie_ring_ctx_init, TypeInv', FlowInv'
  PROVE  DeliverInv'
<1>1. CASE Fail
  BY <1>1, FailDeliver
<1>2. CASE (CtxNum \/ CtxMaxBlk) /\ ~Fail
  <2>1. /\ pc \in {"init", "init_blk"} /\ pc' \in {"init_blk", "init_avail"}
        /\ UNCHANGED <<img, pos, used, avail, desc, blk, mem, set, gone>>
    BY <1>2 DEF CtxNum, CtxMaxBlk, ringVars, epVars
  <2>2. ctx'.cur_blk = 0
    BY <1>2 DEF CtxNum, CtxMaxBlk, NoCtx, DeliverInv, InHand, TypeInv, TypeOK
  <2>3. \A m \in Nat : Consumed(m) => Consumed(m)'
    BY <2>1, StillConsumed DEF Posting, Polling
  <2>4. MemIntact' /\ SetAfterData' /\ InHand' /\ Arrivals'
    BY <2>1, <2>2, StillArrivals DEF DeliverInv, MemIntact, SetAfterData, InHand, Posting, Polling
  <2> QED
    BY <2>1, <2>3, <2>4 DEF DeliverInv
<1>3. CASE CtxAvail
  <2>1. /\ pc = "init_avail" /\ pc' = "wait" /\ pos' = 0
        /\ UNCHANGED <<img, used, avail, desc, blk, mem, set, gone>>
        /\ ctx'.cur_blk = 0
    BY <1>3 DEF CtxAvail, ringVars, epVars, DeliverInv, InHand, TypeInv, TypeOK
  <2>2. ~gone' => Consumed(0)'
    <3> SUFFICES ASSUME ~gone PROVE Consumed(0)'
      BY <2>1
    <3>1. Outstanding = 0
      BY <2>1, DrainedIs DEF DeliverInv, FlowInv, Starting
    <3>2. Outstanding' = 0
      BY <2>1, <3>1 DEF Outstanding
    <3>3. Posted' = 0
      BY <2>1 DEF Posted, Polling
    <3>4. Chunks[img] \in Nat
      BY ImgLength DEF DeliverInv
    <3> QED
      BY <2>1, <3>2, <3>3, <3>4 DEF Consumed
  <2>3. InHand'
    <3>1. Chunks[img] \in Nat
      BY ImgLength DEF DeliverInv
    <3> QED
      BY <2>1, <3>1 DEF InHand
  <2>4. MemIntact' /\ SetAfterData' /\ Arrivals'
    BY <2>1, StillArrivals DEF DeliverInv, MemIntact, SetAfterData
  <2> QED
    BY <2>2, <2>3, <2>4 DEF DeliverInv
<1> QED
  BY <1>1, <1>2, <1>3 DEF pcie_ring_ctx_init

LEMMA WaitDeliver ==
  ASSUME DeliverInv, PostWait, TypeInv', FlowInv'
  PROVE  DeliverInv'
<1>1. CASE Fail
  BY <1>1, FailDeliver
<1>2. CASE ~Fail
  <2>1. /\ pc = "wait" /\ pc' = "desc"
        /\ UNCHANGED <<img, pos, ctx, used, avail, desc, blk, mem, set, gone>>
    BY <1>2 DEF PostWait, TimedOut, ringVars, epVars
  <2>2. ~gone' => \E m \in Nat : Consumed(m)'
    <3> SUFFICES ASSUME ~gone PROVE \E m \in Nat : Consumed(m)'
      BY <2>1
    <3>1. PICK m \in Nat : Consumed(m)
      BY DEF DeliverInv
    <3>2. Posted' = Posted
      BY <2>1 DEF Posted, Polling
    <3>3. Consumed(m)'
      BY <2>1, <3>1, <3>2, StillConsumed DEF Posting, Polling
    <3> QED
      BY <3>3
  <2>3. MemIntact' /\ SetAfterData' /\ InHand' /\ Arrivals'
    BY <2>1, StillArrivals DEF DeliverInv, MemIntact, SetAfterData, InHand, Posting, Polling
  <2> QED
    BY <2>2, <2>3 DEF DeliverInv
<1> QED
  BY <1>1, <1>2

\* The descriptor goes to a place where no outstanding one is.
LEMMA PostDescDeliver ==
  ASSUME DeliverAssumption, DeliverInv, PostDesc, TypeInv', FlowInv'
  PROVE  DeliverInv'
<1>1. /\ pc = "desc" /\ pc' = IF Data THEN "copy" ELSE "publish"
      /\ UNCHANGED <<img, pos, ctx, used, avail, blk, mem, set, gone>>
  BY DEF PostDesc, epVars
<1>n. /\ Chunks[img] \in Nat /\ pos \in Nat /\ used \in Word /\ Outstanding \in Nat
      /\ Num \in Nat \ {0} /\ desc \in [0 .. Num - 1 -> Desc]
  BY ImgLength, OutstandingNat, Sizes DEF DeliverInv, TypeInv, TypeOK
<1>2. ASSUME ~gone
      PROVE  /\ Outstanding < Num /\ ctx.cur_avail = used /\ ctx.num = Num
             /\ ctx.max_blk = MaxBlk /\ ctx.cur_blk = pos
  BY <1>1, <1>2 DEF DeliverInv, FlowInv, TypeInv, CardKnown, InHand, Posting, Polling
<1>3. ASSUME ~gone
      PROVE  \E d : IsItem(d, pos) /\ desc' = [desc EXCEPT ![used % Num] = d]
  <2>1. CASE Data
    <3> DEFINE d == [cmd |-> "DATA", chunk |-> <<img, pos>>, img |-> NULL, blk |-> pos % MaxBlk]
    <3>1. IsItem(d, pos)
      BY <2>1 DEF IsItem, Data
    <3>2. pcie_ring_desc(d)
      BY <1>2, <1>3, <2>1 DEF PostDesc
    <3>3. desc' = [desc EXCEPT ![used % Num] = d]
      BY <1>2, <1>3, <3>2 DEF pcie_ring_desc
    <3> QED
      BY <3>1, <3>3
  <2>2. CASE ~Data
    <3> DEFINE d == [cmd |-> "SET", chunk |-> NULL, img |-> img, blk |-> 0]
    <3>1. IsItem(d, pos)
      BY <2>2 DEF IsItem, Data
    <3>2. pcie_ring_desc(d)
      BY <1>2, <1>3, <2>2 DEF PostDesc
    <3>3. desc' = [desc EXCEPT ![used % Num] = d]
      BY <1>2, <1>3, <3>2 DEF pcie_ring_desc
    <3> QED
      BY <3>1, <3>3
  <2> QED
    BY <2>1, <2>2
<1>4. ~gone' => \E m \in Nat : Consumed(m)'
  <2> SUFFICES ASSUME ~gone PROVE \E m \in Nat : Consumed(m)'
    BY <1>1
  <2>1. PICK m \in Nat : Consumed(m)
    BY DEF DeliverInv
  <2>2. PICK d : desc' = [desc EXCEPT ![used % Num] = d]
    BY <1>3
  <2>3. Outstanding' = Outstanding /\ Posted' = Posted
    BY <1>1 DEF Outstanding, Posted, Polling
  <2>4. ASSUME NEW k \in 1 .. Outstanding
        PROVE  desc'[SlotOf(k)] = desc[SlotOf(k)]
    <3>1. k \in 1 .. Num - 1
      BY <1>2, <1>n
    <3>2. SlotOf(k) # used % Num
      BY <1>n, <3>1, SlotsDiffer DEF SlotOf, DeliverAssumption
    <3>3. SlotOf(k) \in 0 .. Num - 1
      <4>1. k \in Word
        BY <3>1, Sizes DEF Word
      <4>2. Minus(used, k) \in Int
        BY <1>n, <4>1, MinusIs DEF Word
      <4> QED
        BY <1>n, <4>2, Remainder DEF SlotOf
    <3> QED
      BY <1>n, <2>2, <3>2, <3>3
  <2>5. ASSUME NEW k \in 1 .. Outstanding
        PROVE  Holds(SlotOf(k), m + Outstanding - k)'
    <3>1. Holds(SlotOf(k), m + Outstanding - k)
      BY <2>1 DEF Consumed
    <3> QED
      BY <1>1, <2>3, <2>4, <3>1 DEF Holds, IsItem, SlotOf
  <2>6. Consumed(m)'
    BY <1>1, <2>1, <2>3, <2>5 DEF Consumed, Posting, Polling
  <2> QED
    BY <2>6
<1>5. InHand'
  <2>1. ASSUME ~gone
        PROVE  IsItem(desc'[used % Num], pos)
    <3>1. PICK d : IsItem(d, pos) /\ desc' = [desc EXCEPT ![used % Num] = d]
      BY <1>3, <2>1
    <3>2. used % Num \in 0 .. Num - 1
      BY <1>n, Remainder DEF Word
    <3> QED
      BY <1>n, <3>1, <3>2
  <2>2. ASSUME ~gone
        PROVE  IsItem(desc[used % Num], pos)'
    BY <1>1, <2>1, <2>2 DEF IsItem
  <2>3. ~gone /\ ~Data => Holds(used % Num, pos)'
    BY <1>1, <2>2 DEF Holds, Data
  <2> QED
    BY <1>1, <2>2, <2>3 DEF DeliverInv, InHand, Posting, Polling, Data
<1>6. MemIntact' /\ SetAfterData' /\ Arrivals'
  BY <1>1, StillArrivals DEF DeliverInv, MemIntact, SetAfterData
<1> QED
  BY <1>4, <1>5, <1>6 DEF DeliverInv

\* The data goes to a block that no outstanding descriptor names.
LEMMA CopyDeliver ==
  ASSUME DeliverAssumption, DeliverInv, PostCopy, TypeInv', FlowInv'
  PROVE  DeliverInv'
<1>1. /\ pc = "copy" /\ pc' = "publish"
      /\ UNCHANGED <<img, pos, used, avail, desc, mem, set, gone>>
      /\ ctx' = [ctx EXCEPT !.cur_blk = Plus(@, 1)]
  BY DEF PostCopy, epVars
<1>n. /\ Chunks[img] \in Nat /\ pos \in Nat /\ used \in Word /\ Outstanding \in Nat
      /\ Num \in Nat \ {0} /\ MaxBlk \in Nat \ {0} /\ Num <= MaxBlk
      /\ blk \in [0 .. MaxBlk - 1 -> Chunk \cup {NULL}]
      /\ Chunks[img] < WordMod /\ WordMod \in Nat
  BY ImgLength, OutstandingNat, Sizes DEF DeliverInv, TypeInv, TypeOK, DeliverAssumption
<1>d. pos < Chunks[img]
  BY <1>1 DEF DeliverInv, TypeInv, ChunkLeft
<1>2. ASSUME ~gone
      PROVE  /\ Outstanding < Num /\ ctx.max_blk = MaxBlk /\ ctx.cur_blk = pos
             /\ blk' = [blk EXCEPT ![pos % MaxBlk] = <<img, pos>>]
             /\ IsItem(desc[used % Num], pos)
  BY <1>1, <1>2 DEF DeliverInv, FlowInv, TypeInv, CardKnown, InHand, Posting, Polling, PostCopy
<1>3. ~gone' => \E m \in Nat : Consumed(m)'
  <2> SUFFICES ASSUME ~gone PROVE \E m \in Nat : Consumed(m)'
    BY <1>1
  <2>1. PICK m \in Nat : Consumed(m)
    BY DEF DeliverInv
  <2>2. Outstanding' = Outstanding /\ Posted' = Posted
    BY <1>1 DEF Outstanding, Posted, Polling
  <2>3. m + Outstanding = pos
    BY <1>1, <2>1 DEF Consumed, Posted, Posting, Polling
  <2>4. ASSUME NEW k \in 1 .. Outstanding
        PROVE  blk'[(m + Outstanding - k) % MaxBlk] = blk[(m + Outstanding - k) % MaxBlk]
    <3>1. k \in 1 .. MaxBlk - 1
      BY <1>2, <1>n
    <3>2. pos - k \in Int /\ m + Outstanding - k = pos - k
      BY <1>n, <2>3, <3>1
    <3>3. (pos - k) % MaxBlk # pos % MaxBlk
      <4>1. pos \in Int
        BY <1>n
      <4> QED
        BY <1>n, <3>1, <4>1, ModDiffer
    <3>4. (pos - k) % MaxBlk \in 0 .. MaxBlk - 1
      BY <1>n, <3>2, Remainder
    <3>5. blk'[(pos - k) % MaxBlk] = blk[(pos - k) % MaxBlk]
      BY <1>2, <1>n, <3>3, <3>4
    <3> QED
      BY <3>2, <3>5
  <2>5. ASSUME NEW k \in 1 .. Outstanding
        PROVE  Holds(SlotOf(k), m + Outstanding - k)'
    <3>1. Holds(SlotOf(k), m + Outstanding - k)
      BY <2>1 DEF Consumed
    <3> QED
      BY <1>1, <2>2, <2>4, <3>1 DEF Holds, IsItem, SlotOf
  <2>6. Consumed(m)'
    BY <1>1, <2>1, <2>2, <2>5 DEF Consumed, Posting, Polling
  <2> QED
    BY <2>6
<1>4. InHand'
  <2>1. ASSUME ~gone
        PROVE  ctx'.cur_blk = pos + 1
    <3>1. pos + 1 < WordMod /\ pos \in Word
      BY <1>d, <1>n DEF Word
    <3>2. Plus(pos, 1) = pos + 1
      BY <3>1, Sizes, PlusIs
    <3> QED
      BY <1>1, <1>2, <2>1, <3>2 DEF DeliverInv, TypeInv, TypeOK
  <2>2. ASSUME ~gone
        PROVE  Holds(used % Num, pos)'
    <3>1. pos % MaxBlk \in 0 .. MaxBlk - 1
      <4>1. pos \in Int
        BY <1>n
      <4> QED
        BY <1>n, <4>1, Remainder
    <3>2. blk'[pos % MaxBlk] = <<img, pos>>
      BY <1>2, <1>n, <2>2, <3>1
    <3>3. IsItem(desc[used % Num], pos)'
      BY <1>1, <1>2, <2>2 DEF IsItem
    <3> QED
      BY <1>1, <3>2, <3>3 DEF Holds
  <2> QED
    BY <1>1, <1>d, <1>n, <2>1, <2>2 DEF InHand, Data, Posting, Polling
<1>5. MemIntact' /\ SetAfterData' /\ Arrivals'
  BY <1>1, StillArrivals DEF DeliverInv, MemIntact, SetAfterData
<1> QED
  BY <1>3, <1>4, <1>5 DEF DeliverInv

\* The item in the host's hands becomes the youngest outstanding one.
LEMMA PublishDeliver ==
  ASSUME DeliverInv, PostPublish, TypeInv', FlowInv'
  PROVE  DeliverInv'
<1>1. /\ pc = "publish" /\ pc' = IF Data THEN "wait" ELSE "poll"
      /\ pos' = IF Data THEN pos + 1 ELSE pos
      /\ UNCHANGED <<img, avail, desc, blk, mem, set, gone>>
      /\ ctx'.cur_blk = ctx.cur_blk
  BY DEF PostPublish, epVars, DeliverInv, TypeInv, TypeOK
<1>n. /\ Chunks[img] \in Nat /\ pos \in Nat /\ used \in Word /\ Outstanding \in Nat
      /\ Minus(avail, Num) \in Word /\ Num \in Nat \ {0} /\ pos <= Chunks[img]
  BY <1>1, ImgLength, OutstandingNat, Sizes DEF DeliverInv, TypeInv, InHand, Posting, Polling
<1>2. ~gone' => \E m \in Nat : Consumed(m)'
  <2> SUFFICES ASSUME ~gone PROVE \E m \in Nat : Consumed(m)'
    BY <1>1
  <2>1. PICK m \in Nat : Consumed(m)
    BY DEF DeliverInv
  <2>2. used' = Plus(used, 1) /\ Outstanding < Num
    BY <1>1 DEF PostPublish, DeliverInv, FlowInv
  <2>3. Outstanding' = Outstanding + 1
    BY <1>1, <1>n, <2>2, PublishCounts DEF Outstanding
  <2>4. m + Outstanding = pos
    BY <1>1, <2>1 DEF Consumed, Posted, Posting, Polling
  <2>5. Posted' = pos + 1
    BY <1>1, <1>n DEF Posted, Polling, Data
  <2>6. ASSUME NEW k \in 1 .. Outstanding'
        PROVE  Holds(SlotOf(k), m + Outstanding - k)'
    <3>1. k \in Nat /\ k - 1 \in 0 .. Outstanding /\ k - 1 \in 0 .. Num /\ (k - 1) + 1 = k
      BY <1>n, <2>2, <2>3
    <3>2. Minus(used', k) = Minus(used, k - 1)
      BY <1>n, <2>2, <3>1, OneBehind
    <3>3. m + Outstanding' - k = m + Outstanding - (k - 1)
      BY <1>n, <2>3, <3>1
    <3>4. Holds(SlotOf(k - 1), m + Outstanding - (k - 1))
      <4>1. CASE k = 1
        <5>1. SlotOf(0) = used % Num
          BY <1>n, MinusMinus DEF SlotOf
        <5>2. Holds(used % Num, pos)
          BY <1>1 DEF DeliverInv, InHand
        <5>3. k - 1 = 0 /\ m + Outstanding - 0 = pos
          BY <1>n, <2>4, <4>1
        <5> QED
          BY <5>1, <5>2, <5>3
      <4>2. CASE k # 1
        <5>1. k - 1 \in 1 .. Outstanding
          BY <3>1, <4>2
        <5> QED
          BY <2>1, <5>1 DEF Consumed
      <4> QED
        BY <4>1, <4>2
    <3>5. Holds(Minus(used', k) % Num, m + Outstanding' - k)
      BY <3>2, <3>3, <3>4 DEF SlotOf
    <3> QED
      BY <1>1, <3>5 DEF Holds, IsItem, SlotOf
  <2>7. Consumed(m)'
    <3>1. m + Outstanding' = Posted' /\ m + Outstanding' <= Chunks[img] + 1
      BY <1>n, <2>3, <2>4, <2>5
    <3> QED
      BY <1>1, <2>1, <2>6, <3>1 DEF Consumed, Posting, Polling
  <2> QED
    BY <2>7
<1>3. InHand'
  BY <1>1, <1>n DEF DeliverInv, InHand, Data, Posting, Polling
<1>4. MemIntact' /\ SetAfterData' /\ Arrivals'
  BY <1>1, StillArrivals DEF DeliverInv, MemIntact, SetAfterData
<1> QED
  BY <1>2, <1>3, <1>4 DEF DeliverInv

\* All chunks of an image are in place once the endpoint has passed them.
LEMMA WholeIs ==
  ASSUME TypeInv, NEW m \in Nat, Consumed(m), m >= Chunks[img]
  PROVE  Whole(img)
<1> SUFFICES ASSUME NEW c \in Chunk, c[1] = img PROVE mem[c] = c
  BY DEF Whole
<1>1. PICK i \in Image : c \in {i} \X (0 .. Chunks[i] - 1)
  BY DEF Chunk
<1>2. c = <<img, c[2]>> /\ c[2] \in 0 .. Chunks[img] - 1
  BY <1>1
<1>3. c[2] \in Nat /\ c[2] < m /\ c[2] < Chunks[img]
  BY <1>2, ImgLength
<1> QED
  BY <1>2, <1>3 DEF Consumed

\* A poll that matches although the card is gone has read used from the card,
\* and all ones for avail.
LEMMA MatchLost ==
  ASSUME DeliverInv, pc = "poll_avail", AllConsumed, gone
  PROVE  polled.used # AllOnes /\ pcie_ring_r32(avail) = AllOnes /\ EarlierArrived
<1>s. /\ Num \in Nat \ {0} /\ WordMod \in Nat /\ WordMod > 2 * Num
      /\ AllOnes \in Word /\ AllOnes = WordMod - 1 /\ Num \in Word
  BY Sizes DEF AllOnes
<1>1. pcie_ring_r32(avail) = AllOnes
  BY DEF pcie_ring_r32
<1>2. polled.num \in {Num, AllOnes}
  BY DEF DeliverInv, Arrivals
<1>3. polled.used # AllOnes
  <2> SUFFICES ASSUME polled.used = AllOnes PROVE FALSE
    OBVIOUS
  <2>1. Plus(AllOnes, polled.num) = AllOnes
    BY <1>1 DEF AllConsumed
  <2>2. Plus(AllOnes, polled.num) =
          IF AllOnes + polled.num < WordMod THEN AllOnes + polled.num
          ELSE AllOnes + polled.num - WordMod
    BY <1>s, <1>2, PlusIs
  <2>3. polled.num \in 1 .. WordMod - 1
    BY <1>s, <1>2
  <2> QED
    BY <1>s, <2>1, <2>2, <2>3
<1> QED
  BY <1>1, <1>3 DEF DeliverInv, Arrivals

\* What the poll leaves alone while it has not matched.
LEMMA PollsOn ==
  ASSUME DeliverInv, UNCHANGED <<img, pos, ctx, used, avail, desc, blk, mem, set, gone>>,
         pc \in Polling, pc' \in Polling
  PROVE  /\ ~gone' => \E m \in Nat : Consumed(m)'
         /\ MemIntact' /\ SetAfterData' /\ InHand'
<1>1. Posted' = Posted
  BY DEF Posted, Polling
<1>2. \A m \in Nat : Consumed(m) => Consumed(m)'
  BY <1>1, StillConsumed DEF Posting
<1> QED
  BY <1>2 DEF DeliverInv, MemIntact, SetAfterData, InHand, Posting, Polling

LEMMA PollDeliver ==
  ASSUME DeliverInv, pcie_ring_xfer_poll, TypeInv', FlowInv'
  PROVE  DeliverInv'
<1>1. CASE PollTimedOut
  BY <1>1, FailDeliver DEF PollTimedOut, TimedOut
<1>2. CASE PollUsed
  <2>1. /\ pc = "poll" /\ pc' = "poll_num" /\ polled'.used = pcie_ring_r32(used)
        /\ UNCHANGED <<img, pos, ctx, used, avail, desc, blk, mem, set, gone>>
    BY <1>2 DEF PollUsed, NoPoll, ringVars, epVars
  <2>2. EarlierArrived => EarlierArrived'
    BY <2>1 DEF EarlierArrived, Arrived, Whole
  <2>3. Arrivals'
    BY <2>1, <2>2 DEF DeliverInv, Arrivals, DeliveredOnSuccess, pcie_ring_r32
  <2> QED
    BY <2>1, <2>3, PollsOn DEF DeliverInv, Polling
<1>3. CASE PollNum
  <2>1. /\ pc = "poll_num" /\ pc' = "poll_avail"
        /\ polled'.used = polled.used /\ polled'.num = pcie_ring_r32(Num)
        /\ UNCHANGED <<img, pos, ctx, used, avail, desc, blk, mem, set, gone>>
    BY <1>3 DEF PollNum, ringVars, epVars, DeliverInv, TypeInv, TypeOK
  <2>2. EarlierArrived => EarlierArrived'
    BY <2>1 DEF EarlierArrived, Arrived, Whole
  <2>3. Arrivals'
    BY <2>1, <2>2 DEF DeliverInv, Arrivals, DeliveredOnSuccess, pcie_ring_r32
  <2> QED
    BY <2>1, <2>3, PollsOn DEF DeliverInv, Polling
<1>4. CASE PollAvail /\ ~AllConsumed
  <2>1. /\ pc = "poll_avail" /\ pc' = "poll"
        /\ UNCHANGED <<img, pos, ctx, used, avail, desc, blk, mem, set, gone>>
    BY <1>4 DEF PollAvail, ringVars, epVars
  <2>2. Arrivals'
    BY <2>1, StillArrivals DEF DeliverInv
  <2> QED
    BY <2>1, <2>2, PollsOn DEF DeliverInv, Polling
<1>5. CASE PollAvail /\ AllConsumed
  <2>1. /\ pc = "poll_avail" /\ pc' = IF img = 3 THEN "done" ELSE "init"
        /\ img' = IF img = 3 THEN img ELSE img + 1
        /\ polled'.used = polled.used /\ polled'.avail = pcie_ring_r32(avail)
        /\ UNCHANGED <<pos, ctx, used, avail, desc, blk, mem, set, gone>>
    BY <1>5 DEF PollAvail, ringVars, epVars, DeliverInv, TypeInv, TypeOK
  <2>n. /\ Chunks[img] \in Nat /\ used \in Word /\ avail \in Word /\ Outstanding \in Nat
        /\ img \in Image
    BY ImgLength, OutstandingNat DEF DeliverInv, TypeInv
  <2>2. ASSUME ~gone
        PROVE  Outstanding = 0 /\ Arrived(img) /\ EarlierArrived
    <3>1. Outstanding = 0
      BY <1>5, <2>1, <2>2, MatchDrained, DrainedIs DEF DeliverInv
    <3>2. PICK m \in Nat : Consumed(m)
      BY <2>2 DEF DeliverInv
    <3>3. m = Chunks[img] + 1
      BY <2>1, <3>1, <3>2 DEF Consumed, Posted, Posting, Polling
    <3>4. m >= Chunks[img] /\ m > Chunks[img]
      BY <3>3, <2>n
    <3>5. Whole(img) /\ set[img] = "whole"
      BY <3>2, <3>4, WholeIs DEF DeliverInv, Consumed
    <3> QED
      BY <2>2, <3>1, <3>5 DEF Arrived, DeliverInv, Arrivals
  <2>3. ASSUME gone
        PROVE  polled.used # AllOnes /\ pcie_ring_r32(avail) = AllOnes /\ EarlierArrived
    BY <1>5, <2>1, <2>3, MatchLost
  <2>4. \A i : Arrived(i)' <=> Arrived(i)
    BY <2>1 DEF Arrived, Whole
  <2>5. ~gone => EarlierArrived'
    <3> SUFFICES ASSUME ~gone, NEW i \in Image, i < img' PROVE Arrived(i)
      BY <2>4 DEF EarlierArrived
    <3>1. i < img \/ i = img
      BY <2>1, <2>n DEF Image
    <3> QED
      BY <2>2, <3>1 DEF EarlierArrived
  <2>6. DeliveredOnSuccess'
    <3> SUFFICES ASSUME pc' = "done", NEW i \in Image
                 PROVE  (i = 3 /\ LostInPoll') \/ Arrived(i)
      BY <2>4 DEF DeliveredOnSuccess, Arrived
    <3>1. img = 3 /\ (i < img \/ i = img)
      BY <2>1 DEF Image
    <3>2. EarlierArrived
      BY <2>2, <2>3
    <3>3. gone => LostInPoll'
      BY <2>1, <2>3 DEF LostInPoll
    <3> QED
      BY <2>2, <3>1, <3>2, <3>3 DEF EarlierArrived
  <2>7. Arrivals'
    BY <2>1, <2>5, <2>6 DEF Arrivals
  <2>8. ~gone => Consumed(0)'
    <3> SUFFICES ASSUME ~gone PROVE Consumed(0)'
      OBVIOUS
    <3>1. Outstanding' = 0
      BY <2>1, <2>2 DEF Outstanding
    <3>2. Chunks[img'] \in Nat
      BY ImgLength, RingAssumption, <2>1, <2>n DEF Image
    <3> QED
      BY <2>1, <3>1, <3>2 DEF Consumed, Posting, Polling
  <2>9. MemIntact' /\ SetAfterData' /\ InHand'
    BY <2>1 DEF DeliverInv, MemIntact, SetAfterData, InHand, Posting, Polling
  <2> QED
    BY <2>1, <2>7, <2>8, <2>9 DEF DeliverInv
<1> QED
  BY <1>1, <1>2, <1>3, <1>4, <1>5 DEF pcie_ring_xfer_poll

\* The endpoint takes the oldest outstanding item: the next of its image.
Takes(m) ==
  \/ /\ m < Chunks[img] /\ <<img, m>> \in Chunk
     /\ mem' = [mem EXCEPT ![<<img, m>>] = <<img, m>>] /\ set' = set
  \/ /\ m = Chunks[img] /\ Whole(img)
     /\ mem' = mem /\ set' = [set EXCEPT ![img] = "whole"]

LEMMA EndpointTakes ==
  ASSUME DeliverInv, Endpoint
  PROVE  \E m \in Nat : Consumed(m) /\ Takes(m)
<1> DEFINE next == Minus(avail, Num)
           d == desc[next % Num]
<1>1. /\ ~gone /\ used # next
      /\ mem' = IF d.cmd = "DATA" THEN [mem EXCEPT ![d.chunk] = blk[d.blk]] ELSE mem
      /\ set' = IF d.cmd = "SET"
                THEN [set EXCEPT ![d.img] = IF Whole(d.img) THEN "whole" ELSE "torn"]
                ELSE set
  BY DEF Endpoint
<1>n. /\ img \in Image /\ Chunks[img] \in Nat /\ used \in Word /\ Outstanding \in Nat
      /\ next \in Word
  BY ImgLength, OutstandingNat DEF DeliverInv, TypeInv, TypeOK
<1>2. Outstanding >= 1
  <2>1. Outstanding # 0
    BY <1>1, DrainedIs DEF DeliverInv
  <2> QED
    BY <1>n, <2>1
<1>3. SlotOf(Outstanding) = next % Num
  BY <1>n, MinusMinus DEF SlotOf, Outstanding
<1> PICK m \in Nat : Consumed(m)
  BY <1>1 DEF DeliverInv
<1>4. Holds(next % Num, m) /\ m <= Chunks[img]
  <2>1. Outstanding \in 1 .. Outstanding /\ m + Outstanding - Outstanding = m
    BY <1>n, <1>2
  <2>2. Holds(SlotOf(Outstanding), m + Outstanding - Outstanding)
    BY <2>1 DEF Consumed
  <2>3. m + Outstanding <= Chunks[img] + 1
    BY DEF Consumed
  <2> QED
    BY <1>n, <1>2, <1>3, <2>1, <2>2, <2>3
<1>5. CASE m < Chunks[img]
  <2>1. d.cmd = "DATA" /\ d.chunk = <<img, m>> /\ blk[d.blk] = <<img, m>>
    BY <1>4, <1>5 DEF Holds, IsItem
  <2>2. <<img, m>> \in {img} \X (0 .. Chunks[img] - 1)
    BY <1>5, <1>n
  <2>3. <<img, m>> \in Chunk
    BY <1>n, <2>2 DEF Chunk
  <2> HIDE DEF d
  <2>4. mem' = [mem EXCEPT ![<<img, m>>] = <<img, m>>] /\ set' = set
    BY <1>1, <2>1
  <2> QED
    BY <1>5, <2>3, <2>4 DEF Takes
<1>6. CASE m = Chunks[img]
  <2>1. d.cmd = "SET" /\ d.img = img
    BY <1>4, <1>6, <1>n DEF Holds, IsItem
  <2>2. Whole(img)
    <3>1. m >= Chunks[img]
      BY <1>6, <1>n
    <3> QED
      BY <3>1, WholeIs DEF DeliverInv
  <2> HIDE DEF d
  <2>3. mem' = mem /\ set' = [set EXCEPT ![img] = "whole"]
    BY <1>1, <2>1, <2>2
  <2> QED
    BY <1>6, <2>2, <2>3 DEF Takes
<1> QED
  BY <1>4, <1>5, <1>6, <1>n

LEMMA EndpointDeliver ==
  ASSUME DeliverInv, Endpoint, TypeInv', FlowInv'
  PROVE  DeliverInv'
<1>1. UNCHANGED <<hostVars, ringVars>> /\ gone' = gone
  BY DEF Endpoint
<1>2. UNCHANGED <<pc, img, pos, ctx, polled, used, desc, blk, gone>>
  BY <1>1 DEF hostVars, ringVars
<1>n. /\ img \in Image /\ Chunks[img] \in Nat /\ used \in Word /\ Outstanding \in Nat
      /\ mem \in [Chunk -> Chunk \cup {NULL}] /\ set \in [Image -> {"no", "whole", "torn"}]
  BY ImgLength, OutstandingNat DEF DeliverInv, TypeInv, TypeOK
<1>3. Outstanding' = Outstanding - 1
  BY EndpointFlow DEF DeliverInv
<1> PICK m \in Nat : Consumed(m) /\ Takes(m)
  BY EndpointTakes
<1>7. CASE m < Chunks[img]
  <2> DEFINE c == <<img, m>>
  <2>2. c \in Chunk
    BY <1>7, <1>n DEF Takes
  <2>3. mem' = [mem EXCEPT ![c] = c] /\ set' = set
    BY <1>7, <1>n DEF Takes
  <2> HIDE DEF c
  <2>4. /\ \A x \in Chunk : mem[x] = x => mem'[x] = x
        /\ mem'[c] = c
        /\ \A x \in Chunk : mem'[x] \in {mem[x], x}
    BY <1>n, <2>2, <2>3
  <2>5. MemIntact' /\ SetAfterData'
    BY <2>3, <2>4 DEF DeliverInv, MemIntact, SetAfterData
  <2>6. \A i : Arrived(i) => Arrived(i)'
    BY <2>3, <2>4 DEF Arrived, Whole
  <2>7. Arrivals'
    BY <1>2, <2>6, OthersArrivals DEF DeliverInv
  <2>8. Consumed(m + 1)'
    <3>1. m + 1 + Outstanding' = m + Outstanding
      BY <1>n, <1>3
    <3>2. ASSUME NEW j \in Nat, j < m + 1, j < Chunks[img]
          PROVE  mem'[<<img, j>>] = <<img, j>>
      <4>1. <<img, j>> \in Chunk
        <5>1. <<img, j>> \in {img} \X (0 .. Chunks[img] - 1)
          BY <3>2, <1>n
        <5> QED
          BY <1>n, <5>1 DEF Chunk
      <4>2. CASE j = m
        BY <2>4, <4>2 DEF c
      <4>3. CASE j # m
        <5>1. j < m
          BY <3>2, <4>3
        <5>2. mem[<<img, j>>] = <<img, j>>
          BY <3>2, <5>1 DEF Consumed
        <5> QED
          BY <2>4, <4>1, <5>2
      <4> QED
        BY <4>2, <4>3
    <3>3. ~(m + 1 > Chunks[img])
      BY <1>7, <1>n
    <3>4. ASSUME NEW k \in 1 .. Outstanding'
          PROVE  Holds(SlotOf(k), m + 1 + Outstanding - k)'
      <4>1. k \in 1 .. Outstanding /\ m + 1 + Outstanding' - k = m + Outstanding - k
        BY <1>n, <1>3
      <4>2. Holds(SlotOf(k), m + Outstanding - k)
        BY <4>1 DEF Consumed
      <4>3. Holds(SlotOf(k), m + 1 + Outstanding' - k)
        BY <4>1, <4>2
      <4> QED
        BY <1>2, <4>3 DEF Holds, IsItem, SlotOf
    <3>5. pc' \in Posting => m + 1 + Outstanding' = Posted'
      <4>1. Posted' = Posted
        BY <1>2 DEF Posted, Polling
      <4>2. pc \in Posting => m + Outstanding = Posted
        BY DEF Consumed
      <4> QED
        BY <1>2, <3>1, <4>1, <4>2
    <3>6. m + 1 + Outstanding' <= Chunks[img'] + 1
      BY <1>2, <3>1 DEF Consumed
    <3>7. \A j \in Nat : j < m + 1 /\ j < Chunks[img'] => mem'[<<img', j>>] = <<img', j>>
      BY <1>2, <3>2
    <3>8. m + 1 > Chunks[img'] => set'[img'] = "whole"
      BY <1>2, <3>3
    <3> QED
      BY <3>4, <3>5, <3>6, <3>7, <3>8 DEF Consumed
  <2>9. InHand'
    BY <1>2 DEF DeliverInv, InHand, Holds, IsItem, Data
  <2> QED
    BY <2>5, <2>7, <2>8, <2>9 DEF DeliverInv
<1>8. CASE m = Chunks[img]
  <2>3. mem' = mem /\ set' = [set EXCEPT ![img] = "whole"]
    BY <1>8, <1>n DEF Takes
  <2>4. MemIntact' /\ SetAfterData'
    BY <1>n, <2>3 DEF DeliverInv, MemIntact, SetAfterData
  <2>5. Arrivals'
    <3>1. \A i \in Image : Arrived(i) => Arrived(i)'
      BY <1>n, <2>3 DEF Arrived, Whole
    <3> QED
      BY <1>2, <3>1, OthersArrivals DEF DeliverInv
  <2>6. Consumed(m + 1)'
    <3>1. m + 1 + Outstanding' = m + Outstanding
      BY <1>n, <1>3
    <3>2. ASSUME NEW k \in 1 .. Outstanding'
          PROVE  Holds(SlotOf(k), m + 1 + Outstanding - k)'
      <4>1. k \in 1 .. Outstanding /\ m + 1 + Outstanding' - k = m + Outstanding - k
        BY <1>n, <1>3
      <4>2. Holds(SlotOf(k), m + Outstanding - k)
        BY <4>1 DEF Consumed
      <4>3. Holds(SlotOf(k), m + 1 + Outstanding' - k)
        BY <4>1, <4>2
      <4> QED
        BY <1>2, <4>3 DEF Holds, IsItem, SlotOf
    <3>3. \A j \in Nat : j < m + 1 /\ j < Chunks[img] => mem'[<<img, j>>] = <<img, j>>
      BY <1>8, <1>n, <2>3 DEF Consumed
    <3>4. set'[img] = "whole"
      BY <1>n, <2>3
    <3>5. pc' \in Posting => m + 1 + Outstanding' = Posted'
      <4>1. Posted' = Posted
        BY <1>2 DEF Posted, Polling
      <4>2. pc \in Posting => m + Outstanding = Posted
        BY DEF Consumed
      <4> QED
        BY <1>2, <3>1, <4>1, <4>2
    <3>6. m + 1 + Outstanding' <= Chunks[img'] + 1
      BY <1>2, <3>1 DEF Consumed
    <3>7. \A j \in Nat : j < m + 1 /\ j < Chunks[img'] => mem'[<<img', j>>] = <<img', j>>
      BY <1>2, <3>3
    <3>8. m + 1 > Chunks[img'] => set'[img'] = "whole"
      BY <1>2, <3>4
    <3> QED
      BY <3>2, <3>5, <3>6, <3>7, <3>8 DEF Consumed
  <2>7. InHand'
    BY <1>2 DEF DeliverInv, InHand, Holds, IsItem, Data
  <2> QED
    BY <2>4, <2>5, <2>6, <2>7 DEF DeliverInv
<1> QED
  BY <1>7, <1>8 DEF Takes

LEMMA RetryDeliver ==
  ASSUME Drained, DeliverInv, Retry, TypeInv', FlowInv'
  PROVE  DeliverInv'
<1>1. /\ pc' = "ready" /\ img' = 1 /\ used = Minus(avail, Num)
      /\ UNCHANGED <<pos, ctx, used, avail, desc, blk, mem, set, gone>>
  BY DEF Retry, ringVars, epVars
<1>2. Consumed(0)'
  <2>1. Outstanding' = 0
    BY <1>1, DrainedIs DEF DeliverInv, Outstanding
  <2>2. Chunks[1] \in Nat
    BY RingAssumption DEF Image
  <2> QED
    BY <1>1, <2>1, <2>2 DEF Consumed, Posting, Polling
<1>3. MemIntact' /\ SetAfterData' /\ InHand'
  BY <1>1 DEF DeliverInv, MemIntact, SetAfterData, InHand, Posting, Polling
<1>4. Arrivals'
  BY <1>1 DEF Arrivals, EarlierArrived, DeliveredOnSuccess, Image
<1> QED
  BY <1>2, <1>3, <1>4 DEF DeliverInv

LEMMA NextDeliver ==
  ASSUME DeliverAssumption, DeliverInv, [Next]_vars
  PROVE  DeliverInv'
<1>1. TypeInv' /\ FlowInv'
  BY NextType, NextFlow DEF DeliverInv, DeliverAssumption
<1>2. CASE Host
  BY <1>1, <1>2, ReadyDeliver, CtxDeliver, WaitDeliver, PostDescDeliver, CopyDeliver,
     PublishDeliver, PollDeliver DEF Host
<1>3. CASE Retry
  BY <1>1, <1>3, RetryDeliver DEF DeliverAssumption
<1>4. CASE Endpoint
  BY <1>1, <1>4, EndpointDeliver
<1>5. CASE Vanish
  <2>1. gone' /\ UNCHANGED <<pc, img, polled, mem, set>>
    BY <1>5 DEF Vanish, hostVars, epVars
  <2>2. InHand'
    BY <1>5, <2>1 DEF DeliverInv, InHand, Vanish, hostVars
  <2>3. Arrivals'
    <3>1. \A i \in Image : Arrived(i) => Arrived(i)'
      BY <2>1 DEF Arrived, Whole
    <3> QED
      BY <2>1, <3>1, OthersArrivals DEF DeliverInv
  <2> QED
    BY <1>1, <2>1, <2>2, <2>3 DEF DeliverInv, MemIntact, SetAfterData
<1>6. CASE UNCHANGED vars
  <2>1. UNCHANGED <<pc, img, pos, ctx, polled, used, avail, desc, blk, mem, set, gone>>
    BY <1>6 DEF vars
  <2>2. Posted' = Posted
    BY <2>1 DEF Posted, Polling
  <2>3. \A m \in Nat : Consumed(m) => Consumed(m)'
    BY <2>1, <2>2, StillConsumed
  <2>4. Arrivals'
    <3>1. \A i \in Image : Arrived(i) => Arrived(i)'
      BY <2>1 DEF Arrived, Whole
    <3> QED
      BY <2>1, <3>1, OthersArrivals DEF DeliverInv
  <2>5. MemIntact' /\ SetAfterData' /\ InHand'
    BY <2>1 DEF DeliverInv, MemIntact, SetAfterData, InHand, Holds, IsItem, Data
  <2> QED
    BY <1>1, <2>1, <2>3, <2>4, <2>5 DEF DeliverInv
<1> QED
  BY <1>2, <1>3, <1>4, <1>5, <1>6 DEF Next

LEMMA DeliverInvariant == DeliverAssumption => (Spec => []DeliverInv)
<1> SUFFICES ASSUME DeliverAssumption PROVE Spec => []DeliverInv
  OBVIOUS
<1>1. Init => DeliverInv
  BY InitDeliver
<1>2. DeliverInv /\ [Next]_vars => DeliverInv'
  BY NextDeliver
<1> QED
  BY <1>1, <1>2, PTL DEF Spec

\* No chunk ever lands at the load address of another, for any number of
\* descriptors and at least as many blocks, whatever the phases in which the
\* descriptor ring, the blocks and the header words wrap.
THEOREM RingMemIntact ==
  ASSUME DeliverAssumption
  PROVE  Spec => []MemIntact
<1>1. DeliverInv => MemIntact
  BY DEF DeliverInv
<1> QED
  BY <1>1, DeliverInvariant, PTL

\* When the endpoint meets a SET_*_ADDR command the image is all there.
THEOREM RingSetAfterData ==
  ASSUME DeliverAssumption
  PROVE  Spec => []SetAfterData
<1>1. DeliverInv => SetAfterData
  BY DEF DeliverInv
<1> QED
  BY <1>1, DeliverInvariant, PTL

\* A firmware request that reports success has delivered all three images,
\* whatever has failed before.  Only the last image can be missing, and only if
\* the card vanished between the reads of the poll that ended the request: a card
\* that is gone when a poll begins is never taken for one that has finished.
THEOREM RingDelivers ==
  ASSUME DeliverAssumption
  PROVE  Spec => []DeliveredOnSuccess
<1>1. DeliverInv => DeliveredOnSuccess
  BY DEF DeliverInv, Arrivals
<1> QED
  BY <1>1, DeliverInvariant, PTL

(***************************************************************************)
(* The ring implements FwDelivery.  Only the endpoint moves its memory; by *)
(* DeliverInv what it takes is the next item of the image the host is at,  *)
(* and the images in front of that one are complete.                       *)
(***************************************************************************)
LEMMA DeliveryChunk == Delivery!Chunk = Chunk /\ Delivery!Image = Image
  BY DEF Delivery!Chunk, Delivery!Image, Chunk, Image

LEMMA InitDelivery ==
  ASSUME Init
  PROVE  Delivery!Init
BY DeliveryChunk DEF Init, Delivery!Init, Result

\* A step of the host moves nothing but the result.
LEMMA FailDelivery ==
  ASSUME Fail, pc \notin {"done", "failed"}
  PROVE  Delivery!Fail
BY DEF Fail, epVars, Result, Delivery!Fail

LEMMA HostDelivery ==
  ASSUME DeliverInv, DeliverInv', Host
  PROVE  Delivery!Next \/ UNCHANGED Delivery!deliveryVars
<1>1. pc \notin {"done", "failed"}
  BY DEF Host, pcie_ring_wait_ep_ready, pcie_ring_ctx_init, CtxNum, CtxMaxBlk, CtxAvail,
         PostWait, PostDesc, PostCopy, PostPublish, pcie_ring_xfer_poll, PollUsed, PollNum,
         PollAvail, PollTimedOut, TimedOut
<1>2. CASE Fail
  BY <1>1, <1>2, FailDelivery DEF Delivery!Next
<1>3. CASE ~Fail
  <2>1. UNCHANGED <<mem, set, gone>> /\ pc' # "failed"
    BY <1>3 DEF Host, pcie_ring_wait_ep_ready, pcie_ring_ctx_init, CtxNum, CtxMaxBlk,
                CtxAvail, PostWait, PostDesc, PostCopy, PostPublish, pcie_ring_xfer_poll,
                PollUsed, PollNum, PollAvail, PollTimedOut, TimedOut, epVars
  <2>2. CASE pc' # "done"
    BY <1>1, <2>1, <2>2 DEF Result, Delivery!deliveryVars
  <2>3. CASE pc' = "done"
    <3>1. \A i \in Image : (i = 3 /\ gone) \/ set[i] = "whole"
      BY <2>1, <2>3 DEF DeliverInv, Arrivals, DeliveredOnSuccess, LostInPoll
    <3>2. Delivery!EarlierComplete(3) /\ (Delivery!Complete(3) \/ gone)
      BY <3>1, DeliveryChunk DEF Delivery!EarlierComplete, Delivery!Complete, Image
    <3>3. Delivery!Succeed
      BY <1>1, <2>1, <2>3, <3>2 DEF Result, Delivery!Succeed
    <3> QED
      BY <3>3 DEF Delivery!Next
  <2> QED
    BY <2>2, <2>3
<1> QED
  BY <1>2, <1>3

LEMMA EndpointDelivery ==
  ASSUME DeliverInv, Endpoint
  PROVE  Delivery!Next \/ UNCHANGED Delivery!deliveryVars
<1>1. Result' = Result /\ ~gone /\ gone' = gone
  BY DEF Endpoint, hostVars, Result
<1>n. /\ img \in Image /\ Chunks[img] \in Nat
      /\ mem \in [Chunk -> Chunk \cup {NULL}] /\ set \in [Image -> {"no", "whole", "torn"}]
  BY ImgLength DEF DeliverInv, TypeInv, TypeOK
<1>2. Delivery!EarlierComplete(img)
  BY <1>1, DeliveryChunk DEF DeliverInv, Arrivals, EarlierArrived, Arrived,
                             Delivery!EarlierComplete, Delivery!Complete
<1> PICK m \in Nat : Consumed(m) /\ Takes(m)
  BY EndpointTakes
<1>3. CASE m < Chunks[img]
  <2>1. /\ <<img, m>> \in Chunk
        /\ mem' = [mem EXCEPT ![<<img, m>>] = <<img, m>>] /\ set' = set
    BY <1>3, <1>n DEF Takes
  <2>2. CASE mem[<<img, m>>] = <<img, m>>
    <3>1. mem' = mem
      BY <1>n, <2>1, <2>2
    <3> QED
      BY <1>1, <2>1, <3>1 DEF Delivery!deliveryVars
  <2>3. CASE mem[<<img, m>>] # <<img, m>>
    <3>1. mem[<<img, m>>] = NULL
      BY <2>1, <2>3 DEF DeliverInv, MemIntact
    <3>2. \A j \in 0 .. m - 1 : mem[<<img, j>>] = <<img, j>>
      BY <1>3, <1>n DEF Consumed
    <3>3. Delivery!Land(img, m)
      BY <1>1, <1>2, <2>1, <3>1, <3>2 DEF Delivery!Land
    <3>4. img \in Delivery!Image /\ m \in 0 .. Chunks[img] - 1
      BY <1>3, <1>n, DeliveryChunk
    <3> QED
      BY <3>3, <3>4 DEF Delivery!Next
  <2> QED
    BY <2>2, <2>3
<1>4. CASE m = Chunks[img]
  <2>1. mem' = mem /\ set' = [set EXCEPT ![img] = "whole"]
    BY <1>4, <1>n DEF Takes
  <2>2. CASE set[img] = "whole"
    <3>1. set' = set
      BY <1>n, <2>1, <2>2
    <3> QED
      BY <1>1, <2>1, <3>1 DEF Delivery!deliveryVars
  <2>3. CASE set[img] # "whole"
    <3>1. set[img] = "no"
      BY <1>n, <2>3 DEF DeliverInv, SetAfterData
    <3>2. \A k \in 0 .. Chunks[img] - 1 : mem[<<img, k>>] = <<img, k>>
      BY <1>4, <1>n DEF Consumed
    <3>3. Delivery!Announce(img)
      BY <1>1, <1>2, <2>1, <3>1, <3>2 DEF Delivery!Announce
    <3> QED
      BY <1>n, <3>3, DeliveryChunk DEF Delivery!Next
  <2> QED
    BY <2>2, <2>3
<1> QED
  BY <1>3, <1>4 DEF Takes

\* The user's second attempt is a step of the abstract request too, and so is the
\* card's disappearance.
LEMMA NextDelivery ==
  ASSUME DeliverInv, DeliverInv', [Next]_vars
  PROVE  [Delivery!Next]_(Delivery!deliveryVars)
<1>1. CASE Host
  BY <1>1, HostDelivery
<1>2. CASE Retry
  <2>1. Delivery!Retry
    BY <1>2 DEF Retry, epVars, Result, Delivery!Retry
  <2> QED
    BY <2>1 DEF Delivery!Next
<1>3. CASE Endpoint
  BY <1>3, EndpointDelivery
<1>4. CASE Vanish
  <2>1. Delivery!Vanish
    BY <1>4 DEF Vanish, hostVars, epVars, Result, Delivery!Vanish
  <2> QED
    BY <2>1 DEF Delivery!Next
<1>5. CASE UNCHANGED vars
  BY <1>5 DEF vars, Result, Delivery!deliveryVars
<1> QED
  BY <1>1, <1>2, <1>3, <1>4, <1>5 DEF Next

\* Seen without the ring, a firmware request delivers the images in order, chunk
\* by chunk and each exactly once, announces an image when it is whole and
\* before the next one begins, and succeeds last, retries included.  The one
\* exception is a card that vanishes: success may then come before the end of the
\* last image, but never before the end of the others.
THEOREM ImplementsDelivery ==
  ASSUME DeliverAssumption
  PROVE  Spec => DeliversInOrder
<1>1. Init => Delivery!Init
  BY InitDelivery
<1>2. DeliverInv /\ DeliverInv' /\ [Next]_vars => [Delivery!Next]_(Delivery!deliveryVars)
  BY NextDelivery
<1>3. Spec => []DeliverInv
  BY DeliverInvariant
<1> QED
  BY <1>1, <1>2, <1>3, PTL DEF Spec, DeliversInOrder, Delivery!Spec
=============================================================================
