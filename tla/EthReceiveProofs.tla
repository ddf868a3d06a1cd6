-------------------------- MODULE EthReceiveProofs --------------------------
(***************************************************************************)
(* What EthReceive.tla guarantees for every length of the ring, size of    *)
(* the pool and of the mailbox, and number of frames.  That no pbuf is     *)
(* lost rests on the descriptors: a pbuf is filled with a frame because    *)
(* every descriptor the DMA does not own holds one.                        *)
(***************************************************************************)
EXTENDS EthReceive, SequenceTheorems, TLAPS

\* A descriptor the DMA has given to the CPU holds a frame.
Filled == \A d \in Ring : ~own[d] => Rx_Buff[d] \in Frame

\* What the task holds at each step: the descriptor from alloc to release, the pbuf
\* from copy to input.
InHand ==
  /\ pc \in {"alloc", "copy", "release"} => ~own[FSRxDesc]
  /\ pc \in {"none", "wait", "get", "alloc", "copy"} => p = NULL
  /\ pc = "input" => p # NULL
  /\ spc = "create" <=> pc = "none"

EInv == TypeOK /\ Filled /\ InHand /\ PbufsConserved

LEMMA AfterInRing == \A d \in Ring : After(d) \in Ring
BY EthReceiveAssumption DEF Ring, After

LEMMA EthInit == Init => EInv
<1> SUFFICES ASSUME Init PROVE EInv
  OBVIOUS
<1>1. mbox \in Seq([frame : Frame, ethernet : BOOLEAN]) /\ Len(mbox) = 0
  BY DEF Init
<1>2. TypeOK
  <2>1. /\ 0 \in Ring /\ own \in [Ring -> BOOLEAN]
        /\ Rx_Buff \in [Ring -> Frame \cup {NoFrame}]
    BY EthReceiveAssumption DEF Init, Ring
  <2>2. 0 \in 0..MaxFrames /\ 0 \in 0..PoolSize /\ PoolSize \in 0..PoolSize /\ Len(mbox) <= MboxSize
    BY <1>1, EthReceiveAssumption
  <2>3. QED
    BY <1>1, <2>1, <2>2 DEF Init, TypeOK, NULL
<1>3. Filled /\ InHand
  BY EthReceiveAssumption DEF Init, Filled, InHand, Ring
<1>4. PbufsConserved
  BY <1>1, EthReceiveAssumption DEF Init, PbufsConserved, NULL
<1>5. QED
  BY <1>2, <1>3, <1>4 DEF EInv

LEMMA EthNext == EInv /\ [Next]_vars => EInv'
<1> SUFFICES ASSUME EInv, [Next]_vars PROVE EInv'
  OBVIOUS
<1> USE DEF EInv
<1>1. /\ mbox \in Seq([frame : Frame, ethernet : BOOLEAN]) /\ Len(mbox) \in Nat
      /\ pool \in Nat /\ stack \in Nat /\ PoolSize \in Nat /\ MboxSize \in Nat /\ MaxFrames \in Nat
  BY EthReceiveAssumption DEF TypeOK
<1> USE DEF NULL, NoFrame
<1>2. CASE ETH_lowLevelInit
  <2>1. CASE Create
    BY <2>1 DEF Create, TypeOK, Filled, InHand, PbufsConserved, eth, hal, lwip, history
  <2>2. CASE Start \/ Started
    <3>1. /\ UNCHANGED <<eth, unlocks, s_xSemaphore, task, lwip, history>> /\ locked' \in BOOLEAN
          /\ spc \in {"start", "starting"} /\ spc' \in {"starting", "flags"}
      BY <2>2 DEF Start, Started
    <3>2. QED
      BY <3>1 DEF TypeOK, Filled, InHand, PbufsConserved, eth, task, lwip, history
  <2>3. CASE SetFlags
    BY <2>3 DEF SetFlags, TypeOK, Filled, InHand, PbufsConserved, eth, hal, task, lwip, history
  <2>4. QED
    BY <1>2, <2>1, <2>2, <2>3 DEF ETH_lowLevelInit
<1>3. CASE ETH_TransmitFrame
  <2>1. UNCHANGED <<spc, eth, unlocks, s_xSemaphore, task, lwip, history>> /\ locked' \in BOOLEAN
    BY <1>3 DEF ETH_TransmitFrame, Transmit, Transmitted
  <2>2. QED
    BY <2>1 DEF TypeOK, Filled, InHand, PbufsConserved, eth, task, lwip, history
<1>4. CASE Receive
  <2>1. nArrived' \in Frame
    BY <1>4, <1>1 DEF Receive, TypeOK, Frame
  <2>2. CASE suspended
    BY <1>4, <2>1, <2>2 DEF Receive, TypeOK, Filled, InHand, PbufsConserved, Frame, hal, task, lwip, history
  <2>3. CASE ~suspended
    <3>1. /\ Rx_Buff' = [Rx_Buff EXCEPT ![dma] = nArrived']
          /\ own' = [own EXCEPT ![dma] = FALSE] /\ dma' = After(dma)
          /\ suspended' = ~own'[dma'] /\ rs' = TRUE
          /\ UNCHANGED <<spc, hal, s_xSemaphore, task, lwip, history>>
      BY <1>4, <2>3 DEF Receive
    <3>2. /\ Rx_Buff' \in [Ring -> Frame \cup {NoFrame}]
          /\ own' \in [Ring -> BOOLEAN] /\ dma' \in Ring
      BY <2>1, <3>1, AfterInRing DEF TypeOK
    <3>3. TypeOK'
      BY <2>1, <3>1, <3>2 DEF TypeOK, Frame, hal, task, lwip, history
    <3>4. Filled'
      BY <2>1, <3>1 DEF Filled, TypeOK
    <3>5. InHand'
      BY <2>3, <3>1 DEF InHand, TypeOK, task
    <3>6. PbufsConserved'
      BY <3>1 DEF PbufsConserved, task, lwip
    <3>7. QED
      BY <3>3, <3>4, <3>5, <3>6
  <2>4. QED
    BY <2>2, <2>3
<1>5. CASE ETH_IRQHandler
  <2>1. /\ rs' = FALSE /\ s_xSemaphore' = 1 /\ locked' = (locked /\ ~unlocks)
        /\ UNCHANGED <<spc, nArrived, own, Rx_Buff, dma, suspended, unlocks, task, lwip, history>>
    BY <1>5 DEF ETH_IRQHandler
  <2>2. rs' \in BOOLEAN /\ locked' \in BOOLEAN
    BY Zenon, <2>1
  <2>3. TypeOK'
    <3>1. UNCHANGED <<spc, nArrived, own, Rx_Buff, dma, suspended, unlocks, pc, RxDesc, FSRxDesc, p,
                      pool, mbox, stack, starved, refused, lastPosted>>
      BY <2>1 DEF task, lwip, history
    <3>2. QED
      BY <2>1, <2>2, <3>1 DEF TypeOK
  <2>4. Filled' /\ InHand'
    BY <2>1 DEF Filled, InHand, task
  <2>5. PbufsConserved'
    BY <2>1 DEF PbufsConserved, task, lwip
  <2>6. QED
    BY <2>3, <2>4, <2>5
<1>6. CASE ETH_taskMain
  <2>1. CASE Wait
    BY <2>1 DEF Wait, TypeOK, Filled, InHand, PbufsConserved, eth, hal, lwip, history
  <2>2. CASE GetReceivedFrame
    BY <2>2, AfterInRing DEF GetReceivedFrame, TypeOK, Filled, InHand, PbufsConserved, eth, hal, lwip
  <2>3. CASE Alloc
    <3>1. /\ pool' \in 0..PoolSize /\ starved' \in BOOLEAN /\ pc' \in {"copy", "release"}
          /\ pc = "alloc"
          /\ UNCHANGED <<spc, eth, hal, s_xSemaphore, RxDesc, FSRxDesc, p, mbox, stack, refused, lastPosted>>
      <4>1. pool \in 0..PoolSize /\ starved \in BOOLEAN
        BY DEF TypeOK
      <4>2. pool > 0 => pool - 1 \in 0..PoolSize
        BY <4>1, <1>1
      <4>3. CASE pool > 0
        BY <2>3, <4>1, <4>2, <4>3 DEF Alloc
      <4>4. CASE ~(pool > 0)
        BY <2>3, <4>1, <4>4 DEF Alloc
      <4>5. QED
        BY <4>3, <4>4
    <3>2. TypeOK' /\ Filled' /\ InHand'
      <4>1. TypeOK'
        BY <3>1 DEF TypeOK, eth, hal
      <4>2. Filled' /\ InHand'
        BY <3>1 DEF Filled, InHand, eth
      <4>3. QED
        BY <4>1, <4>2
    <3>3. PbufsConserved'
      BY <2>3, <1>1 DEF Alloc, InHand, PbufsConserved
    <3>4. QED
      BY <3>2, <3>3
  <2>4. CASE Copy
    <3>1. p' \in Frame /\ p' # NULL
      BY <2>4 DEF Copy, TypeOK, InHand, Filled, Frame
    <3>2. TypeOK' /\ Filled' /\ InHand'
      BY <2>4, <3>1 DEF Copy, TypeOK, Filled, InHand, eth, hal, lwip, history
    <3>3. PbufsConserved'
      BY <2>4, <3>1 DEF Copy, InHand, PbufsConserved, lwip
    <3>4. QED
      BY <3>2, <3>3
  <2>5. CASE Release
    BY <2>5 DEF Release, TypeOK, Filled, InHand, PbufsConserved, hal, lwip, history
  <2>6. CASE Resume
    BY <2>6 DEF Resume, TypeOK, Filled, InHand, PbufsConserved, hal, lwip, history
  <2>7. CASE Input
    <3>1. p \in Frame /\ p # NULL /\ pc' = "get" /\ p' = NULL
      BY <2>7 DEF Input, TypeOK, InHand
    <3>2. CASE Len(mbox) < MboxSize
      <4> DEFINE m == [frame |-> p, ethernet |-> spc = "up"]
      <4>1. m \in [frame : Frame, ethernet : BOOLEAN] /\ mbox' = Append(mbox, m) /\ lastPosted' = p
        BY <2>7, <3>1, <3>2 DEF Input, Post
      <4>2. /\ mbox' \in Seq([frame : Frame, ethernet : BOOLEAN]) /\ Len(mbox') = Len(mbox) + 1
            /\ lastPosted' \in 0..MaxFrames
        <5> HIDE DEF m
        <5> QED BY <3>1, <4>1, <1>1, AppendProperties DEF Frame
      <4>3. PbufsConserved'
        BY <2>7, <3>1, <3>2, <4>2, <1>1 DEF Input, PbufsConserved
      <4>4. TypeOK' /\ Filled' /\ InHand'
        BY <2>7, <3>1, <3>2, <4>2, <1>1 DEF Input, TypeOK, Filled, InHand, eth, hal
      <4>5. QED
        BY <4>3, <4>4
    <3>3. CASE ~(Len(mbox) < MboxSize)
      <4>1. pool' = pool + 1 /\ UNCHANGED <<spc, eth, hal, s_xSemaphore, RxDesc, FSRxDesc, mbox, lastPosted, stack, starved, refused>>
        BY <2>7, <3>3 DEF Input
      <4>2. PbufsConserved'
        BY <3>1, <4>1, <1>1, <2>7 DEF PbufsConserved, Input
      <4>3. pool' \in 0..PoolSize
        BY <4>1, <4>2, <3>1, <1>1 DEF PbufsConserved
      <4>4. TypeOK' /\ Filled' /\ InHand'
        BY <2>7, <3>1, <4>1, <4>3 DEF TypeOK, Filled, InHand, eth, hal, Input
      <4>5. QED
        BY <4>2, <4>4
    <3>4. QED
      BY <3>2, <3>3
  <2>8. QED
    BY <1>6, <2>1, <2>2, <2>3, <2>4, <2>5, <2>6, <2>7 DEF ETH_taskMain, ETH_lowLevelInput
<1>7. CASE Fetch
  <2>1. mbox' \in Seq([frame : Frame, ethernet : BOOLEAN]) /\ Len(mbox') = Len(mbox) - 1
    BY <1>7, <1>1, HeadTailProperties DEF Fetch
  <2>2. PbufsConserved'
    <3> DEFINE held == IF pc = "copy" \/ p # NULL THEN 1 ELSE 0
    <3>1. held \in {0, 1} /\ held' = held /\ pool' = pool /\ stack' = stack + 1
      BY <1>7 DEF Fetch, task
    <3>2. pool + held + Len(mbox) + stack = PoolSize
      BY DEF PbufsConserved
    <3>3. SUFFICES pool' + held' + Len(mbox') + stack' = PoolSize
      BY DEF PbufsConserved
    <3> HIDE DEF held
    <3>4. QED
      BY <2>1, <3>1, <3>2, <1>1
  <2>3. stack' \in 0..PoolSize
    BY <1>7, <2>1, <2>2, <1>1 DEF Fetch, PbufsConserved, task
  <2>4. TypeOK' /\ Filled' /\ InHand'
    BY <1>7, <2>1, <2>3, <1>1 DEF Fetch, TypeOK, Filled, InHand, eth, hal, task, history
  <2>5. QED
    BY <2>2, <2>4
<1>8. CASE Free
  <2>1. PbufsConserved'
    BY <1>8, <1>1 DEF Free, PbufsConserved, task
  <2>2. pool' \in 0..PoolSize /\ stack' \in 0..PoolSize
    BY <1>8, <2>1, <1>1 DEF Free, PbufsConserved, task, TypeOK
  <2>3. TypeOK' /\ Filled' /\ InHand'
    BY <1>8, <2>2 DEF Free, TypeOK, Filled, InHand, eth, hal, task, history
  <2>4. QED
    BY <2>1, <2>3
<1>9. CASE UNCHANGED vars
  BY <1>9 DEF vars, eth, hal, task, lwip, history, TypeOK, Filled, InHand, PbufsConserved
<1>10. QED
  BY <1>2, <1>3, <1>4, <1>5, <1>6, <1>7, <1>8, <1>9 DEF Next

LEMMA EthInvariant == Spec => []EInv
<1>1. QED
  BY EthInit, EthNext, PTL DEF Spec

\* The driver's state is always well formed: the mailbox is never over its size and
\* the pool never over the number of pbufs, which no frame is freed into twice.
THEOREM EthTypeCorrect == Spec => []TypeOK
<1>1. EInv => TypeOK
  BY DEF EInv
<1>2. QED
  BY <1>1, EthInvariant, PTL

\* Each pbuf is in the pool, in the task's hand, posted, or with lwIP's thread,
\* whichever of them are refused or run out.
THEOREM NoPbufIsLost == Spec => []PbufsConserved
<1>1. EInv => PbufsConserved
  BY DEF EInv
<1>2. QED
  BY <1>1, EthInvariant, PTL
-----------------------------------------------------------------------------
(***************************************************************************)
(* A sleeping task leaves no frame and no stopped DMA behind.  The taken   *)
(* descriptors are an arc of the ring, from the oldest one, which the task *)
(* has in hand or looks at next, to the one the DMA fills next.            *)
(***************************************************************************)

Plus(d, k) == IF d + k < NumDesc THEN d + k ELSE d + k - NumDesc
Oldest == IF pc \in {"alloc", "copy", "release"} THEN FSRxDesc ELSE RxDesc

Arc == \E n \in 0..NumDesc :
         /\ dma = Plus(Oldest, n)
         /\ \A k \in 0..(NumDesc - 1) : (own[Plus(Oldest, k)] <=> k >= n)

NextOne == pc \in {"alloc", "copy", "release"} => RxDesc = After(FSRxDesc)

\* The DMA stops when the ring is full; then it is told to go on, or the task is on its way.
Stopped ==
  /\ ~suspended => own[dma]
  /\ suspended /\ pc # "resume" => ~own[dma]
  /\ suspended => \/ rs \/ s_xSemaphore = 1
                  \/ pc \in {"get", "alloc", "copy", "release", "input"}
                  \/ pc = "resume" /\ own[dma]
                  \/ pc = "wait" /\ refused

\* The task leaves its loop with frames in the ring only for want of a pbuf, or refused.
Left ==
  /\ pc \in {"release", "resume"} /\ p = NULL => starved
  /\ Asleep /\ (\E d \in Ring : ~own[d]) => starved \/ refused

\* A handler that releases the lock has done so before the task it wakes runs.
Unlocked ==
  /\ locked => spc \notin {"create", "start"}
  /\ unlocks => ~refused /\ (locked => Idle)

SInv == Arc /\ NextOne /\ Stopped /\ Left /\ Unlocked

LEMMA PlusInRing ==
  ASSUME NEW d \in Ring, NEW k \in 0..NumDesc PROVE Plus(d, k) \in Ring
BY EthReceiveAssumption DEF Plus, Ring

LEMMA PlusZero == ASSUME NEW d \in Ring PROVE Plus(d, 0) = d /\ Plus(d, NumDesc) = d
BY EthReceiveAssumption DEF Plus, Ring

LEMMA PlusNext ==
  ASSUME NEW d \in Ring, NEW k \in 0..(NumDesc - 1) PROVE After(Plus(d, k)) = Plus(d, k + 1)
<1>1. NumDesc \in Nat \ {0} /\ d \in 0..(NumDesc - 1)
  BY EthReceiveAssumption DEF Ring
<1>2. \A x \in 0..(NumDesc - 1) : After(x) = IF x + 1 < NumDesc THEN x + 1 ELSE 0
  BY <1>1 DEF After
<1>3. Plus(d, k) \in 0..(NumDesc - 1)
  BY <1>1 DEF Plus
<1>4. QED
  BY <1>1, <1>2, <1>3 DEF Plus

LEMMA PlusAfter ==
  ASSUME NEW d \in Ring, NEW k \in 0..(NumDesc - 1) PROVE Plus(After(d), k) = Plus(d, k + 1)
<1>1. NumDesc \in Nat \ {0} /\ d \in 0..(NumDesc - 1)
  BY EthReceiveAssumption DEF Ring
<1>2. After(d) = IF d + 1 < NumDesc THEN d + 1 ELSE 0
  BY <1>1 DEF After
<1>3. QED
  BY <1>1, <1>2 DEF Plus

LEMMA PlusApart ==
  ASSUME NEW d \in Ring, NEW j \in 0..(NumDesc - 1), NEW k \in 0..(NumDesc - 1), j # k
  PROVE  Plus(d, j) # Plus(d, k)
BY EthReceiveAssumption DEF Plus, Ring

\* Every descriptor lies somewhere after any other.
LEMMA PlusOnto ==
  ASSUME NEW d \in Ring, NEW x \in Ring PROVE \E k \in 0..(NumDesc - 1) : x = Plus(d, k)
<1>1. NumDesc \in Nat \ {0} /\ d \in 0..(NumDesc - 1) /\ x \in 0..(NumDesc - 1)
  BY EthReceiveAssumption DEF Ring
<1>2. CASE x >= d
  <2>1. x - d \in 0..(NumDesc - 1) /\ x = Plus(d, x - d)
    BY <1>1, <1>2 DEF Plus
  <2>2. QED BY <2>1
<1>3. CASE x < d
  <2>1. x - d + NumDesc \in 0..(NumDesc - 1) /\ x = Plus(d, x - d + NumDesc)
    BY <1>1, <1>3 DEF Plus
  <2>2. QED BY <2>1
<1>4. QED BY <1>1, <1>2, <1>3

LEMMA StallInit == Init => SInv
<1> SUFFICES ASSUME Init PROVE SInv
  OBVIOUS
<1>1. Oldest = 0 /\ 0 \in Ring /\ 0 \in 0..NumDesc
  BY EthReceiveAssumption DEF Init, Oldest, Ring
<1>2. dma = Plus(Oldest, 0)
  BY <1>1, PlusZero DEF Init
<1>3. \A k \in 0..(NumDesc - 1) : (own[Plus(Oldest, k)] <=> k >= 0)
  <2>1. SUFFICES ASSUME NEW k \in 0..(NumDesc - 1) PROVE own[Plus(Oldest, k)] /\ k >= 0
    OBVIOUS
  <2>2. Plus(Oldest, k) \in Ring /\ k >= 0
    BY <1>1, PlusInRing, EthReceiveAssumption
  <2>3. QED BY <2>2 DEF Init
<1>4. Arc
  BY <1>1, <1>2, <1>3 DEF Arc
<1>5. NextOne /\ Stopped /\ Left /\ Unlocked
  BY <1>1 DEF Init, NextOne, Stopped, Left, Unlocked, Asleep
<1>6. QED BY <1>4, <1>5 DEF SInv

\* A step that leaves the ring and the task alone.
LEMMA ArcKept ==
  ASSUME Arc, UNCHANGED <<own, dma>>, Oldest' = Oldest PROVE Arc'
BY DEF Arc

LEMMA StallReceive == ASSUME EInv, SInv, Receive PROVE SInv'
<1>1. /\ Oldest \in Ring /\ dma \in Ring /\ own \in [Ring -> BOOLEAN] /\ Oldest' = Oldest
      /\ UNCHANGED <<pc, RxDesc, FSRxDesc, p, s_xSemaphore, starved, refused, spc, locked, unlocks>>
  BY DEF EInv, TypeOK, Oldest, Receive, task, hal, history
<1>2. CASE suspended
  <2>1. UNCHANGED <<own, dma, suspended, rs>>
    BY <1>2 DEF Receive
  <2>2. QED BY <1>1, <2>1, ArcKept DEF SInv, NextOne, Stopped, Left, Unlocked, Asleep, Idle
<1>3. CASE ~suspended
  <2>1. /\ own' = [own EXCEPT ![dma] = FALSE] /\ dma' = After(dma)
        /\ suspended' = ~own'[dma'] /\ rs' = TRUE
    BY <1>3 DEF Receive
  <2>2. PICK n \in 0..NumDesc :
          /\ dma = Plus(Oldest, n) /\ \A k \in 0..(NumDesc - 1) : (own[Plus(Oldest, k)] <=> k >= n)
    BY DEF SInv, Arc
  <2>3. n \in 0..(NumDesc - 1)
    <3>1. n = NumDesc => dma = Plus(Oldest, 0) /\ 0 \in 0..(NumDesc - 1) /\ ~(0 >= n)
      BY <1>1, <2>2, PlusZero, EthReceiveAssumption
    <3>2. n # NumDesc
      BY <1>3, <2>2, <3>1 DEF SInv, Stopped
    <3>3. QED BY <3>2, EthReceiveAssumption
  <2>4. n + 1 \in 0..NumDesc /\ dma' = Plus(Oldest, n + 1)
    BY <1>1, <2>1, <2>2, <2>3, PlusNext, EthReceiveAssumption
  <2>5. ASSUME NEW k \in 0..(NumDesc - 1) PROVE (own'[Plus(Oldest, k)] <=> k >= n + 1)
    <3>1. Plus(Oldest, k) \in Ring
      BY <1>1, PlusInRing, EthReceiveAssumption
    <3>2. CASE k = n
      <4>1. own'[dma] = FALSE /\ ~(k >= n + 1)
        BY <1>1, <2>1, <3>2
      <4>2. QED BY <2>2, <3>2, <4>1
    <3>3. CASE k # n
      <4>1. Plus(Oldest, k) # dma
        BY <1>1, <2>2, <2>3, <3>3, PlusApart
      <4>2. (own'[Plus(Oldest, k)] <=> k >= n)
        BY <1>1, <2>1, <2>2, <3>1, <4>1
      <4>3. (k >= n <=> k >= n + 1)
        BY <2>3, <3>3, EthReceiveAssumption
      <4>4. QED BY <4>2, <4>3
    <3>4. QED BY <3>2, <3>3
  <2>6. Arc'
    BY <1>1, <2>4, <2>5 DEF Arc
  <2>7. own' \in [Ring -> BOOLEAN] /\ dma' \in Ring
    BY <1>1, <2>1, AfterInRing
  <2>8. NextOne' /\ Stopped' /\ Left' /\ Unlocked'
    BY <1>1, <2>1, <2>7 DEF SInv, NextOne, Stopped, Left, Unlocked, Asleep, Idle
  <2>9. QED BY <2>6, <2>8 DEF SInv
<1>4. QED BY <1>2, <1>3

\* The descriptor at the end of the arc is given back: the next one is the oldest.
LEMMA StallRelease == ASSUME EInv, SInv, Release PROVE SInv'
<1>1. /\ pc = "release" /\ pc' = "resume" /\ own' = [own EXCEPT ![FSRxDesc] = TRUE]
      /\ UNCHANGED <<dma, suspended, rs, s_xSemaphore, RxDesc, FSRxDesc, p, starved, refused, spc, locked, unlocks>>
  BY DEF Release, hal, history
<1>2. /\ own \in [Ring -> BOOLEAN] /\ FSRxDesc \in Ring /\ dma \in Ring /\ ~own[FSRxDesc]
      /\ Oldest = FSRxDesc /\ Oldest' = After(FSRxDesc)
  BY <1>1 DEF EInv, TypeOK, InHand, Oldest, SInv, NextOne
<1>3. PICK n \in 0..NumDesc :
        /\ dma = Plus(FSRxDesc, n) /\ \A k \in 0..(NumDesc - 1) : (own[Plus(FSRxDesc, k)] <=> k >= n)
  BY <1>2 DEF SInv, Arc
<1>4. NumDesc \in Nat \ {0} /\ n \in 1..NumDesc
  <2>1. (own[FSRxDesc] <=> 0 >= n)
    BY <1>2, <1>3, PlusZero, EthReceiveAssumption
  <2>2. QED BY <1>2, <2>1, EthReceiveAssumption
<1>5. n - 1 \in 0..NumDesc /\ dma' = Plus(Oldest', n - 1)
  BY <1>1, <1>2, <1>3, <1>4, PlusAfter
<1>6. ASSUME NEW k \in 0..(NumDesc - 1) PROVE (own'[Plus(Oldest', k)] <=> k >= n - 1)
  <2>1. Plus(Oldest', k) = Plus(FSRxDesc, k + 1)
    BY <1>2, PlusAfter
  <2>2. CASE k + 1 = NumDesc
    <3>1. Plus(FSRxDesc, k + 1) = FSRxDesc
      BY <1>2, <2>2, PlusZero
    <3>2. k >= n - 1
      BY <1>4, <2>2
    <3>3. QED BY <1>1, <1>2, <2>1, <3>1, <3>2
  <2>3. CASE k + 1 < NumDesc
    <3>1. k + 1 \in 0..(NumDesc - 1) /\ 0 \in 0..(NumDesc - 1) /\ k + 1 # 0 /\ k + 1 \in 0..NumDesc
      BY <1>4, <2>3
    <3>2. Plus(FSRxDesc, k + 1) # FSRxDesc
      BY <1>2, <3>1, PlusApart, PlusZero
    <3>3. (own'[Plus(FSRxDesc, k + 1)] <=> k + 1 >= n)
      BY <1>1, <1>2, <1>3, <3>1, <3>2, PlusInRing
    <3>4. (k + 1 >= n <=> k >= n - 1)
      BY <1>4
    <3>5. QED BY <2>1, <3>3, <3>4
  <2>4. QED BY <1>4, <2>2, <2>3
<1>7. Arc'
  BY <1>5, <1>6 DEF Arc
<1>8. own'[dma']
  <2>1. n - 1 \in 0..(NumDesc - 1) /\ n - 1 >= n - 1
    BY <1>4
  <2>2. (own'[Plus(Oldest', n - 1)] <=> n - 1 >= n - 1)
    BY <1>6, <2>1
  <2>3. QED BY <1>5, <2>1, <2>2
<1>9. NextOne' /\ Stopped' /\ Left' /\ Unlocked'
  BY <1>1, <1>8 DEF SInv, NextOne, Stopped, Left, Unlocked, Asleep, Idle
<1>10. QED BY <1>7, <1>9 DEF SInv

\* The task finds no frame only in an empty ring, unless it is refused.
LEMMA StallGet == ASSUME EInv, SInv, GetReceivedFrame PROVE SInv'
<1>1. /\ pc = "get" /\ refused' = locked
      /\ UNCHANGED <<own, dma, suspended, rs, s_xSemaphore, p, spc, locked, unlocks>>
      /\ own \in [Ring -> BOOLEAN] /\ RxDesc \in Ring /\ Oldest = RxDesc
  BY DEF GetReceivedFrame, eth, hal, EInv, TypeOK, Oldest
<1>2. Unlocked'
  BY <1>1 DEF SInv, Unlocked, Idle
<1>3. CASE locked
  <2>1. pc' = "wait" /\ UNCHANGED <<RxDesc, FSRxDesc>> /\ Oldest' = Oldest
    BY <1>1, <1>3 DEF GetReceivedFrame, Oldest
  <2>2. QED BY <1>1, <1>2, <1>3, <2>1, ArcKept DEF SInv, NextOne, Stopped, Left
<1>4. CASE ~locked /\ own[RxDesc]
  <2>1. pc' = "wait" /\ starved' = FALSE /\ UNCHANGED <<RxDesc, FSRxDesc>> /\ Oldest' = Oldest
    BY <1>1, <1>4 DEF GetReceivedFrame, Oldest
  <2>2. PICK n \in 0..NumDesc :
          /\ dma = Plus(RxDesc, n) /\ \A k \in 0..(NumDesc - 1) : (own[Plus(RxDesc, k)] <=> k >= n)
    BY <1>1 DEF SInv, Arc
  <2>3. n = 0
    <3>1. 0 \in 0..(NumDesc - 1) /\ Plus(RxDesc, 0) = RxDesc
      BY <1>1, PlusZero, EthReceiveAssumption
    <3>2. (own[RxDesc] <=> 0 >= n)
      BY <2>2, <3>1
    <3>3. QED BY <1>4, <3>2, EthReceiveAssumption
  <2>4. \A d \in Ring : own[d]
    <3>1. SUFFICES ASSUME NEW d \in Ring PROVE own[d]
      OBVIOUS
    <3>2. PICK k \in 0..(NumDesc - 1) : d = Plus(RxDesc, k)
      BY <1>1, PlusOnto
    <3>3. k >= 0
      BY EthReceiveAssumption
    <3>4. QED BY <2>2, <2>3, <3>2, <3>3
  <2>5. own[dma] /\ ~suspended
    BY <1>1, <2>4 DEF EInv, TypeOK, SInv, Stopped
  <2>6. QED BY <1>1, <1>2, <2>1, <2>4, <2>5, ArcKept DEF SInv, NextOne, Stopped, Left, Asleep
<1>5. CASE ~locked /\ ~own[RxDesc]
  <2>1. pc' = "alloc" /\ FSRxDesc' = RxDesc /\ RxDesc' = After(RxDesc) /\ UNCHANGED starved
    BY <1>1, <1>5 DEF GetReceivedFrame
  <2>2. Oldest' = Oldest
    BY <1>1, <2>1 DEF Oldest
  <2>3. QED BY <1>1, <1>2, <2>1, <2>2, ArcKept DEF SInv, NextOne, Stopped, Left, Asleep
<1>6. QED BY <1>3, <1>4, <1>5

LEMMA StallNext == EInv /\ SInv /\ [Next]_vars => SInv'
<1> SUFFICES ASSUME EInv, SInv, [Next]_vars PROVE SInv'
  OBVIOUS
<1>1. CASE ETH_lowLevelInit
  <2>1. /\ UNCHANGED <<own, dma, suspended, rs, RxDesc, FSRxDesc, p, starved, refused, unlocks>>
        /\ \/ UNCHANGED <<pc, s_xSemaphore>> /\ Idle
           \/ /\ s_xSemaphore' = 1 /\ pc' = "wait" /\ pc \notin {"alloc", "copy", "release", "resume"}
              /\ spc = "create" /\ locked' = locked
        /\ locked' => locked \/ spc' = "starting"
        /\ spc' # "create" /\ (spc' = "start" => spc = "create")
    BY <1>1 DEF ETH_lowLevelInit, Create, Start, Started, SetFlags, eth, hal, task, history, EInv, InHand, TypeOK
  <2>2. Oldest' = Oldest
    BY <2>1 DEF Oldest
  <2>3. QED BY <2>1, <2>2, ArcKept DEF SInv, NextOne, Stopped, Left, Asleep, Unlocked, Idle
<1>2. CASE ETH_TransmitFrame
  <2>1. /\ UNCHANGED <<own, dma, suspended, rs, s_xSemaphore, pc, RxDesc, FSRxDesc, p, starved, refused,
                       spc, unlocks>>
        /\ Idle /\ spc = "up"
    BY <1>2 DEF ETH_TransmitFrame, Transmit, Transmitted, eth, task, history
  <2>2. Oldest' = Oldest
    BY <2>1 DEF Oldest
  <2>3. QED BY <2>1, <2>2, ArcKept DEF SInv, NextOne, Stopped, Left, Asleep, Unlocked, Idle
<1>3. CASE ETH_IRQHandler
  <2>1. /\ UNCHANGED <<own, dma, suspended, pc, RxDesc, FSRxDesc, p, starved, refused, spc, unlocks>>
        /\ s_xSemaphore' = 1 /\ (locked' => locked /\ ~unlocks)
    BY <1>3 DEF ETH_IRQHandler, task, history
  <2>2. Oldest' = Oldest
    BY <2>1 DEF Oldest
  <2>3. QED BY <2>1, <2>2, ArcKept DEF SInv, NextOne, Stopped, Left, Asleep, Unlocked, Idle
<1>4. CASE Wait
  <2>1. /\ pc = "wait" /\ pc' = "get"
        /\ UNCHANGED <<own, dma, suspended, rs, RxDesc, FSRxDesc, p, starved, refused, spc, locked, unlocks>>
        /\ s_xSemaphore = 1
    BY <1>4 DEF Wait, eth, hal, history
  <2>2. Oldest' = Oldest
    BY <2>1 DEF Oldest
  <2>3. QED BY <2>1, <2>2, ArcKept DEF SInv, NextOne, Stopped, Left, Asleep, Unlocked, Idle
<1>5. CASE Alloc \/ Copy
  <2>1. /\ UNCHANGED <<own, dma, suspended, rs, s_xSemaphore, RxDesc, FSRxDesc, refused, spc, locked, unlocks>>
        /\ pc \in {"alloc", "copy"} /\ pc' \in {"copy", "release"}
        /\ pc' = "release" /\ p' = NULL => starved'
    BY <1>5 DEF Alloc, Copy, eth, hal, history, EInv, TypeOK, InHand, Filled, Frame, NULL, NoFrame
  <2>2. Oldest' = Oldest
    BY <2>1 DEF Oldest
  <2>3. QED BY <2>1, <2>2, ArcKept DEF SInv, NextOne, Stopped, Left, Asleep, Unlocked, Idle
<1>6. CASE Resume
  <2>1. /\ pc = "resume" /\ pc' = IF p = NULL THEN "wait" ELSE "input"
        /\ suspended' = (suspended /\ ~own[dma])
        /\ UNCHANGED <<own, dma, rs, s_xSemaphore, RxDesc, FSRxDesc, p, starved, refused, spc, locked, unlocks>>
    BY <1>6 DEF Resume, hal, history
  <2>2. Oldest' = Oldest
    BY <2>1 DEF Oldest
  <2>3. QED BY <2>1, <2>2, ArcKept DEF SInv, NextOne, Stopped, Left, Asleep, Unlocked, Idle
<1>7. CASE Input
  <2>1. /\ pc = "input" /\ pc' = "get"
        /\ UNCHANGED <<own, dma, suspended, rs, s_xSemaphore, RxDesc, FSRxDesc, starved, refused, spc,
                       locked, unlocks>>
    BY <1>7 DEF Input, eth, hal
  <2>2. Oldest' = Oldest
    BY <2>1 DEF Oldest
  <2>3. QED BY <2>1, <2>2, ArcKept DEF SInv, NextOne, Stopped, Left, Asleep, Unlocked, Idle
<1>8. CASE Fetch \/ Free \/ UNCHANGED vars
  <2>1. UNCHANGED <<own, dma, suspended, rs, s_xSemaphore, pc, RxDesc, FSRxDesc, p, starved, refused,
                    spc, locked, unlocks>>
    BY <1>8 DEF Fetch, Free, vars, eth, hal, task, history
  <2>2. Oldest' = Oldest
    BY <2>1 DEF Oldest
  <2>3. QED BY <2>1, <2>2, ArcKept DEF SInv, NextOne, Stopped, Left, Asleep, Unlocked, Idle
<1>9. QED
  BY <1>1, <1>2, <1>3, <1>4, <1>5, <1>6, <1>7, <1>8, StallReceive, StallRelease, StallGet
     DEF Next, ETH_taskMain, ETH_lowLevelInput

\* A task that sleeps leaves a DMA that goes on, and frames in the ring only after one was
\* dropped for want of a pbuf, whatever calls it preempts, with a HAL whose interrupt
\* handler releases the lock; with another, except after a call that was refused
\* (ethernetif.c:352-353, 407-414, 433-445).
THEOREM NeverStalls == Spec => []NoStall
<1>1. SInv => NoStall
  BY DEF SInv, Stopped, Left, Unlocked, NoStall, Asleep
<1>2. QED
  BY <1>1, StallInit, StallNext, EthInit, EthNext, PTL DEF Spec

-----------------------------------------------------------------------------
(***************************************************************************)
(* Frames in order: along the arc, later descriptors hold later frames;    *)
(* the pbuf in hand is older than they are and newer than what was posted. *)
(***************************************************************************)

Line == \A j, k \in 0..(NumDesc - 1) :
          j < k /\ ~own[Plus(Oldest, j)] /\ ~own[Plus(Oldest, k)]
            => Rx_Buff[Plus(Oldest, j)] < Rx_Buff[Plus(Oldest, k)]

Newer == /\ lastPosted <= nArrived
         /\ \A d \in Ring : ~own[d] => lastPosted < Rx_Buff[d] /\ Rx_Buff[d] <= nArrived

PbufBetween ==
  /\ pc = "release" /\ p # NULL => p = Rx_Buff[FSRxDesc]
  /\ pc \in {"resume", "input"} /\ p # NULL =>
       /\ lastPosted < p /\ p <= nArrived
       /\ \A d \in Ring : ~own[d] => p < Rx_Buff[d]

OInv == Line /\ Newer /\ PbufBetween

LEMMA OrderInit == Init => OInv
<1> SUFFICES ASSUME Init PROVE OInv
  OBVIOUS
<1>1. \A d \in Ring : own[d]
  BY DEF Init
<1>2. 0 \in Ring /\ Oldest = 0
  BY EthReceiveAssumption DEF Ring, Init, Oldest
<1>3. \A k \in 0..(NumDesc - 1) : own[Plus(Oldest, k)]
  BY <1>1, <1>2, PlusInRing, EthReceiveAssumption
<1>4. Line
  BY <1>3 DEF Line
<1>5. Newer /\ PbufBetween
  BY <1>1 DEF Init, Newer, PbufBetween
<1>6. QED BY <1>4, <1>5 DEF OInv

\* A step that leaves the ring and the task's hand alone.
LEMMA OrderKept ==
  ASSUME OInv, UNCHANGED <<own, Rx_Buff, nArrived, lastPosted, FSRxDesc, p>>, Oldest' = Oldest,
         pc' \in {"release", "resume", "input"} /\ p # NULL => pc' = pc
  PROVE  OInv'
BY DEF OInv, Line, Newer, PbufBetween

LEMMA OrderReceive == ASSUME EInv, SInv, OInv, Receive PROVE OInv'
<1>1. /\ Oldest \in Ring /\ dma \in Ring /\ own \in [Ring -> BOOLEAN] /\ Oldest' = Oldest
      /\ Rx_Buff \in [Ring -> Frame \cup {NoFrame}] /\ nArrived \in Nat /\ nArrived' = nArrived + 1
      /\ lastPosted \in Nat /\ p \in Nat /\ FSRxDesc \in Ring
      /\ \A d \in Ring : Rx_Buff[d] \in Nat
      /\ UNCHANGED <<pc, RxDesc, FSRxDesc, p, lastPosted>>
  BY EthReceiveAssumption DEF EInv, TypeOK, Oldest, Receive, task, history, Frame, NoFrame, NULL
<1>2. CASE suspended
  <2>1. UNCHANGED <<own, Rx_Buff>>
    BY <1>2 DEF Receive
  <2>2. Line' /\ Newer'
    BY <1>1, <2>1 DEF OInv, Line, Newer
  <2>3. PbufBetween'
    BY <1>1, <2>1 DEF OInv, PbufBetween
  <2>4. QED BY <2>2, <2>3 DEF OInv
<1>3. CASE ~suspended
  <2>1. /\ own' = [own EXCEPT ![dma] = FALSE] /\ Rx_Buff' = [Rx_Buff EXCEPT ![dma] = nArrived + 1]
        /\ own[dma]
    BY <1>3, <1>1 DEF Receive, SInv, Stopped
  <2>2. PICK n \in 0..NumDesc :
          /\ dma = Plus(Oldest, n) /\ \A k \in 0..(NumDesc - 1) : (own[Plus(Oldest, k)] <=> k >= n)
    BY DEF SInv, Arc
  <2>3. /\ \A d \in Ring : d # dma => own'[d] = own[d] /\ Rx_Buff'[d] = Rx_Buff[d]
        /\ Rx_Buff'[dma] = nArrived + 1
        /\ \A d \in Ring : ~own[d] => d # dma
    BY <1>1, <2>1
  <2>4. Newer'
    <3>1. ASSUME NEW d \in Ring, ~own'[d] PROVE lastPosted < Rx_Buff'[d] /\ Rx_Buff'[d] <= nArrived + 1
      <4>1. CASE d = dma
        BY <1>1, <2>3, <4>1 DEF OInv, Newer
      <4>2. CASE d # dma
        BY <1>1, <2>3, <3>1, <4>2 DEF OInv, Newer
      <4>3. QED BY <4>1, <4>2
    <3>2. lastPosted <= nArrived + 1
      BY <1>1 DEF OInv, Newer
    <3>3. QED BY <1>1, <3>1, <3>2 DEF Newer
  <2>5. PbufBetween'
    <3>1. pc = "release" => Rx_Buff'[FSRxDesc] = Rx_Buff[FSRxDesc]
      BY <1>1, <2>3 DEF EInv, InHand
    <3>2. ASSUME pc \in {"resume", "input"}, p # NULL, NEW d \in Ring, ~own'[d] PROVE p < Rx_Buff'[d]
      <4>1. CASE d = dma
        BY <1>1, <2>3, <3>2, <4>1 DEF OInv, PbufBetween
      <4>2. CASE d # dma
        BY <1>1, <2>3, <3>2, <4>2 DEF OInv, PbufBetween
      <4>3. QED BY <4>1, <4>2
    <3>3. p <= nArrived => p <= nArrived + 1
      BY <1>1
    <3>4. QED BY <1>1, <3>1, <3>2, <3>3 DEF OInv, PbufBetween
  <2>6. Line'
    <3>1. SUFFICES ASSUME NEW j \in 0..(NumDesc - 1), NEW k \in 0..(NumDesc - 1),
                          j < k, ~own'[Plus(Oldest, j)], ~own'[Plus(Oldest, k)]
                   PROVE  Rx_Buff'[Plus(Oldest, j)] < Rx_Buff'[Plus(Oldest, k)]
      BY <1>1 DEF Line
    <3>2. Plus(Oldest, j) \in Ring /\ Plus(Oldest, k) \in Ring
      BY <1>1, PlusInRing, EthReceiveAssumption
    <3>3. Plus(Oldest, j) # dma
      <4>1. SUFFICES ASSUME Plus(Oldest, j) = dma PROVE FALSE
        OBVIOUS
      <4>2. own[Plus(Oldest, j)]
        BY <2>1, <4>1
      <4>3. j >= n
        BY <2>2, <4>2
      <4>4. k >= n
        BY <3>1, <4>3, EthReceiveAssumption
      <4>5. own[Plus(Oldest, k)]
        BY <2>2, <4>4
      <4>6. Plus(Oldest, k) # dma
        BY <1>1, <3>1, <4>1, PlusApart, EthReceiveAssumption
      <4>7. QED BY <2>3, <3>1, <3>2, <4>5, <4>6
    <3>4. ~own[Plus(Oldest, j)] /\ Rx_Buff'[Plus(Oldest, j)] = Rx_Buff[Plus(Oldest, j)]
      BY <2>3, <3>1, <3>2, <3>3
    <3>5. CASE Plus(Oldest, k) = dma
      BY <1>1, <2>3, <3>2, <3>4, <3>5 DEF OInv, Newer
    <3>6. CASE Plus(Oldest, k) # dma
      BY <2>3, <3>1, <3>2, <3>4, <3>6 DEF OInv, Line
    <3>7. QED BY <3>5, <3>6
  <2>7. QED BY <2>4, <2>5, <2>6 DEF OInv
<1>4. QED BY <1>2, <1>3

LEMMA OrderRelease == ASSUME EInv, SInv, OInv, Release PROVE OInv'
<1>1. /\ pc = "release" /\ pc' = "resume" /\ own' = [own EXCEPT ![FSRxDesc] = TRUE]
      /\ UNCHANGED <<Rx_Buff, nArrived, lastPosted, RxDesc, FSRxDesc, p>>
  BY DEF Release, history
<1>2. /\ own \in [Ring -> BOOLEAN] /\ FSRxDesc \in Ring /\ ~own[FSRxDesc]
      /\ Oldest = FSRxDesc /\ Oldest' = After(FSRxDesc)
  BY <1>1 DEF EInv, TypeOK, InHand, Oldest, SInv, NextOne
<1>3. \A d \in Ring : ~own'[d] => ~own[d] /\ d # FSRxDesc
  BY <1>1, <1>2
<1>4. Newer'
  BY <1>1, <1>3 DEF OInv, Newer
<1>5. \A d \in Ring : ~own'[d] => Rx_Buff[FSRxDesc] < Rx_Buff[d]
  <2>1. SUFFICES ASSUME NEW d \in Ring, ~own'[d] PROVE Rx_Buff[FSRxDesc] < Rx_Buff[d]
    OBVIOUS
  <2>2. PICK k \in 0..(NumDesc - 1) : d = Plus(FSRxDesc, k)
    BY <1>2, PlusOnto
  <2>3. FSRxDesc = Plus(FSRxDesc, 0) /\ 0 \in 0..(NumDesc - 1)
    BY <1>2, PlusZero, EthReceiveAssumption
  <2>4. 0 < k
    BY <1>3, <2>1, <2>2, <2>3, EthReceiveAssumption
  <2>5. QED BY <1>2, <1>3, <2>1, <2>2, <2>3, <2>4 DEF OInv, Line
<1>6. PbufBetween'
  BY <1>1, <1>2, <1>5 DEF OInv, Newer, PbufBetween
<1>7. Line'
  <2>1. SUFFICES ASSUME NEW j \in 0..(NumDesc - 1), NEW k \in 0..(NumDesc - 1),
                        j < k, ~own'[Plus(Oldest', j)], ~own'[Plus(Oldest', k)]
                 PROVE  Rx_Buff[Plus(Oldest', j)] < Rx_Buff[Plus(Oldest', k)]
    BY <1>1 DEF Line
  <2>2. Plus(Oldest', j) = Plus(FSRxDesc, j + 1) /\ Plus(Oldest', k) = Plus(FSRxDesc, k + 1)
    BY <1>2, PlusAfter
  <2>3. k + 1 # NumDesc
    <3>1. k + 1 = NumDesc => Plus(FSRxDesc, k + 1) = FSRxDesc
      BY <1>2, PlusZero
    <3>2. QED BY <1>2, <1>3, <2>1, <2>2, <3>1
  <2>4. j + 1 \in 0..(NumDesc - 1) /\ k + 1 \in 0..(NumDesc - 1) /\ j + 1 < k + 1
    BY <2>1, <2>3, EthReceiveAssumption
  <2>5. Plus(FSRxDesc, j + 1) \in Ring /\ Plus(FSRxDesc, k + 1) \in Ring
    BY <1>2, <2>4, PlusInRing, EthReceiveAssumption
  <2>6. ~own[Plus(FSRxDesc, j + 1)] /\ ~own[Plus(FSRxDesc, k + 1)]
    BY <1>3, <2>1, <2>2, <2>5
  <2>7. QED BY <1>2, <2>2, <2>4, <2>6 DEF OInv, Line
<1>8. QED BY <1>4, <1>6, <1>7 DEF OInv

\* What is posted is the frame in hand.
PostedNewer ==
  Len(mbox') > Len(mbox) => /\ Last(mbox').frame > lastPosted
                            /\ lastPosted' = Last(mbox').frame

LEMMA OrderPost == ASSUME EInv, OInv, Input PROVE PostedNewer /\ lastPosted' \in {p, lastPosted}
<1>1. /\ mbox \in Seq([frame : Frame, ethernet : BOOLEAN]) /\ p \in Nat /\ lastPosted \in Nat
      /\ pc = "input" /\ p # NULL /\ lastPosted < p /\ p \in Frame
  BY EthReceiveAssumption DEF Input, EInv, TypeOK, InHand, Frame, NULL, OInv, PbufBetween
<1>2. CASE Len(mbox) < MboxSize
  <2> DEFINE m == [frame |-> p, ethernet |-> spc = "up"]
  <2>1. /\ m \in [frame : Frame, ethernet : BOOLEAN] /\ m.frame = p
        /\ mbox' = Append(mbox, m) /\ lastPosted' = p
    BY <1>1, <1>2 DEF Input, Post
  <2> HIDE DEF m
  <2>2. mbox'[Len(mbox')] = m
    BY <1>1, <2>1, AppendProperties
  <2>3. Last(mbox') = m
    BY <2>2 DEF Last
  <2>4. QED BY <1>1, <2>1, <2>3 DEF PostedNewer
<1>3. CASE ~(Len(mbox) < MboxSize)
  <2>1. UNCHANGED <<mbox, lastPosted>> /\ Len(mbox) \in Nat
    BY <1>1, <1>3 DEF Input
  <2>2. QED BY <2>1 DEF PostedNewer
<1>4. QED BY <1>2, <1>3

\* No other step posts anything.
LEMMA OrderElse == ASSUME EInv, [Next]_vars, ~Input PROVE PostedNewer
<1>1. mbox \in Seq([frame : Frame, ethernet : BOOLEAN]) /\ Len(mbox) \in Nat
  BY DEF EInv, TypeOK
<1>2. CASE Fetch
  <2>1. Len(mbox') = Len(mbox) - 1
    BY <1>1, <1>2, HeadTailProperties DEF Fetch
  <2>2. QED BY <1>1, <2>1 DEF PostedNewer
<1>3. CASE ~Fetch
  <2>1. mbox' = mbox
    BY <1>3 DEF Next, vars, ETH_lowLevelInit, Create, Start, Started, SetFlags, ETH_TransmitFrame, Transmit,
       Transmitted, Receive, ETH_IRQHandler, ETH_taskMain, ETH_lowLevelInput, Wait, GetReceivedFrame, Alloc,
       Copy, Release, Resume, Free, lwip
  <2>2. QED BY <1>1, <2>1 DEF PostedNewer
<1>4. QED BY <1>2, <1>3

LEMMA OrderNext ==
  ASSUME EInv, SInv, OInv, [Next]_vars
  PROVE  OInv'
<1>1. lastPosted \in Nat /\ p \in Nat
  BY EthReceiveAssumption DEF EInv, TypeOK, Frame, NULL
<1>2. CASE Input
  <2>1. /\ pc = "input" /\ pc' = "get" /\ p' = NULL /\ p # NULL /\ lastPosted' \in {p, lastPosted}
        /\ UNCHANGED <<own, Rx_Buff, nArrived, RxDesc, FSRxDesc>>
    BY <1>2, OrderPost DEF Input, eth, EInv, InHand
  <2>2. lastPosted < p /\ p <= nArrived /\ \A d \in Ring : ~own[d] => p < Rx_Buff[d]
    BY <2>1 DEF OInv, PbufBetween
  <2>3. Newer' /\ PbufBetween'
    BY <2>1, <2>2 DEF OInv, Newer, PbufBetween
  <2>4. Oldest' = Oldest
    BY <2>1 DEF Oldest
  <2>5. Line'
    BY <2>1, <2>4 DEF OInv, Line
  <2>6. QED BY <1>1, <2>1, <2>2, <2>3, <2>5 DEF OInv
<1>3. CASE Copy
  <2>1. /\ pc = "copy" /\ pc' = "release" /\ p' = Rx_Buff[FSRxDesc]
        /\ UNCHANGED <<own, Rx_Buff, nArrived, lastPosted, RxDesc, FSRxDesc>>
    BY <1>3 DEF Copy, eth, history
  <2>2. Oldest' = Oldest
    BY <2>1 DEF Oldest
  <2>3. QED BY <2>1, <2>2 DEF OInv, Line, Newer, PbufBetween
<1>4. CASE Receive
  BY <1>4, OrderReceive DEF Receive
<1>5. CASE Release
  BY <1>5, OrderRelease DEF Release
<1>6. CASE GetReceivedFrame
  <2>1. /\ UNCHANGED <<own, Rx_Buff, nArrived, lastPosted, p>> /\ pc = "get" /\ p = NULL
        /\ \/ pc' = "wait" /\ UNCHANGED <<RxDesc, FSRxDesc>>
           \/ pc' = "alloc" /\ FSRxDesc' = RxDesc
    BY <1>6 DEF GetReceivedFrame, eth, EInv, InHand
  <2>2. Oldest' = Oldest
    BY <2>1 DEF Oldest
  <2>3. Line' /\ Newer' /\ PbufBetween'
    BY <2>1, <2>2 DEF OInv, Line, Newer, PbufBetween
  <2>4. QED BY <2>1, <2>3 DEF OInv
<1>7. CASE ETH_lowLevelInit \/ ETH_TransmitFrame \/ ETH_IRQHandler \/ Wait \/ Alloc \/ Resume \/ Fetch \/ Free \/ UNCHANGED vars
  <2>1. /\ UNCHANGED <<own, Rx_Buff, nArrived, lastPosted, RxDesc, FSRxDesc, p>>
        /\ \/ pc' = pc
           \/ p = NULL /\ pc \in {"none", "wait"} /\ pc' \in {"wait", "get"}
           \/ p = NULL /\ pc = "alloc" /\ pc' \in {"copy", "release"}
           \/ pc = "resume" /\ pc' = IF p = NULL THEN "wait" ELSE "input"
    BY <1>7 DEF ETH_lowLevelInit, Create, Start, Started, SetFlags, ETH_TransmitFrame, Transmit, Transmitted,
       ETH_IRQHandler, Wait, Alloc, Resume, Fetch, Free, vars, eth, task, history, EInv, InHand
  <2>2. Oldest' = Oldest
    BY <2>1 DEF Oldest, EInv, InHand
  <2>3. Line' /\ Newer' /\ PbufBetween'
    BY <2>1, <2>2 DEF OInv, Line, Newer, PbufBetween
  <2>4. QED BY <2>1, <2>3 DEF OInv
<1>8. QED
  BY <1>2, <1>3, <1>4, <1>5, <1>6, <1>7 DEF Next, ETH_taskMain, ETH_lowLevelInput

\* Each frame is posted to lwIP at most once and in the order of arrival: what is posted came
\* later than all that was posted before it, and the DMA does not write into a frame that is
\* still being copied (ethernetif.c:355-402).
THEOREM FramesOnceInOrder == Spec => OnceInOrder
<1>1. EInv /\ SInv /\ OInv /\ [Next]_vars => OInv' /\ PostedNewer
  BY OrderNext, OrderPost, OrderElse
<1>2. EInv /\ SInv /\ OInv /\ [Next]_vars
        => OInv' /\ [Len(mbox') > Len(mbox) => /\ Last(mbox').frame > lastPosted
                                               /\ lastPosted' = Last(mbox').frame]_vars
  BY <1>1 DEF PostedNewer
<1>3. QED
  BY <1>2, OrderInit, StallInit, StallNext, EthInit, EthNext, PTL DEF Spec, OnceInOrder

=============================================================================
