----------------------------- MODULE EthReceive -----------------------------
(***************************************************************************)
(* The receiving half of the Ethernet driver, src/Src/ethernetif.c: the    *)
(* DMA fills a ring of descriptors and raises an interrupt, its handler    *)
(* gives a binary semaphore, and ETH_taskMain copies frames into pbufs,    *)
(* gives the descriptors back and posts the pbufs to lwIP's thread.  The   *)
(* server task starts all of this in ETH_lowLevelInit.                     *)
(*                                                                         *)
(* A frame is its number in the order of arrival.  It fills one descriptor *)
(* (ETH_RX_BUF_SIZE holds the longest frame); its chain of pbufs counts as *)
(* one.  The ring, the interrupt's status bit, the pool and lwIP's mailbox *)
(* are external: they are modelled as the driver uses them.  So is the     *)
(* HAL's lock of its handle: a call that finds the handle locked by the    *)
(* call it has preempted is refused.  Whether the HAL's interrupt handler  *)
(* releases the lock is left open: it is chosen in the initial state.      *)
(* The receive task has the highest priority: another task runs only while *)
(* it waits for the semaphore.                                             *)
(***************************************************************************)
EXTENDS Naturals, Sequences, SequencesExt

CONSTANTS NumDesc,      \* ETH_RXBUFNB
          PoolSize,     \* PBUF_POOL_SIZE
          MboxSize,     \* TCPIP_MBOX_SIZE
          MaxFrames     \* bound: frames on the cable

ASSUME EthReceiveAssumption ==
  /\ NumDesc \in Nat \ {0}
  /\ PoolSize \in Nat
  /\ MboxSize \in Nat
  /\ MaxFrames \in Nat

VARIABLES
  spc,          \* the server task's next step in ETH_lowLevelInit
  \* the MAC and its DMA
  nArrived,     \* frames the cable has brought since HAL_ETH_Start
  own,          \* ETH_DMARXDESC_OWN of each descriptor: does the DMA have it?
  Rx_Buff,      \* the frame in each descriptor's buffer
  dma,          \* the descriptor the DMA fills next
  suspended,    \* RBUS: the DMA found that descriptor taken and has stopped
  rs,           \* a frame has been received: the interrupt is pending
  \* the HAL
  locked,       \* does a call hold the lock of xETH?
  unlocks,      \* does the HAL's interrupt handler release it?
  \* the receive task
  s_xSemaphore, \* tokens in the binary semaphore
  pc,           \* the next step of ETH_taskMain
  RxDesc,       \* the descriptor the HAL looks at next
  FSRxDesc,     \* the descriptor of the frame in hand
  p,            \* the frame in the pbuf in hand, or NULL
  \* lwIP
  pool,         \* free pbufs
  mbox,         \* posted frames
  stack,        \* pbufs lwIP's thread has taken from the mailbox
  \* history
  starved,      \* was a frame dropped for want of a pbuf since the ring was last empty?
  refused,      \* did the task's last call of the HAL find xETH locked?
  lastPosted    \* the frame posted last

eth == <<nArrived, own, Rx_Buff, dma, suspended, rs>>
task == <<pc, RxDesc, FSRxDesc, p>>
lwip == <<pool, mbox, stack>>
hal == <<locked, unlocks>>
history == <<starved, refused, lastPosted>>
vars == <<spc, eth, hal, s_xSemaphore, task, lwip, history>>

NULL == 0
NoFrame == 0
Ring == 0..(NumDesc - 1)
After(d) == (d + 1) % NumDesc
Running == spc \in {"starting", "flags", "up"}

\* The receive task waits, and leaves the processor to the other tasks.
Idle == pc = "none" \/ (pc = "wait" /\ s_xSemaphore = 0)

Init ==
  /\ spc = "create"
  /\ nArrived = 0 /\ dma = 0
  /\ own = [d \in Ring |-> TRUE] /\ Rx_Buff = [d \in Ring |-> NoFrame]
  /\ suspended = FALSE /\ rs = FALSE
  /\ s_xSemaphore = 0
  /\ pc = "none" /\ RxDesc = 0 /\ FSRxDesc = 0 /\ p = NULL
  /\ pool = PoolSize /\ mbox = <<>> /\ stack = 0
  /\ locked = FALSE /\ unlocks \in BOOLEAN
  /\ starved = FALSE /\ refused = FALSE /\ lastPosted = 0

(***************************************************************************)
(* ETH_lowLevelInit                                                        *)
(***************************************************************************)

\* The semaphore is created with its token, then the receive task.
Create ==
  /\ spc = "create" /\ spc' = "start"
  /\ s_xSemaphore' = 1
  /\ pc' = "wait"
  /\ UNCHANGED <<eth, hal, RxDesc, FSRxDesc, p, lwip, history>>

\* HAL_ETH_Start locks the handle and starts the DMA, ...
Start ==
  /\ spc = "start" /\ Idle
  /\ spc' = "starting" /\ locked' = TRUE
  /\ UNCHANGED <<eth, unlocks, s_xSemaphore, task, lwip, history>>

\* ... and unlocks it.
Started ==
  /\ spc = "starting" /\ Idle
  /\ spc' = "flags" /\ locked' = FALSE
  /\ UNCHANGED <<eth, unlocks, s_xSemaphore, task, lwip, history>>

\* NETIF_FLAG_ETHARP is set.
SetFlags ==
  /\ spc = "flags" /\ Idle
  /\ spc' = "up"
  /\ UNCHANGED <<eth, hal, s_xSemaphore, task, lwip, history>>

(***************************************************************************)
(* low_level_output: ETH_TransmitFrame                                     *)
(***************************************************************************)

Transmit ==
  /\ spc = "up" /\ Idle
  /\ ~locked /\ locked' = TRUE
  /\ UNCHANGED <<spc, eth, unlocks, s_xSemaphore, task, lwip, history>>

Transmitted ==
  /\ spc = "up" /\ Idle
  /\ locked /\ locked' = FALSE
  /\ UNCHANGED <<spc, eth, unlocks, s_xSemaphore, task, lwip, history>>

(***************************************************************************)
(* The MAC and the interrupt                                               *)
(***************************************************************************)

\* A frame arrives.  A DMA that has stopped misses it.
Receive ==
  /\ Running /\ nArrived < MaxFrames
  /\ nArrived' = nArrived + 1
  /\ IF suspended
       THEN UNCHANGED <<own, Rx_Buff, dma, suspended, rs>>
       ELSE /\ Rx_Buff' = [Rx_Buff EXCEPT ![dma] = nArrived']
            /\ own' = [own EXCEPT ![dma] = FALSE]
            /\ dma' = After(dma)
            /\ suspended' = ~own'[dma']
            /\ rs' = TRUE
  /\ UNCHANGED <<spc, hal, s_xSemaphore, task, lwip, history>>

\* HAL_ETH_RxCpltCallback gives the token, and the HAL clears the status bit.
ETH_IRQHandler ==
  /\ rs /\ rs' = FALSE
  /\ s_xSemaphore' = 1
  /\ locked' = (locked /\ ~unlocks)
  /\ UNCHANGED <<spc, nArrived, own, Rx_Buff, dma, suspended, unlocks, task, lwip, history>>

(***************************************************************************)
(* ETH_taskMain and ETH_lowLevelInput                                      *)
(***************************************************************************)

Wait ==
  /\ pc = "wait" /\ s_xSemaphore = 1
  /\ s_xSemaphore' = 0
  /\ pc' = "get"
  /\ UNCHANGED <<spc, eth, hal, RxDesc, FSRxDesc, p, lwip, history>>

\* HAL_ETH_GetReceivedFrame_IT: nothing if the handle is locked, else the oldest frame,
\* or none.
GetReceivedFrame ==
  /\ pc = "get"
  /\ refused' = locked
  /\ IF locked \/ own[RxDesc]
       THEN pc' = "wait" /\ starved' = (starved /\ locked) /\ UNCHANGED <<RxDesc, FSRxDesc>>
       ELSE pc' = "alloc" /\ FSRxDesc' = RxDesc /\ RxDesc' = After(RxDesc) /\ UNCHANGED starved
  /\ UNCHANGED <<spc, eth, hal, s_xSemaphore, p, lwip, lastPosted>>

\* Mutant: the descriptor is given back before the frame is copied out of it.
AllocReleasesFirst ==
  /\ pc = "alloc"
  /\ own' = [own EXCEPT ![FSRxDesc] = TRUE]
  /\ IF pool > 0
       THEN pool' = pool - 1 /\ pc' = "copy" /\ UNCHANGED starved
       ELSE pc' = "release" /\ starved' = TRUE /\ UNCHANGED pool
  /\ UNCHANGED <<spc, nArrived, Rx_Buff, dma, suspended, rs, hal, s_xSemaphore, RxDesc,
                 FSRxDesc, p, mbox, stack, refused, lastPosted>>

\* pbuf_alloc; the frame is dropped if the pool is empty.
Alloc ==
  /\ pc = "alloc"
  /\ IF pool > 0
       THEN pool' = pool - 1 /\ pc' = "copy" /\ UNCHANGED starved
       ELSE pc' = "release" /\ starved' = TRUE /\ UNCHANGED pool
  /\ UNCHANGED <<spc, eth, hal, s_xSemaphore, RxDesc, FSRxDesc, p, mbox, stack, refused, lastPosted>>

Copy ==
  /\ pc = "copy" /\ pc' = "release"
  /\ p' = Rx_Buff[FSRxDesc]
  /\ UNCHANGED <<spc, eth, hal, s_xSemaphore, RxDesc, FSRxDesc, lwip, history>>

\* The descriptor is given back to the DMA, whether the frame was copied or not.
Release ==
  /\ pc = "release" /\ pc' = "resume"
  /\ own' = [own EXCEPT ![FSRxDesc] = TRUE]
  /\ UNCHANGED <<spc, nArrived, Rx_Buff, dma, suspended, rs, hal, s_xSemaphore, RxDesc,
                 FSRxDesc, p, lwip, history>>

\* Mutant: a DMA that has stopped is told to go on only if there is a pbuf to post.
ResumeWithFrame ==
  /\ pc = "resume"
  /\ pc' = IF p = NULL THEN "wait" ELSE "input"
  /\ suspended' = (suspended /\ (p = NULL \/ ~own[dma]))
  /\ UNCHANGED <<spc, nArrived, own, Rx_Buff, dma, rs, hal, s_xSemaphore, RxDesc, FSRxDesc, p,
                 lwip, history>>

\* A DMA that has stopped is told to go on.  Without a pbuf the task's loop ends.
Resume ==
  /\ pc = "resume"
  /\ pc' = IF p = NULL THEN "wait" ELSE "input"
  /\ suspended' = (suspended /\ ~own[dma])
  /\ UNCHANGED <<spc, nArrived, own, Rx_Buff, dma, rs, hal, s_xSemaphore, RxDesc, FSRxDesc, p,
                 lwip, history>>

\* tcpip_input takes what is posted for an Ethernet frame if the flag is set, and
\* for an IP packet otherwise.
Post == mbox' = Append(mbox, [frame |-> p, ethernet |-> spc = "up"]) /\ lastPosted' = p

\* Mutant: a pbuf that SVRIF_input refuses is not freed.
InputKeepsRefused ==
  /\ pc = "input" /\ pc' = "get" /\ p' = NULL
  /\ IF Len(mbox) < MboxSize THEN Post ELSE UNCHANGED <<mbox, lastPosted>>
  /\ UNCHANGED <<spc, eth, hal, s_xSemaphore, RxDesc, FSRxDesc, pool, stack, starved, refused>>

\* SVRIF_input: the pbuf is posted, or freed if the mailbox is full.
Input ==
  /\ pc = "input" /\ pc' = "get" /\ p' = NULL
  /\ IF Len(mbox) < MboxSize
       THEN Post /\ UNCHANGED pool
       ELSE pool' = pool + 1 /\ UNCHANGED <<mbox, lastPosted>>
  /\ UNCHANGED <<spc, eth, hal, s_xSemaphore, RxDesc, FSRxDesc, stack, starved, refused>>

(***************************************************************************)
(* lwIP's thread                                                           *)
(***************************************************************************)

Fetch ==
  /\ mbox # <<>>
  /\ mbox' = Tail(mbox) /\ stack' = stack + 1
  /\ UNCHANGED <<spc, eth, hal, s_xSemaphore, task, pool, history>>

Free ==
  /\ stack > 0
  /\ stack' = stack - 1 /\ pool' = pool + 1
  /\ UNCHANGED <<spc, eth, hal, s_xSemaphore, task, mbox, history>>

-----------------------------------------------------------------------------

ETH_lowLevelInit == Create \/ Start \/ Started \/ SetFlags
ETH_TransmitFrame == Transmit \/ Transmitted
ETH_lowLevelInput == GetReceivedFrame \/ Alloc \/ Copy \/ Release \/ Resume
ETH_taskMain == Wait \/ ETH_lowLevelInput \/ Input

Next ==
  \/ ETH_lowLevelInit
  \/ ETH_TransmitFrame
  \/ Receive
  \/ ETH_IRQHandler
  \/ ETH_taskMain
  \/ Fetch
  \/ Free

Spec == Init /\ [][Next]_vars

-----------------------------------------------------------------------------
(***************************************************************************)
(* Correctness                                                             *)
(***************************************************************************)

Frame == 1..MaxFrames

TypeOK ==
  /\ spc \in {"create", "start", "starting", "flags", "up"}
  /\ nArrived \in 0..MaxFrames
  /\ own \in [Ring -> BOOLEAN] /\ Rx_Buff \in [Ring -> Frame \cup {NoFrame}]
  /\ dma \in Ring /\ RxDesc \in Ring /\ FSRxDesc \in Ring
  /\ suspended \in BOOLEAN /\ rs \in BOOLEAN
  /\ locked \in BOOLEAN /\ unlocks \in BOOLEAN
  /\ starved \in BOOLEAN /\ refused \in BOOLEAN
  /\ s_xSemaphore \in {0, 1}
  /\ pc \in {"none", "wait", "get", "alloc", "copy", "release", "resume", "input"}
  /\ p \in Frame \cup {NULL}
  /\ pool \in 0..PoolSize /\ stack \in 0..PoolSize
  /\ mbox \in Seq([frame : Frame, ethernet : BOOLEAN]) /\ Len(mbox) <= MboxSize
  /\ lastPosted \in 0..MaxFrames

\* Each frame is posted to lwIP at most once, and frames in the order of arrival:
\* whatever is posted came later than all that was posted before it.  The DMA does not
\* write into a frame that is still being copied (ethernetif.c:355-402).
OnceInOrder ==
  [][Len(mbox') > Len(mbox) => /\ Last(mbox').frame > lastPosted
                               /\ lastPosted' = Last(mbox').frame]_vars

\* No pbuf is lost or freed twice: each is in the pool, in the task's hand, posted,
\* or with lwIP's thread (ethernetif.c:437-444).
PbufsConserved ==
  pool + (IF pc = "copy" \/ p # NULL THEN 1 ELSE 0) + Len(mbox) + stack = PoolSize

\* The task sleeps and nothing is under way that would wake it.
Asleep == pc = "wait" /\ s_xSemaphore = 0 /\ ~rs

\* A sleeping task leaves a DMA that goes on, so that the next frame wakes it, and no
\* frame in the ring, unless one before it was dropped for want of a pbuf
\* (ethernetif.c:407-414, 433-445).  The exception is a task that found the handle
\* locked (ethernetif.c:352-353), which only a HAL lets happen whose interrupt handler
\* leaves the lock alone.
NoStall ==
  Asleep => \/ refused /\ ~unlocks
            \/ /\ ~suspended
               /\ (\E d \in Ring : ~own[d]) => starved

=============================================================================
