------------------------------- MODULE Queue -------------------------------
(***************************************************************************)
(* A queue of the kernel, queue.c, with the parts of tasks.c that make a    *)
(* task wait for it: tasks send and receive, for no time, for some ticks or *)
(* without limit; an interrupt handler sends; the tick interrupt counts.    *)
(* Semaphores are queues whose messages have no size; priority inheritance  *)
(* of mutexes is left out.                                                  *)
(*                                                                          *)
(* A step is a critical section, vTaskSuspendAll, or what a task does with  *)
(* the scheduler suspended between two critical sections.  Interrupts come  *)
(* between any two steps; so do other tasks, unless the scheduler is        *)
(* suspended.  Priorities are left open: any ready task may run, and any of *)
(* the waiting tasks may be the first of its list.  xTickCount is modelled  *)
(* by what it is read for, the ticks a task has left to wait.               *)
(*                                                                          *)
(* No interrupt handler of the firmware receives: cRxLock, which counts     *)
(* what handlers take while the queue is locked, is left out.               *)
(***************************************************************************)
EXTENDS Integers, Sequences, FiniteSets

CONSTANTS Senders, Receivers,  \* the tasks that use the queue, and for what
          None,      \* no task
          Forever,   \* portMAX_DELAY
          Items,     \* the messages
          Nothing,   \* no message
          Length,    \* uxLength
          Waits,     \* the ticks a task may ask to wait, and Forever
          LockMax,   \* the largest value of cTxLock, an int8_t
          MaxPended  \* bound: ticks that come while the scheduler is suspended once

ASSUME QueueAssumption ==
  /\ Length \in Nat \ {0} /\ LockMax \in Nat /\ Length <= LockMax
  /\ Waits \subseteq Nat \cup {Forever} /\ None \notin Senders \cup Receivers
  /\ Forever \notin Nat /\ Nothing \notin Items
  /\ MaxPended \in Nat /\ IsFiniteSet(Senders \cup Receivers) /\ Items # {}

VARIABLES
  store, writeTo, readFrom,  \* pcHead..pcTail, pcWriteTo, pcReadFrom
  messages,                  \* uxMessagesWaiting
  cTxLock,
  toReceive, toSend,         \* xTasksWaitingToReceive, xTasksWaitingToSend
  suspended,                 \* the task that has suspended the scheduler, or None
  blocked,                   \* the tasks on a delayed list or the suspended one
  pending,                   \* xPendingReadyList
  pended,                    \* uxPendedTicks
  pc, op, item,              \* each task's place, its call, its buffer
  left,                      \* xTicksToWait less the ticks since xTimeOut
  entered                    \* xEntryTimeSet

ring == <<store, writeTo, readFrom, messages>>
lists == <<toReceive, toSend, blocked, pending>>
call == <<op, item, left, entered>>
vars == <<ring, cTxLock, lists, suspended, pended, pc, call>>

Tasks == Senders \cup Receivers
Unlocked == -1  \* queueUNLOCKED
LockedUnmodified == 0
Positions == 0..(Length - 1)
Places == {"idle", "try", "suspend", "lock", "check", "test", "place", "unlock", "resume",
           "retest"}

TypeOK ==
  /\ store \in [Positions -> Items \cup {Nothing}] /\ writeTo \in Positions /\ readFrom \in Positions
  /\ messages \in 0..Length /\ cTxLock \in Unlocked..Length
  /\ toReceive \subseteq blocked /\ toSend \subseteq blocked /\ toReceive \cap toSend = {}
  /\ blocked \subseteq Tasks /\ pending \subseteq blocked \ (toReceive \cup toSend)
  /\ suspended \in Tasks \cup {None} /\ pended \in 0..MaxPended
  /\ pc \in [Tasks -> Places] /\ op \in [Tasks -> {"send", "receive"}]
  /\ item \in [Tasks -> Items \cup {Nothing}]
  /\ left \in [Tasks -> Nat \cup {Forever}] /\ entered \in [Tasks -> BOOLEAN]

\* xQueueGenericReset, for a new queue
Init ==
  /\ store = [p \in Positions |-> Nothing]
  /\ writeTo = 0 /\ readFrom = Length - 1
  /\ messages = 0 /\ cTxLock = Unlocked
  /\ toReceive = {} /\ toSend = {} /\ blocked = {} /\ pending = {}
  /\ suspended = None /\ pended = 0
  /\ pc = [t \in Tasks |-> "idle"] /\ op = [t \in Tasks |-> "receive"]
  /\ item = [t \in Tasks |-> Nothing] /\ left = [t \in Tasks |-> 0]
  /\ entered = [t \in Tasks |-> FALSE]

\* The scheduler runs t, or t has suspended it.
Runs(t) == suspended = t \/ (suspended = None /\ t \notin blocked)

At(t, place) == Runs(t) /\ pc[t] = place
Goto(t, place) == pc' = [pc EXCEPT ![t] = place]

Empty == messages = 0
Full == messages = Length

\* The pointer after p in the ring.
Following(p) == IF p + 1 >= Length THEN 0 ELSE p + 1

\* prvCopyDataToQueue, at the back
CopyIn(i) ==
  /\ store' = [store EXCEPT ![writeTo] = i]
  /\ writeTo' = Following(writeTo)
  /\ messages' = messages + 1
  /\ UNCHANGED readFrom

\* prvCopyDataFromQueue, and the count
CopyOut ==
  /\ readFrom' = Following(readFrom)
  /\ messages' = messages - 1
  /\ UNCHANGED <<store, writeTo>>

\* Mutant: the woken task stays off the ready lists if the scheduler is suspended.
MadeReadyLost(W) ==
  /\ blocked' = IF suspended = None THEN blocked \ W ELSE blocked
  /\ UNCHANGED pending

\* Tasks taken from an event list by xTaskRemoveFromEventList are ready, or held
\* until the scheduler is resumed.
MadeReady(W) ==
  IF suspended = None THEN blocked' = blocked \ W /\ UNCHANGED pending
                      ELSE pending' = pending \cup W /\ UNCHANGED blocked

\* The first task of a list, if there is one, is woken.
WakeReceiver ==
  /\ \/ toReceive = {} /\ UNCHANGED <<toReceive, blocked, pending>>
     \/ \E t \in toReceive : toReceive' = toReceive \ {t} /\ MadeReady({t})
  /\ UNCHANGED toSend

WakeSender ==
  /\ \/ toSend = {} /\ UNCHANGED <<toSend, blocked, pending>>
     \/ \E t \in toSend : toSend' = toSend \ {t} /\ MadeReady({t})
  /\ UNCHANGED toReceive

(***************************************************************************)
(* xQueueGenericSend and xQueueGenericReceive                               *)
(***************************************************************************)

Call(t) ==
  /\ At(t, "idle")
  /\ \E o \in {"send", "receive"}, i \in Items, w \in Waits :
       /\ t \in IF o = "send" THEN Senders ELSE Receivers
       /\ op' = [op EXCEPT ![t] = o]
       /\ item' = [item EXCEPT ![t] = IF o = "send" THEN i ELSE Nothing]
       /\ left' = [left EXCEPT ![t] = w]
  /\ entered' = [entered EXCEPT ![t] = FALSE]
  /\ Goto(t, "try")
  /\ UNCHANGED <<ring, cTxLock, lists, suspended, pended>>

\* The call returns, with message i if it has received one.
Return(t, i) ==
  /\ Goto(t, "idle")
  /\ item' = [item EXCEPT ![t] = i]
  /\ left' = [left EXCEPT ![t] = 0]
  /\ entered' = [entered EXCEPT ![t] = FALSE]
  /\ UNCHANGED op

\* The time of a call to send is up.
Failed(t) ==
  /\ Goto(t, "idle")
  /\ item' = [item EXCEPT ![t] = Nothing]
  /\ entered' = [entered EXCEPT ![t] = FALSE]
  /\ UNCHANGED op

Send(t) ==
  /\ At(t, "try") /\ op[t] = "send" /\ ~Full
  /\ CopyIn(item[t])
  /\ WakeReceiver
  /\ Return(t, Nothing)
  /\ UNCHANGED <<cTxLock, suspended, pended>>

Receive(t) ==
  /\ At(t, "try") /\ op[t] = "receive" /\ ~Empty
  /\ CopyOut
  /\ WakeSender
  /\ Return(t, store[Following(readFrom)])
  /\ UNCHANGED <<cTxLock, suspended, pended>>

\* There is no message, or no room for one.
Hindered(t) == IF op[t] = "send" THEN Full ELSE Empty

\* The caller does not wait.
Refuse(t) ==
  /\ At(t, "try") /\ Hindered(t) /\ left[t] = 0 /\ ~entered[t]
  /\ Return(t, Nothing)
  /\ UNCHANGED <<ring, cTxLock, lists, suspended, pended>>

\* vTaskSetTimeOutState, once in a call
Enter(t) ==
  /\ At(t, "try") /\ Hindered(t) /\ (left[t] # 0 \/ entered[t])
  /\ entered' = [entered EXCEPT ![t] = TRUE]
  /\ Goto(t, "suspend")
  /\ UNCHANGED <<ring, cTxLock, lists, suspended, pended, op, item, left>>

\* vTaskSuspendAll
Suspend(t) ==
  /\ At(t, "suspend")
  /\ suspended' = t
  /\ Goto(t, "lock")
  /\ UNCHANGED <<ring, cTxLock, lists, pended, call>>

\* Mutant: the queue is not locked.
LockNot(t) ==
  /\ At(t, "lock")
  /\ Goto(t, "check")
  /\ UNCHANGED <<ring, cTxLock, lists, suspended, pended, call>>

\* prvLockQueue
Lock(t) ==
  /\ At(t, "lock")
  /\ cTxLock' = IF cTxLock = Unlocked THEN LockedUnmodified ELSE cTxLock
  /\ Goto(t, "check")
  /\ UNCHANGED <<ring, lists, suspended, pended, call>>

\* xTaskCheckForTimeOut
Check(t) ==
  /\ At(t, "check")
  /\ Goto(t, IF left[t] = 0 THEN "unlock" ELSE "test")
  /\ UNCHANGED <<ring, cTxLock, lists, suspended, pended, call>>

\* prvIsQueueFull, prvIsQueueEmpty
Test(t) ==
  /\ At(t, "test")
  /\ Goto(t, IF Hindered(t) THEN "place" ELSE "unlock")
  /\ UNCHANGED <<ring, cTxLock, lists, suspended, pended, call>>

\* vTaskPlaceOnEventList
Place(t) ==
  /\ At(t, "place")
  /\ blocked' = blocked \cup {t}
  /\ toReceive' = IF op[t] = "receive" THEN toReceive \cup {t} ELSE toReceive
  /\ toSend' = IF op[t] = "send" THEN toSend \cup {t} ELSE toSend
  /\ Goto(t, "unlock")
  /\ UNCHANGED <<ring, cTxLock, pending, suspended, pended, call>>

\* As many of the waiting tasks as messages came while the queue was locked.
WokenByUnlock ==
  {W \in SUBSET toReceive :
     \/ Cardinality(W) = (IF cTxLock > LockedUnmodified THEN cTxLock ELSE 0)
     \/ W = toReceive /\ Cardinality(W) < cTxLock}

\* prvUnlockQueue
Unlock(t) ==
  /\ At(t, "unlock")
  /\ \E W \in WokenByUnlock : toReceive' = toReceive \ W /\ pending' = pending \cup W
  /\ cTxLock' = Unlocked
  /\ Goto(t, "resume")
  /\ UNCHANGED <<ring, toSend, blocked, suspended, pended, call>>

\* The tasks that wait for fewer than n ticks more.
TicksLeft(n) ==
  [t \in Tasks |-> IF ~entered[t] \/ left[t] = Forever THEN left[t]
                   ELSE IF left[t] > n THEN left[t] - n ELSE 0]
Expired(S, n) == {t \in S : n > 0 /\ left[t] # Forever /\ left[t] <= n}

\* Mutant: the ticks that came while the scheduler was suspended are lost.
TicksLost(S, n) ==
  IF suspended # None THEN blocked' = S /\ UNCHANGED <<toReceive, toSend, left>>
  ELSE /\ left' = TicksLeft(n)
       /\ blocked' = S \ Expired(S, n)
       /\ toReceive' = toReceive \ Expired(S, n)
       /\ toSend' = toSend \ Expired(S, n)

\* n ticks are counted by xTaskIncrementTick, while the tasks of S are blocked.
Ticks(S, n) ==
  /\ left' = TicksLeft(n)
  /\ blocked' = S \ Expired(S, n)
  /\ toReceive' = toReceive \ Expired(S, n)
  /\ toSend' = toSend \ Expired(S, n)

\* xTaskResumeAll; a task whose time is up does not try again.
Resume(t) ==
  /\ At(t, "resume")
  /\ suspended' = None /\ pending' = {} /\ pended' = 0
  /\ Ticks(blocked \ pending, pended)
  /\ \/ left[t] # 0 /\ Goto(t, "try") /\ UNCHANGED <<op, item, entered>>
     \/ left[t] = 0 /\ op[t] = "receive" /\ Goto(t, "retest") /\ UNCHANGED <<op, item, entered>>
     \/ left[t] = 0 /\ op[t] = "send" /\ Failed(t)
  /\ UNCHANGED <<ring, cTxLock>>

\* Mutant: a receiver whose time is up fails at once.
RetestNot(t) ==
  /\ At(t, "retest")
  /\ Return(t, Nothing)
  /\ UNCHANGED <<ring, cTxLock, lists, suspended, pended>>

\* A receiver whose time is up looks once more.
Retest(t) ==
  /\ At(t, "retest")
  /\ IF Empty THEN Return(t, Nothing) ELSE Goto(t, "try") /\ UNCHANGED call
  /\ UNCHANGED <<ring, cTxLock, lists, suspended, pended>>

(***************************************************************************)
(* Interrupts                                                               *)
(***************************************************************************)

\* The lock count in its type.
Counted(c) == IF c = LockMax THEN -LockMax - 1 ELSE c + 1

\* xQueueGenericSendFromISR; xQueueGiveFromISR, without a message
SendFromISR(i) ==
  /\ ~Full
  /\ CopyIn(i)
  /\ IF cTxLock = Unlocked
       THEN WakeReceiver /\ UNCHANGED cTxLock
       ELSE cTxLock' = Counted(cTxLock) /\ UNCHANGED lists
  /\ UNCHANGED <<suspended, pended, pc, call>>

\* xTaskIncrementTick
Tick ==
  /\ IF suspended = None
       THEN Ticks(blocked, 1) /\ UNCHANGED <<pended, pending>>
       ELSE pended < MaxPended /\ pended' = pended + 1 /\ UNCHANGED <<lists, left>>
  /\ UNCHANGED <<ring, cTxLock, suspended, pc, op, item, entered>>

TaskStep(t) ==
  \/ Send(t) \/ Receive(t) \/ Refuse(t) \/ Enter(t) \/ Suspend(t) \/ Lock(t) \/ Check(t)
  \/ Test(t) \/ Place(t) \/ Unlock(t) \/ Resume(t) \/ Retest(t)

Next ==
  \/ \E t \in Tasks : Call(t) \/ TaskStep(t)
  \/ \E i \in Items : SendFromISR(i)
  \/ Tick

Fairness == WF_vars(Tick) /\ \A t \in Tasks : SF_vars(TaskStep(t))

Spec == Init /\ [][Next]_vars /\ Fairness

-----------------------------------------------------------------------------
(***************************************************************************)
(* Correctness                                                              *)
(***************************************************************************)

\* Those that try, or will when they have resumed the scheduler.
Trying(o) ==
  {t \in Tasks : /\ op[t] = o /\ t \notin toReceive \cup toSend
                 /\ pc[t] = "try" \/ (pc[t] \in {"unlock", "resume"} /\ left[t] # 0)}

\* No wakeup is lost: while a receiver waits, a receiver that has been woken or a
\* count of the locked queue answers for every message (queue.c:969, 1055, 1376-1398);
\* while a sender waits, a woken sender answers for every free place.
NoLostWakeup ==
  /\ toReceive # {} =>
       messages <= Cardinality(Trying("receive")) + (IF cTxLock > 0 THEN cTxLock ELSE 0)
  /\ toSend # {} => Length - messages <= Cardinality(Trying("send"))

\* The messages from the oldest on.
Nth(k) == IF readFrom + k < Length THEN readFrom + k ELSE readFrom + k - Length

Patience(t) == IF left[t] = Forever THEN "endless"
               ELSE IF left[t] = 0 /\ ~entered[t] THEN "none" ELSE "some"

Promise == INSTANCE BoundedQueue
  WITH contents <- [k \in 1..messages |-> store[Nth(k)]],
       call <- [t \in Tasks |->
                  [op |-> IF pc[t] = "idle" THEN "idle" ELSE op[t],
                   item |-> item[t], wait |-> Patience(t)]]

\* Every call and every interrupt's message takes effect in order, and at most
\* once; only a call that had to fails (queue.c:723-1431).
ImplementsBoundedQueue == Promise!Spec

\* A message does not lie in the queue for ever beside a receiver that waits.
WaitersServed ==
  <>[](~Empty /\ toReceive # {}) => []<><<\E t \in Tasks : Receive(t)>>_vars

\* A sender that asked for a time does return (queue.c:877-915).
TimedSendReturns ==
  \A t \in Senders : (pc[t] = "try" /\ left[t] # Forever) ~> pc[t] = "idle"

=============================================================================
