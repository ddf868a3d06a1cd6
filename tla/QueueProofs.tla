---------------------------- MODULE QueueProofs ----------------------------
(***************************************************************************)
(* Proofs about Queue.tla, for any number of tasks, messages and waits and  *)
(* every length the lock count can hold.                                    *)
(***************************************************************************)
EXTENDS Queue, TLAPS, FiniteSetTheorems, SequenceTheorems

\* The places of a task that has suspended the scheduler.
Held == {"lock", "check", "test", "place", "unlock", "resume"}

SchedulerHeld == \A t \in Tasks : pc[t] \in Held <=> suspended = t

\* The queue is locked from Lock to Unlock.
LockHeld ==
  /\ suspended = None => cTxLock = Unlocked
  /\ \A t \in Tasks : suspended = t => (cTxLock = Unlocked <=> pc[t] \in {"lock", "resume"})

\* What came while the queue was locked is still in it: nobody receives.
CountHeld == cTxLock <= messages

Timing ==
  \A t \in Tasks :
    /\ pc[t] \in {"test", "place"} => left[t] # 0
    /\ pc[t] = "retest" => left[t] = 0
    /\ pc[t] \notin {"idle", "try"} => entered[t]

\* A blocked task is on one of the lists, waits, and will try again when it is ready.
Waiting ==
  /\ blocked \subseteq toReceive \cup toSend \cup pending
  /\ \A t \in blocked : entered[t] /\ left[t] # 0 /\ pc[t] \in {"try", "unlock", "resume"}
  /\ \A t \in toReceive : op[t] = "receive"
  /\ \A t \in toSend : op[t] = "send"

NonePending == suspended = None => pending = {}

\* What a task found before it places itself on a list has not become false: only
\* messages that the lock counts have come.
PlaceSound ==
  \A t \in Tasks : pc[t] = "place" =>
    IF op[t] = "send" THEN messages = Length ELSE messages <= cTxLock

WritePlace == writeTo = IF messages < Length THEN Nth(messages + 1) ELSE Nth(1)

Control ==
  /\ TypeOK /\ SchedulerHeld /\ LockHeld /\ CountHeld /\ Timing /\ Waiting /\ NonePending

IInv == Control /\ PlaceSound /\ WritePlace /\ NoLostWakeup

LEMMA TasksFacts == None \notin Tasks /\ IsFiniteSet(Tasks)
BY QueueAssumption DEF Tasks

-----------------------------------------------------------------------------
(***************************************************************************)
(* What the helpers of the actions do                                       *)
(***************************************************************************)

LEMMA FollowingType == ASSUME NEW p \in Positions PROVE Following(p) \in Positions
BY QueueAssumption DEF Positions, Following

\* Counting ticks frees waiting tasks whose time is up, and nobody else.
LEMMA TicksStep ==
  ASSUME TypeOK, Waiting, NEW n \in Nat, NEW S \in SUBSET blocked, Ticks(S, n)
  PROVE  /\ left' \in [Tasks -> Nat \cup {Forever}]
         /\ blocked' \subseteq S
         /\ toReceive' \subseteq toReceive /\ toSend' \subseteq toSend
         /\ \A t \in S : t \in blocked' \/ t \notin toReceive' \cup toSend'
         /\ \A t \in toReceive \cup toSend :
              t \in blocked' => (t \in toReceive => t \in toReceive') /\ (t \in toSend => t \in toSend')
         /\ \A t \in Tasks : left[t] = 0 => left'[t] = 0
         /\ \A t \in Tasks : left[t] = Forever <=> left'[t] = Forever
         /\ \A t \in Tasks : ~entered[t] => left'[t] = left[t]
         /\ \A t \in blocked' : left'[t] # 0
<1>1. left \in [Tasks -> Nat \cup {Forever}] /\ Forever \notin Nat /\ blocked \subseteq Tasks
  BY QueueAssumption DEF TypeOK
<1>2. left' \in [Tasks -> Nat \cup {Forever}]
      /\ \A t \in Tasks : left'[t] = IF ~entered[t] \/ left[t] = Forever THEN left[t]
                                     ELSE IF left[t] > n THEN left[t] - n ELSE 0
  BY <1>1 DEF Ticks, TicksLeft
<1>3. \A t \in Tasks : /\ left[t] = 0 => left'[t] = 0
                       /\ left[t] = Forever <=> left'[t] = Forever
                       /\ ~entered[t] => left'[t] = left[t]
  BY <1>1, <1>2
<1>4. \A t \in blocked' : left'[t] # 0
  BY <1>1, <1>2 DEF Ticks, Expired, Waiting
<1>5. QED
  BY <1>2, <1>3, <1>4 DEF Ticks

\* A wake-up takes one task from a list, if there is one.
LEMMA WakeStep ==
  ASSUME TypeOK, NonePending, WakeReceiver \/ WakeSender
  PROVE  /\ toReceive' \subseteq toReceive /\ toSend' \subseteq toSend
         /\ toReceive' \subseteq blocked' /\ toSend' \subseteq blocked'
         /\ blocked' \subseteq blocked
         /\ pending' \subseteq blocked' \ (toReceive' \cup toSend')
         /\ blocked' \subseteq (blocked \ (toReceive \cup toSend)) \cup toReceive' \cup toSend' \cup pending'
         /\ pending \subseteq pending'
         /\ suspended = None => pending' = {}
<1>1. toReceive \subseteq blocked /\ toSend \subseteq blocked /\ toReceive \cap toSend = {}
      /\ pending \subseteq blocked \ (toReceive \cup toSend)
  BY DEF TypeOK
<1>2. CASE UNCHANGED <<toReceive, toSend, blocked, pending>>
  BY <1>1, <1>2 DEF NonePending
<1>3. CASE \E t \in toReceive : toReceive' = toReceive \ {t} /\ MadeReady({t}) /\ UNCHANGED toSend
  BY <1>1, <1>3 DEF NonePending, MadeReady
<1>4. CASE \E t \in toSend : toSend' = toSend \ {t} /\ MadeReady({t}) /\ UNCHANGED toReceive
  BY <1>1, <1>4 DEF NonePending, MadeReady
<1>5. QED BY <1>2, <1>3, <1>4 DEF WakeReceiver, WakeSender

-----------------------------------------------------------------------------
(***************************************************************************)
(* Types and control                                                        *)
(***************************************************************************)

LEMMA InitHolds == Init => IInv
<1> SUFFICES ASSUME Init PROVE IInv
  OBVIOUS
<1> USE QueueAssumption, TasksFacts
<1>1. TypeOK
  BY DEF Init, TypeOK, Positions, Unlocked, Places
<1>2. SchedulerHeld /\ LockHeld /\ CountHeld /\ Timing /\ Waiting /\ NonePending /\ PlaceSound
  BY DEF Init, SchedulerHeld, LockHeld, CountHeld, Timing, Waiting, NonePending, PlaceSound, Held, Unlocked
<1>3. WritePlace
  BY DEF Init, WritePlace, Nth
<1>4. NoLostWakeup
  BY DEF Init, NoLostWakeup
<1>5. QED BY <1>1, <1>2, <1>3, <1>4 DEF IInv, Control

LEMMA TypeStep == Control /\ [Next]_vars => TypeOK'
<1> SUFFICES ASSUME Control, [Next]_vars PROVE TypeOK'
  OBVIOUS
<1> USE QueueAssumption, TasksFacts DEF Control
<1> USE DEF lists, ring, call
<1>1. writeTo \in Positions /\ readFrom \in Positions /\ Following(writeTo) \in Positions
      /\ Following(readFrom) \in Positions /\ store[Following(readFrom)] \in Items \cup {Nothing}
  BY FollowingType DEF TypeOK
<1>2. ASSUME NEW t \in Tasks, Call(t) PROVE TypeOK'
  BY <1>2 DEF Call, TypeOK, Goto, Places
<1>3. ASSUME NEW t \in Tasks, Send(t) PROVE TypeOK'
  <2>1. messages' \in 0..Length /\ cTxLock' \in Unlocked..Length
    BY <1>3 DEF Send, CopyIn, TypeOK, Full
  <2>2. store' \in [Positions -> Items \cup {Nothing}] /\ writeTo' \in Positions
        /\ readFrom' \in Positions
    BY <1>3, <1>1 DEF Send, CopyIn, TypeOK
  <2>3. QED BY <1>3, <2>1, <2>2, WakeStep DEF Send, Return, Goto, TypeOK, Places
<1>4. ASSUME NEW t \in Tasks, Receive(t) PROVE TypeOK'
  <2>1. messages' \in 0..Length /\ cTxLock' \in Unlocked..Length
    BY <1>4 DEF Receive, CopyOut, TypeOK, Empty
  <2>2. store' \in [Positions -> Items \cup {Nothing}] /\ writeTo' \in Positions
        /\ readFrom' \in Positions
    BY <1>4, <1>1 DEF Receive, CopyOut, TypeOK
  <2>3. QED BY <1>4, <1>1, <2>1, <2>2, WakeStep DEF Receive, Return, Goto, TypeOK, Places
<1>5. ASSUME NEW t \in Tasks, Refuse(t) PROVE TypeOK'
  BY <1>5 DEF Refuse, Return, Goto, TypeOK, Places
<1>6. ASSUME NEW t \in Tasks, Enter(t) PROVE TypeOK'
  BY <1>6 DEF Enter, Goto, TypeOK, Places
<1>7. ASSUME NEW t \in Tasks, Suspend(t) PROVE TypeOK'
  BY <1>7 DEF Suspend, Goto, TypeOK, Places
<1>8. ASSUME NEW t \in Tasks, Lock(t) PROVE TypeOK'
  BY <1>8 DEF Lock, Goto, TypeOK, Places, Unlocked, LockedUnmodified
<1>9. ASSUME NEW t \in Tasks, Check(t) PROVE TypeOK'
  BY <1>9 DEF Check, Goto, TypeOK, Places
<1>10. ASSUME NEW t \in Tasks, Test(t) PROVE TypeOK'
  BY <1>10 DEF Test, Goto, TypeOK, Places
<1>11. ASSUME NEW t \in Tasks, Place(t) PROVE TypeOK'
  <2>1. t \notin blocked
    BY <1>11 DEF Place, At, Waiting
  <2>2. QED BY <1>11, <2>1 DEF Place, Goto, TypeOK, Places
<1>12. ASSUME NEW t \in Tasks, Unlock(t) PROVE TypeOK'
  BY <1>12 DEF Unlock, WokenByUnlock, Goto, TypeOK, Places, Unlocked
<1>13. ASSUME NEW t \in Tasks, Resume(t) PROVE TypeOK'
  <2>1. pended \in Nat /\ blocked \ pending \in SUBSET blocked
    BY DEF TypeOK
  <2>2. Ticks(blocked \ pending, pended)
    BY <1>13 DEF Resume
  <2>3. left' \in [Tasks -> Nat \cup {Forever}] /\ blocked' \subseteq blocked \ pending
        /\ toReceive' \subseteq toReceive /\ toSend' \subseteq toSend
        /\ \A u \in blocked \ pending : u \in blocked' \/ u \notin toReceive' \cup toSend'
    BY <2>1, <2>2, TicksStep
  <2>4. toReceive' \subseteq blocked' /\ toSend' \subseteq blocked' /\ toReceive' \cap toSend' = {}
        /\ blocked' \subseteq Tasks
    BY <2>3 DEF TypeOK
  <2>5. pc' \in [Tasks -> Places] /\ item' \in [Tasks -> Items \cup {Nothing}]
        /\ entered' \in [Tasks -> BOOLEAN] /\ op' = op
    <3>1. op' = op /\ pc' \in {[pc EXCEPT ![t] = "try"], [pc EXCEPT ![t] = "retest"], [pc EXCEPT ![t] = "idle"]}
      BY <1>13 DEF Resume, Goto, Failed
    <3>2. item' \in {item, [item EXCEPT ![t] = Nothing]} /\ entered' \in {entered, [entered EXCEPT ![t] = FALSE]}
      BY <1>13 DEF Resume, Failed
    <3>3. pc' \in [Tasks -> Places]
      BY <3>1 DEF TypeOK, Places
    <3>4. item' \in [Tasks -> Items \cup {Nothing}]
      BY <3>2 DEF TypeOK
    <3>5. entered' \in [Tasks -> BOOLEAN]
      BY <3>2 DEF TypeOK
    <3>6. QED BY <3>1, <3>3, <3>4, <3>5
  <2>6. QED BY <1>13, <2>3, <2>4, <2>5 DEF Resume, TypeOK
<1>14. ASSUME NEW t \in Tasks, Retest(t) PROVE TypeOK'
  <2>1. CASE Empty
    <3>1. Return(t, Nothing) /\ UNCHANGED <<ring, cTxLock, lists, suspended, pended>>
      BY <1>14, <2>1 DEF Retest
    <3>2. QED BY <3>1 DEF Return, Goto, TypeOK, Places
  <2>2. CASE ~Empty
    BY <1>14, <2>2 DEF Retest, Goto, TypeOK, Places
  <2>3. QED BY <2>1, <2>2
<1>15. ASSUME NEW i \in Items, SendFromISR(i) PROVE TypeOK'
  <2>1. messages' \in 0..Length /\ cTxLock' \in Unlocked..Length
    BY <1>15 DEF SendFromISR, CopyIn, TypeOK, Full, Counted, CountHeld, Unlocked
  <2>2. store' \in [Positions -> Items \cup {Nothing}] /\ writeTo' \in Positions
        /\ readFrom' \in Positions
    BY <1>15, <1>1 DEF SendFromISR, CopyIn, TypeOK
  <2>3. CASE WakeReceiver
    BY <1>15, <2>1, <2>2, <2>3, WakeStep DEF SendFromISR, TypeOK
  <2>4. CASE UNCHANGED lists
    BY <1>15, <2>1, <2>2, <2>4 DEF SendFromISR, TypeOK
  <2>5. QED BY <1>15, <2>3, <2>4 DEF SendFromISR
<1>16. ASSUME Tick PROVE TypeOK'
  <2>1. CASE suspended = None
    <3>1. Ticks(blocked, 1) /\ pending = {}
      BY <1>16, <2>1 DEF Tick, NonePending
    <3>2. left' \in [Tasks -> Nat \cup {Forever}] /\ blocked' \subseteq blocked
        /\ toReceive' \subseteq toReceive /\ toSend' \subseteq toSend
        /\ \A u \in blocked : u \in blocked' \/ u \notin toReceive' \cup toSend'
      BY <3>1, TicksStep
    <3>3. QED BY <1>16, <2>1, <3>1, <3>2 DEF Tick, TypeOK
  <2>2. CASE suspended # None
    BY <1>16, <2>2 DEF Tick, TypeOK
  <2>3. QED BY <2>1, <2>2
<1>17. ASSUME UNCHANGED vars PROVE TypeOK'
  BY <1>17 DEF vars, TypeOK
<1>18. QED
  BY <1>2, <1>3, <1>4, <1>5, <1>6, <1>7, <1>8, <1>9, <1>10, <1>11, <1>12, <1>13, <1>14, <1>15,
     <1>16, <1>17 DEF Next, TaskStep

LEMMA ControlStep == Control /\ [Next]_vars => (SchedulerHeld /\ LockHeld /\ Timing)'
<1> SUFFICES ASSUME Control, [Next]_vars PROVE (SchedulerHeld /\ LockHeld /\ Timing)'
  OBVIOUS
<1> DEFINE Kept == (SchedulerHeld /\ LockHeld /\ Timing)'
<1> USE QueueAssumption, TasksFacts DEF Control, At, Runs, Goto, Held
<1> USE DEF SchedulerHeld, LockHeld, Timing, lists, ring, call, Unlocked
<1>0. /\ pc \in [Tasks -> Places] /\ entered \in [Tasks -> BOOLEAN] /\ left \in [Tasks -> Nat \cup {Forever}]
      /\ suspended \in Tasks \cup {None} /\ pended \in Nat /\ cTxLock \in -1..Length
  BY DEF TypeOK
<1> USE <1>0
<1>1. ASSUME NEW t \in Tasks, Call(t) PROVE Kept
  BY <1>1 DEF Call
<1>2. ASSUME NEW t \in Tasks, Send(t) PROVE Kept
  BY <1>2 DEF Send, Return
<1>3. ASSUME NEW t \in Tasks, Receive(t) PROVE Kept
  BY <1>3 DEF Receive, Return
<1>4. ASSUME NEW t \in Tasks, Refuse(t) PROVE Kept
  BY <1>4 DEF Refuse, Return
<1>5. ASSUME NEW t \in Tasks, Enter(t) PROVE Kept
  BY <1>5 DEF Enter
<1>6. ASSUME NEW t \in Tasks, Suspend(t) PROVE Kept
  BY <1>6 DEF Suspend
<1>7. ASSUME NEW t \in Tasks, Lock(t) PROVE Kept
  BY <1>7 DEF Lock, LockedUnmodified
<1>8. ASSUME NEW t \in Tasks, Check(t) PROVE Kept
  BY <1>8 DEF Check
<1>9. ASSUME NEW t \in Tasks, Test(t) PROVE Kept
  BY <1>9 DEF Test
<1>10. ASSUME NEW t \in Tasks, Place(t) PROVE Kept
  BY <1>10 DEF Place
<1>11. ASSUME NEW t \in Tasks, Unlock(t) PROVE Kept
  BY <1>11 DEF Unlock
<1>12. ASSUME NEW t \in Tasks, Resume(t) PROVE Kept
  <2>1. Ticks(blocked \ pending, pended)
    BY <1>12 DEF Resume
  <2>2. \A u \in Tasks : left[u] = 0 => left'[u] = 0
    BY <2>1, TicksStep
  <2>3. /\ pc[t] = "resume" /\ suspended = t /\ suspended' = None /\ cTxLock' = cTxLock
        /\ \A u \in Tasks : u # t => pc'[u] = pc[u] /\ (entered'[u] <=> entered[u])
        /\ \/ pc'[t] = "try" \/ pc'[t] = "idle"
           \/ pc'[t] = "retest" /\ left[t] = 0 /\ (entered'[t] <=> entered[t])
    BY <1>12 DEF Resume, Failed
  <2>4. \A u \in Tasks : u # t => pc[u] \notin Held /\ pc'[u] \notin Held
    BY <2>3
  <2>5. QED BY <2>2, <2>3, <2>4
<1>13. ASSUME NEW t \in Tasks, Retest(t) PROVE Kept
  <2>1. CASE Empty
    BY <1>13, <2>1 DEF Retest, Return
  <2>2. CASE ~Empty
    BY <1>13, <2>2 DEF Retest
  <2>3. QED BY <2>1, <2>2
<1>14. ASSUME NEW i \in Items, SendFromISR(i) PROVE Kept
  <2>1. cTxLock' = IF cTxLock = -1 THEN -1 ELSE cTxLock + 1
    BY <1>14 DEF SendFromISR, Full, Counted, CountHeld, TypeOK
  <2>2. QED BY <1>14, <2>1 DEF SendFromISR
<1>15. ASSUME Tick PROVE Kept
  <2>1. CASE suspended = None
    <3>1. Ticks(blocked, 1)
      BY <1>15, <2>1 DEF Tick
    <3>2. \A u \in Tasks : left[u] = 0 => left'[u] = 0
      BY <3>1, TicksStep
    <3>3. QED BY <1>15, <2>1, <3>2 DEF Tick
  <2>2. CASE suspended # None
    BY <1>15, <2>2 DEF Tick
  <2>3. QED BY <2>1, <2>2
<1>16. ASSUME UNCHANGED vars PROVE Kept
  BY <1>16 DEF vars
<1>17. QED
  BY <1>1, <1>2, <1>3, <1>4, <1>5, <1>6, <1>7, <1>8, <1>9, <1>10, <1>11, <1>12, <1>13, <1>14,
     <1>15, <1>16 DEF Next, TaskStep

\* Of what the lists hold: Waiting, and that only a suspended scheduler has tasks pending.
LEMMA WaitingStep == Control /\ [Next]_vars => (Waiting /\ NonePending)'
<1> SUFFICES ASSUME Control, [Next]_vars PROVE (Waiting /\ NonePending)'
  OBVIOUS
<1> DEFINE Kept == (Waiting /\ NonePending)'
<1> USE QueueAssumption, TasksFacts DEF Control, At, Runs, Goto
<1> USE DEF Waiting, NonePending, lists, ring, call
<1>0. /\ pc \in [Tasks -> Places] /\ entered \in [Tasks -> BOOLEAN] /\ left \in [Tasks -> Nat \cup {Forever}]
      /\ suspended \in Tasks \cup {None} /\ op \in [Tasks -> {"send", "receive"}]
      /\ blocked \subseteq Tasks /\ toReceive \subseteq blocked /\ toSend \subseteq blocked
      /\ pending \subseteq blocked \ (toReceive \cup toSend) /\ pended \in Nat
  BY DEF TypeOK
<1> USE <1>0
<1>1. ASSUME NEW t \in Tasks, Call(t) PROVE Kept
  BY <1>1 DEF Call
<1>2. ASSUME NEW t \in Tasks, Send(t) PROVE Kept
  <2>1. t \notin blocked /\ pc[t] = "try" /\ suspended = None
    BY <1>2 DEF Send, SchedulerHeld, Held
  <2>2. QED BY <1>2, <2>1, WakeStep DEF Send, Return
<1>3. ASSUME NEW t \in Tasks, Receive(t) PROVE Kept
  <2>1. t \notin blocked /\ pc[t] = "try" /\ suspended = None
    BY <1>3 DEF Receive, SchedulerHeld, Held
  <2>2. QED BY <1>3, <2>1, WakeStep DEF Receive, Return
<1>4. ASSUME NEW t \in Tasks, Refuse(t) PROVE Kept
  <2>1. t \notin blocked
    BY <1>4 DEF Refuse
  <2>2. QED BY <1>4, <2>1 DEF Refuse, Return
<1>5. ASSUME NEW t \in Tasks, Enter(t) PROVE Kept
  <2>1. t \notin blocked
    BY <1>5 DEF Enter, SchedulerHeld, Held
  <2>2. QED BY <1>5, <2>1 DEF Enter
<1>6. ASSUME NEW t \in Tasks, Suspend(t) PROVE Kept
  BY <1>6 DEF Suspend
<1>7. ASSUME NEW t \in Tasks, Lock(t) PROVE Kept
  BY <1>7 DEF Lock
<1>8. ASSUME NEW t \in Tasks, Check(t) PROVE Kept
  BY <1>8 DEF Check
<1>9. ASSUME NEW t \in Tasks, Test(t) PROVE Kept
  BY <1>9 DEF Test
<1>10. ASSUME NEW t \in Tasks, Place(t) PROVE Kept
  <2>1. entered[t] /\ left[t] # 0
    BY <1>10 DEF Place, Timing
  <2>2. QED BY <1>10, <2>1 DEF Place
<1>11. ASSUME NEW t \in Tasks, Unlock(t) PROVE Kept
  BY <1>11 DEF Unlock, WokenByUnlock, SchedulerHeld, Held
<1>12. ASSUME NEW t \in Tasks, Resume(t) PROVE Kept
  <2>1. Ticks(blocked \ pending, pended)
    BY <1>12 DEF Resume
  <2>2. /\ blocked' \subseteq blocked \ pending /\ toReceive' \subseteq toReceive /\ toSend' \subseteq toSend
        /\ \A u \in toReceive \cup toSend : u \in blocked' =>
              (u \in toReceive => u \in toReceive') /\ (u \in toSend => u \in toSend')
        /\ \A u \in blocked' : left'[u] # 0
    BY <2>1, TicksStep
  <2>3. /\ pc[t] = "resume" /\ op' = op /\ pending' = {}
        /\ \A u \in Tasks : u # t => pc'[u] = pc[u] /\ (entered'[u] <=> entered[u])
        /\ left[t] # 0 => pc'[t] = "try" /\ (entered'[t] <=> entered[t])
    BY <1>12 DEF Resume, Failed
  <2>4. QED BY <2>2, <2>3
<1>13. ASSUME NEW t \in Tasks, Retest(t) PROVE Kept
  <2>1. t \notin blocked
    BY <1>13 DEF Retest, SchedulerHeld, Held
  <2>2. CASE Empty
    BY <1>13, <2>1, <2>2 DEF Retest, Return
  <2>3. CASE ~Empty
    BY <1>13, <2>1, <2>3 DEF Retest
  <2>4. QED BY <2>2, <2>3
<1>14. ASSUME NEW i \in Items, SendFromISR(i) PROVE Kept
  <2>0. UNCHANGED <<suspended, pc, op, left, entered>>
    BY <1>14 DEF SendFromISR
  <2>1. CASE WakeReceiver
    BY <2>0, <2>1, WakeStep
  <2>2. CASE UNCHANGED lists
    BY <2>0, <2>2
  <2>3. QED BY <1>14, <2>1, <2>2 DEF SendFromISR
<1>15. ASSUME Tick PROVE Kept
  <2>1. CASE suspended = None
    <3>1. Ticks(blocked, 1) /\ blocked \in SUBSET blocked /\ 1 \in Nat
      BY <1>15, <2>1 DEF Tick
    <3>2. /\ blocked' \subseteq blocked /\ toReceive' \subseteq toReceive /\ toSend' \subseteq toSend
          /\ \A u \in toReceive \cup toSend : u \in blocked' =>
                (u \in toReceive => u \in toReceive') /\ (u \in toSend => u \in toSend')
          /\ \A u \in blocked' : left'[u] # 0
      BY <3>1, TicksStep
    <3>3. QED BY <1>15, <2>1, <3>2 DEF Tick
  <2>2. CASE suspended # None
    BY <1>15, <2>2 DEF Tick
  <2>3. QED BY <2>1, <2>2
<1>16. ASSUME UNCHANGED vars PROVE Kept
  BY <1>16 DEF vars
<1>17. QED
  BY <1>1, <1>2, <1>3, <1>4, <1>5, <1>6, <1>7, <1>8, <1>9, <1>10, <1>11, <1>12, <1>13, <1>14,
     <1>15, <1>16 DEF Next, TaskStep

\* The messages that are in the queue, and where the next one goes.
LEMMA CountStep == Control /\ PlaceSound /\ [Next]_vars => (CountHeld /\ PlaceSound)'
<1> SUFFICES ASSUME Control, PlaceSound, [Next]_vars PROVE (CountHeld /\ PlaceSound)'
  OBVIOUS
<1> DEFINE Kept == (CountHeld /\ PlaceSound)'
<1> USE QueueAssumption, TasksFacts DEF Control, At, Runs, Goto, Held
<1> USE DEF CountHeld, PlaceSound, lists, ring, call, Unlocked
<1>0. /\ pc \in [Tasks -> Places] /\ messages \in 0..Length /\ cTxLock \in -1..Length
      /\ suspended \in Tasks \cup {None} /\ op \in [Tasks -> {"send", "receive"}]
  BY DEF TypeOK
<1> USE <1>0
<1>1. ASSUME NEW t \in Tasks, Call(t) PROVE Kept
  BY <1>1 DEF Call
<1>2. ASSUME NEW t \in Tasks, Send(t) PROVE Kept
  <2>1. \A u \in Tasks : pc[u] # "place"
    BY <1>2 DEF Send, SchedulerHeld
  <2>2. QED BY <1>2, <2>1 DEF Send, Return, CopyIn, Full
<1>3. ASSUME NEW t \in Tasks, Receive(t) PROVE Kept
  <2>1. suspended = None /\ cTxLock = -1 /\ \A u \in Tasks : pc[u] # "place"
    BY <1>3 DEF Receive, SchedulerHeld, LockHeld
  <2>2. messages' = messages - 1 /\ messages # 0 /\ cTxLock' = -1
    BY <1>3, <2>1 DEF Receive, CopyOut, Empty
  <2>3. QED BY <1>3, <2>1, <2>2 DEF Receive, Return
<1>4. ASSUME NEW t \in Tasks, Refuse(t) PROVE Kept
  BY <1>4 DEF Refuse, Return
<1>5. ASSUME NEW t \in Tasks, Enter(t) PROVE Kept
  BY <1>5 DEF Enter
<1>6. ASSUME NEW t \in Tasks, Suspend(t) PROVE Kept
  BY <1>6 DEF Suspend
<1>7. ASSUME NEW t \in Tasks, Lock(t) PROVE Kept
  BY <1>7 DEF Lock, LockedUnmodified, SchedulerHeld
<1>8. ASSUME NEW t \in Tasks, Check(t) PROVE Kept
  BY <1>8 DEF Check
<1>9. ASSUME NEW t \in Tasks, Test(t) PROVE Kept
  <2>1. cTxLock >= 0
    BY <1>9 DEF Test, SchedulerHeld, LockHeld
  <2>2. QED BY <1>9, <2>1 DEF Test, Hindered, Full, Empty
<1>10. ASSUME NEW t \in Tasks, Place(t) PROVE Kept
  BY <1>10 DEF Place
<1>11. ASSUME NEW t \in Tasks, Unlock(t) PROVE Kept
  BY <1>11 DEF Unlock, SchedulerHeld
<1>12. ASSUME NEW t \in Tasks, Resume(t) PROVE Kept
  BY <1>12 DEF Resume, Failed
<1>13. ASSUME NEW t \in Tasks, Retest(t) PROVE Kept
  <2>1. CASE Empty
    BY <1>13, <2>1 DEF Retest, Return
  <2>2. CASE ~Empty
    BY <1>13, <2>2 DEF Retest
  <2>3. QED BY <2>1, <2>2
<1>14. ASSUME NEW i \in Items, SendFromISR(i) PROVE Kept
  <2>1. /\ messages # Length /\ messages' = messages + 1 /\ pc' = pc /\ op' = op
        /\ cTxLock' = IF cTxLock = -1 THEN -1 ELSE cTxLock + 1
    BY <1>14 DEF SendFromISR, CopyIn, Full, Counted
  <2>2. \A u \in Tasks : pc[u] = "place" => cTxLock # -1
    BY DEF SchedulerHeld, LockHeld
  <2>3. QED BY <2>1, <2>2
<1>15. ASSUME Tick PROVE Kept
  BY <1>15 DEF Tick
<1>16. ASSUME UNCHANGED vars PROVE Kept
  BY <1>16 DEF vars
<1>17. QED
  BY <1>1, <1>2, <1>3, <1>4, <1>5, <1>6, <1>7, <1>8, <1>9, <1>10, <1>11, <1>12, <1>13, <1>14,
     <1>15, <1>16 DEF Next, TaskStep

LEMMA WritePlaceStep == Control /\ WritePlace /\ [Next]_vars => WritePlace'
<1> SUFFICES ASSUME Control, WritePlace, [Next]_vars PROVE WritePlace'
  OBVIOUS
<1> USE QueueAssumption DEF Control, WritePlace, Nth
<1>0. /\ writeTo \in 0..(Length - 1) /\ readFrom \in 0..(Length - 1) /\ messages \in 0..Length
  BY DEF TypeOK, Positions
<1>1. ASSUME NEW i, CopyIn(i), ~Full PROVE WritePlace'
  BY <1>0, <1>1 DEF CopyIn, Full, Following
<1>2. ASSUME CopyOut, ~Empty PROVE WritePlace'
  BY <1>0, <1>2 DEF CopyOut, Empty, Following
<1>3. ASSUME UNCHANGED ring PROVE WritePlace'
  BY <1>3 DEF ring
<1>4. ASSUME NEW t \in Tasks, Call(t) \/ TaskStep(t) PROVE WritePlace'
  <2>1. CASE Send(t) BY <1>1, <2>1 DEF Send
  <2>2. CASE Receive(t) BY <1>2, <2>2 DEF Receive
  <2>3. CASE Call(t) BY <1>3, <2>3 DEF Call
  <2>4. CASE Refuse(t) \/ Enter(t) \/ Suspend(t) \/ Lock(t) \/ Check(t) \/ Test(t)
    BY <1>3, <2>4 DEF Refuse, Enter, Suspend, Lock, Check, Test
  <2>5. CASE Place(t) \/ Unlock(t) \/ Resume(t) \/ Retest(t)
    BY <1>3, <2>5 DEF Place, Unlock, Resume, Retest
  <2>6. QED BY <1>4, <2>1, <2>2, <2>3, <2>4, <2>5 DEF TaskStep
<1>5. QED
  BY <1>1, <1>3, <1>4 DEF Next, SendFromISR, Tick, vars, ring

-----------------------------------------------------------------------------
(***************************************************************************)
(* No wake-up is lost                                                       *)
(***************************************************************************)

\* A set of tasks that loses at most one, or gains at least some.
LEMMA SetSizes ==
  ASSUME NEW A \in SUBSET Tasks, NEW B \in SUBSET Tasks, NEW C \in SUBSET Tasks
  PROVE  /\ Cardinality(A) \in Nat
         /\ A \subseteq B => Cardinality(A) <= Cardinality(B)
         /\ A \cup C \subseteq B /\ A \cap C = {} => Cardinality(A) + Cardinality(C) <= Cardinality(B)
         /\ \A t : A \subseteq B \cup {t} => Cardinality(A) <= Cardinality(B) + 1
         /\ \A t : t \in B /\ t \notin A /\ A \subseteq B => Cardinality(A) + 1 <= Cardinality(B)
<1>0. IsFiniteSet(A) /\ IsFiniteSet(B) /\ IsFiniteSet(C)
  BY TasksFacts, FS_Subset
<1>1. Cardinality(A) \in Nat /\ Cardinality(B) \in Nat /\ Cardinality(C) \in Nat
  BY <1>0, FS_CardinalityType
<1>2. A \subseteq B => Cardinality(A) <= Cardinality(B)
  BY <1>0, FS_Subset
<1>3. A \cup C \subseteq B /\ A \cap C = {} => Cardinality(A) + Cardinality(C) <= Cardinality(B)
  <2>1. Cardinality(A \cup C) = Cardinality(A) + Cardinality(C) - Cardinality(A \cap C)
    BY <1>0, FS_Union
  <2>2. A \cup C \subseteq B => Cardinality(A \cup C) <= Cardinality(B)
    BY <1>0, FS_Subset
  <2>3. Cardinality({}) = 0
    BY FS_EmptySet
  <2>4. ASSUME A \cap C = {} PROVE Cardinality(A \cup C) = Cardinality(A) + Cardinality(C)
    <3>1. Cardinality(A \cap C) = 0
      BY <2>3, <2>4
    <3>2. QED BY <1>1, <2>1, <3>1
  <2>5. QED BY <2>2, <2>4
<1>4. \A t : A \subseteq B \cup {t} => Cardinality(A) <= Cardinality(B) + 1
  <2>1. SUFFICES ASSUME NEW t, A \subseteq B \cup {t} PROVE Cardinality(A) <= Cardinality(B) + 1
    OBVIOUS
  <2>2. IsFiniteSet(B \cup {t}) /\ Cardinality(B \cup {t}) \in {Cardinality(B), Cardinality(B) + 1}
    BY <1>0, FS_AddElement
  <2>3. Cardinality(A) <= Cardinality(B \cup {t})
    BY <2>1, <2>2, FS_Subset
  <2>4. QED BY <1>1, <2>2, <2>3
<1>5. \A t : t \in B /\ t \notin A /\ A \subseteq B => Cardinality(A) + 1 <= Cardinality(B)
  <2>1. SUFFICES ASSUME NEW t, t \in B, t \notin A, A \subseteq B
                 PROVE  Cardinality(A) + 1 <= Cardinality(B)
    OBVIOUS
  <2>2. Cardinality(A \cup {t}) = Cardinality(A) + 1
    BY <1>0, <2>1, FS_AddElement
  <2>3. Cardinality(A \cup {t}) <= Cardinality(B)
    BY <1>0, <2>1, FS_Subset
  <2>4. QED BY <2>2, <2>3
<1>6. QED BY <1>1, <1>2, <1>3, <1>4, <1>5

LockCount == IF cTxLock > 0 THEN cTxLock ELSE 0

LEMMA TryingTasks == \A o : Trying(o) \in SUBSET Tasks /\ Trying(o)' \in SUBSET Tasks
BY DEF Trying

\* A step that moves no message, and takes nobody from those that try.
LEMMA NobodyLost ==
  ASSUME Control, NoLostWakeup, TypeOK',
         messages' = messages, cTxLock' \in {cTxLock, LockedUnmodified}, cTxLock' >= cTxLock,
         toReceive' \subseteq toReceive, toSend' \subseteq toSend,
         Trying("receive") \subseteq Trying("receive")', Trying("send") \subseteq Trying("send")'
  PROVE  NoLostWakeup'
<1>1. messages \in Nat /\ Length \in Nat /\ cTxLock \in Int
  BY QueueAssumption DEF Control, TypeOK, Unlocked
<1>2. /\ Cardinality(Trying("receive")) \in Nat /\ Cardinality(Trying("receive")') \in Nat
      /\ Cardinality(Trying("receive")) <= Cardinality(Trying("receive")')
  BY TryingTasks, SetSizes
<1>3. /\ Cardinality(Trying("send")) \in Nat /\ Cardinality(Trying("send")') \in Nat
      /\ Cardinality(Trying("send")) <= Cardinality(Trying("send")')
  BY TryingTasks, SetSizes
<1>4. LockCount' >= LockCount /\ LockCount \in Nat /\ LockCount' \in Nat
  BY <1>1 DEF LockCount, LockedUnmodified
<1>5. toReceive # {} => messages <= Cardinality(Trying("receive")) + LockCount
  BY DEF NoLostWakeup, LockCount
<1>6. toReceive' # {} => messages' <= Cardinality(Trying("receive")') + LockCount'
  BY <1>1, <1>2, <1>4, <1>5
<1>7. toSend' # {} => Length - messages' <= Cardinality(Trying("send")')
  BY <1>1, <1>3 DEF NoLostWakeup
<1>8. QED BY <1>6, <1>7 DEF NoLostWakeup, LockCount

\* A task that stops trying has found the queue full, or empty.
LEMMA HinderedStep ==
  ASSUME Control, NoLostWakeup, TypeOK', NEW t \in Tasks, Refuse(t) \/ Enter(t)
  PROVE  NoLostWakeup'
<1>1. /\ UNCHANGED <<messages, cTxLock, toReceive, toSend, op>> /\ Hindered(t)
      /\ \A u \in Tasks : u # t => pc'[u] = pc[u] /\ left'[u] = left[u]
  BY DEF Refuse, Enter, Return, Goto, ring, lists, Control, TypeOK
<1>2. messages \in Nat /\ Length \in Nat /\ op[t] \in {"send", "receive"}
  BY QueueAssumption DEF Control, TypeOK
<1>3. /\ Cardinality(Trying("receive")') \in Nat /\ Cardinality(Trying("send")') \in Nat
      /\ Cardinality(Trying("receive")) \in Nat /\ Cardinality(Trying("send")) \in Nat
  BY TryingTasks, SetSizes
<1>4. CASE op[t] = "receive"
  <2>1. messages' = 0 /\ LockCount' \in Nat
    BY <1>1, <1>4 DEF Hindered, Empty, LockCount, TypeOK, Unlocked
  <2>2. Trying("send") \subseteq Trying("send")'
    BY <1>1, <1>4 DEF Trying
  <2>3. Cardinality(Trying("send")) <= Cardinality(Trying("send")')
    BY <2>2, TryingTasks, SetSizes
  <2>4. QED BY <1>1, <1>2, <1>3, <2>1, <2>3 DEF NoLostWakeup, LockCount
<1>5. CASE op[t] = "send"
  <2>1. messages' = Length /\ LockCount' = LockCount /\ LockCount \in Nat
    BY <1>1, <1>5 DEF Hindered, Full, LockCount, Control, TypeOK, Unlocked
  <2>2. Trying("receive") \subseteq Trying("receive")'
    BY <1>1, <1>5 DEF Trying
  <2>3. Cardinality(Trying("receive")) <= Cardinality(Trying("receive")')
    BY <2>2, TryingTasks, SetSizes
  <2>4. toReceive # {} => messages <= Cardinality(Trying("receive")) + LockCount
    BY DEF NoLostWakeup, LockCount
  <2>5. toReceive' # {} => messages' <= Cardinality(Trying("receive")') + LockCount'
    BY <1>1, <1>2, <1>3, <2>1, <2>3, <2>4
  <2>6. QED BY <1>2, <1>3, <2>1, <2>5 DEF NoLostWakeup, LockCount
<1>6. QED BY <1>2, <1>4, <1>5

\* A woken task tries.
LEMMA WokenTries ==
  ASSUME Control, NEW w \in toSend \cup toReceive,
         w \notin toSend' \cup toReceive', pc'[w] = pc[w] \/ (pc[w] = "unlock" /\ pc'[w] = "resume"),
         left'[w] = left[w], op'[w] = op[w]
  PROVE  /\ w \in toSend => w \in Trying("send")' /\ w \notin Trying("send")
         /\ w \in toReceive => w \in Trying("receive")' /\ w \notin Trying("receive")
BY DEF Control, TypeOK, Waiting, Trying

LEMMA SendStep ==
  ASSUME Control, NoLostWakeup, TypeOK', NEW t \in Tasks, Send(t)
  PROVE  NoLostWakeup'
<1>1. /\ messages' = messages + 1 /\ messages \in Nat /\ Length \in Nat /\ toSend' = toSend
      /\ op' = op /\ op[t] = "send" /\ pc[t] = "try" /\ suspended = None /\ t \notin blocked
      /\ \A u \in Tasks : u # t => pc'[u] = pc[u] /\ left'[u] = left[u]
  BY QueueAssumption, TasksFacts DEF Send, CopyIn, Return, Goto, WakeReceiver, Control, TypeOK,
       At, Runs, SchedulerHeld, Held
<1>2. cTxLock = -1 /\ cTxLock' = -1
  BY <1>1 DEF Send, Control, LockHeld, Unlocked
<1>3. /\ Cardinality(Trying("receive")') \in Nat /\ Cardinality(Trying("send")') \in Nat
      /\ Cardinality(Trying("receive")) \in Nat /\ Cardinality(Trying("send")) \in Nat
  BY TryingTasks, SetSizes
<1>4. ASSUME toSend' # {} PROVE Length - messages' <= Cardinality(Trying("send")')
  <2>1. toReceive' \subseteq toReceive
    BY DEF Send, WakeReceiver, lists
  <2>2. Trying("send") \subseteq Trying("send")' \cup {t}
    BY <1>1, <2>1 DEF Trying
  <2>3. Cardinality(Trying("send")) <= Cardinality(Trying("send")') + 1
    BY <2>2, TryingTasks, SetSizes
  <2>4. QED BY <1>1, <1>3, <1>4, <2>3 DEF NoLostWakeup
<1>5. ASSUME toReceive' # {} PROVE messages' <= Cardinality(Trying("receive")')
  <2>1. PICK w \in toReceive : toReceive' = toReceive \ {w}
    BY <1>5 DEF Send, WakeReceiver
  <2>2. w \in Trying("receive")' /\ w \notin Trying("receive")
    <3>1. w \in blocked /\ w \in Tasks /\ w \notin toSend
      BY DEF Control, TypeOK
    <3>2. QED BY <1>1, <2>1, <3>1, WokenTries
  <2>3. Trying("receive") \subseteq Trying("receive")'
    BY <1>1, <2>1 DEF Trying
  <2>4. Cardinality(Trying("receive")) + 1 <= Cardinality(Trying("receive")')
    BY <2>2, <2>3, TryingTasks, SetSizes
  <2>5. QED BY <1>1, <1>2, <1>3, <2>1, <2>4 DEF NoLostWakeup
<1>6. QED BY <1>1, <1>2, <1>3, <1>4, <1>5 DEF NoLostWakeup

LEMMA ReceiveStep ==
  ASSUME Control, NoLostWakeup, TypeOK', NEW t \in Tasks, Receive(t)
  PROVE  NoLostWakeup'
<1>1. /\ messages' = messages - 1 /\ messages \in Nat /\ Length \in Nat /\ toReceive' = toReceive
      /\ op' = op /\ op[t] = "receive" /\ pc[t] = "try" /\ suspended = None /\ t \notin blocked
      /\ \A u \in Tasks : u # t => pc'[u] = pc[u] /\ left'[u] = left[u]
  BY QueueAssumption, TasksFacts DEF Receive, CopyOut, Return, Goto, WakeSender, Control, TypeOK,
       At, Runs, SchedulerHeld, Held
<1>2. cTxLock = -1 /\ cTxLock' = -1
  BY <1>1 DEF Receive, Control, LockHeld, Unlocked
<1>3. /\ Cardinality(Trying("receive")') \in Nat /\ Cardinality(Trying("send")') \in Nat
      /\ Cardinality(Trying("receive")) \in Nat /\ Cardinality(Trying("send")) \in Nat
  BY TryingTasks, SetSizes
<1>4. ASSUME toReceive' # {} PROVE messages' <= Cardinality(Trying("receive")')
  <2>1. toSend' \subseteq toSend
    BY DEF Receive, WakeSender, lists
  <2>2. Trying("receive") \subseteq Trying("receive")' \cup {t}
    BY <1>1, <2>1 DEF Trying
  <2>3. Cardinality(Trying("receive")) <= Cardinality(Trying("receive")') + 1
    BY <2>2, TryingTasks, SetSizes
  <2>4. QED BY <1>1, <1>2, <1>3, <1>4, <2>3 DEF NoLostWakeup
<1>5. ASSUME toSend' # {} PROVE Length - messages' <= Cardinality(Trying("send")')
  <2>1. PICK w \in toSend : toSend' = toSend \ {w}
    BY <1>5 DEF Receive, WakeSender
  <2>2. w \in Trying("send")' /\ w \notin Trying("send")
    <3>1. w \in blocked /\ w \in Tasks /\ w \notin toReceive
      BY DEF Control, TypeOK
    <3>2. QED BY <1>1, <2>1, <3>1, WokenTries
  <2>3. Trying("send") \subseteq Trying("send")'
    BY <1>1, <2>1 DEF Trying
  <2>4. Cardinality(Trying("send")) + 1 <= Cardinality(Trying("send")')
    BY <2>2, <2>3, TryingTasks, SetSizes
  <2>5. QED BY <1>1, <1>3, <2>1, <2>4 DEF NoLostWakeup
<1>6. QED BY <1>1, <1>2, <1>3, <1>4, <1>5 DEF NoLostWakeup

LEMMA InterruptStep ==
  ASSUME Control, NoLostWakeup, TypeOK', NEW i \in Items, SendFromISR(i)
  PROVE  NoLostWakeup'
<1>0. /\ toSend' = toSend /\ toReceive' \subseteq toReceive
  BY DEF SendFromISR, WakeReceiver, lists
<1>1. /\ messages' = messages + 1 /\ messages \in 0..Length /\ Length \in Nat /\ toSend' = toSend
      /\ UNCHANGED <<op, pc, left>> /\ cTxLock \in -1..Length /\ messages # Length
      /\ toReceive' \subseteq toReceive /\ cTxLock <= messages
  BY <1>0, QueueAssumption DEF SendFromISR, CopyIn, Control, TypeOK, Unlocked, Full, call, CountHeld
<1>2. /\ Cardinality(Trying("receive")') \in Nat /\ Cardinality(Trying("send")') \in Nat
      /\ Cardinality(Trying("receive")) \in Nat /\ Cardinality(Trying("send")) \in Nat
  BY TryingTasks, SetSizes
<1>3. Trying("receive") \subseteq Trying("receive")' /\ Trying("send") \subseteq Trying("send")'
  BY <1>1 DEF Trying
<1>4. /\ Cardinality(Trying("receive")) <= Cardinality(Trying("receive")')
      /\ Cardinality(Trying("send")) <= Cardinality(Trying("send")')
  BY <1>3, TryingTasks, SetSizes
<1>5. ASSUME toReceive' # {} PROVE messages' <= Cardinality(Trying("receive")') + LockCount'
  <2>1. CASE cTxLock = -1
    <3>1. PICK w \in toReceive : toReceive' = toReceive \ {w}
      BY <1>5, <2>1 DEF SendFromISR, WakeReceiver, Unlocked
    <3>2. w \in Tasks /\ w \notin toSend
      BY DEF Control, TypeOK
    <3>3. w \in Trying("receive")' /\ w \notin Trying("receive")
      BY <1>1, <3>1, <3>2, WokenTries
    <3>4. Cardinality(Trying("receive")) + 1 <= Cardinality(Trying("receive")')
      BY <1>3, <3>3, TryingTasks, SetSizes
    <3>5. cTxLock' = -1
      BY <2>1 DEF SendFromISR, Unlocked
    <3>6. QED BY <1>1, <1>2, <2>1, <3>1, <3>4, <3>5 DEF NoLostWakeup, LockCount
  <2>2. CASE cTxLock # -1
    <3>0. cTxLock' = Counted(cTxLock) /\ toReceive' = toReceive
      BY <2>2 DEF SendFromISR, Unlocked, lists
    <3>1. cTxLock' = cTxLock + 1 /\ toReceive' = toReceive
      BY <1>1, <3>0, QueueAssumption DEF Counted
    <3>2. QED BY <1>1, <1>2, <1>4, <1>5, <2>2, <3>1 DEF NoLostWakeup, LockCount
  <2>3. QED BY <2>1, <2>2
<1>6. QED BY <1>1, <1>2, <1>4, <1>5 DEF NoLostWakeup, LockCount

\* Unlock wakes a receiver for every message that was counted.
LEMMA UnlockStep ==
  ASSUME Control, NoLostWakeup, TypeOK', NEW t \in Tasks, Unlock(t)
  PROVE  NoLostWakeup'
<1>1. /\ messages' = messages /\ messages \in Nat /\ Length \in Nat /\ toSend' = toSend
      /\ UNCHANGED <<op, left>> /\ cTxLock \in 0..Length /\ cTxLock' = -1
      /\ pc[t] = "unlock" /\ pc'[t] = "resume" /\ \A u \in Tasks : u # t => pc'[u] = pc[u]
  BY QueueAssumption DEF Unlock, At, Goto, Control, TypeOK, Unlocked, SchedulerHeld, Held, LockHeld,
       ring, call
<1>2. PICK W \in WokenByUnlock : toReceive' = toReceive \ W
  BY DEF Unlock
<1>3. W \in SUBSET toReceive /\ toReceive \in SUBSET Tasks /\ W \in SUBSET Tasks
  BY DEF WokenByUnlock, Control, TypeOK
<1>4. /\ Cardinality(Trying("receive")') \in Nat /\ Cardinality(Trying("send")') \in Nat
      /\ Cardinality(Trying("receive")) \in Nat /\ Cardinality(Trying("send")) \in Nat
      /\ Cardinality(W) \in Nat
  BY <1>3, TryingTasks, SetSizes
<1>5. Trying("receive") \subseteq Trying("receive")' /\ Trying("send") \subseteq Trying("send")'
  BY <1>1, <1>2 DEF Trying
<1>6. W \subseteq Trying("receive")' /\ W \cap Trying("receive") = {}
  <2>1. \A w \in W : w \in Tasks /\ w \in toReceive /\ w \notin toSend' \cup toReceive'
    BY <1>1, <1>2, <1>3 DEF Control, TypeOK
  <2>2. \A w \in W : /\ left'[w] = left[w] /\ op'[w] = op[w]
                     /\ pc'[w] = pc[w] \/ (pc[w] = "unlock" /\ pc'[w] = "resume")
    BY <1>1, <2>1
  <2>3. QED BY <2>1, <2>2, WokenTries
<1>7. Cardinality(Trying("receive")) + Cardinality(W) <= Cardinality(Trying("receive")')
  BY <1>3, <1>5, <1>6, TryingTasks, SetSizes
<1>8. ASSUME toReceive' # {} PROVE messages' <= Cardinality(Trying("receive")')
  <2>1. Cardinality(W) = LockCount
    BY <1>1, <1>2, <1>8 DEF WokenByUnlock, LockCount, LockedUnmodified
  <2>2. messages <= Cardinality(Trying("receive")) + LockCount
    BY <1>2, <1>8 DEF NoLostWakeup, LockCount
  <2>3. QED BY <1>1, <1>4, <1>7, <2>1, <2>2
<1>9. Cardinality(Trying("send")) <= Cardinality(Trying("send")')
  BY <1>5, TryingTasks, SetSizes
<1>10. QED BY <1>1, <1>4, <1>8, <1>9 DEF NoLostWakeup

LEMMA PlaceStep ==
  ASSUME Control, PlaceSound, NoLostWakeup, TypeOK', NEW t \in Tasks, Place(t)
  PROVE  NoLostWakeup'
<1>1. /\ messages' = messages /\ messages \in Nat /\ Length \in Nat
      /\ UNCHANGED <<op, left>> /\ cTxLock \in -1..Length /\ cTxLock' = cTxLock
      /\ pc[t] = "place" /\ pc'[t] = "unlock" /\ \A u \in Tasks : u # t => pc'[u] = pc[u]
      /\ op[t] \in {"send", "receive"}
      /\ toReceive' = IF op[t] = "receive" THEN toReceive \cup {t} ELSE toReceive
      /\ toSend' = IF op[t] = "send" THEN toSend \cup {t} ELSE toSend
  BY QueueAssumption DEF Place, At, Goto, Control, TypeOK, Unlocked, ring, call
<1>2. /\ Cardinality(Trying("receive")') \in Nat /\ Cardinality(Trying("send")') \in Nat
      /\ Cardinality(Trying("receive")) \in Nat /\ Cardinality(Trying("send")) \in Nat
  BY TryingTasks, SetSizes
<1>3. Trying("receive") \subseteq Trying("receive")' /\ Trying("send") \subseteq Trying("send")'
  BY <1>1 DEF Trying
<1>4. /\ Cardinality(Trying("receive")) <= Cardinality(Trying("receive")')
      /\ Cardinality(Trying("send")) <= Cardinality(Trying("send")')
  BY <1>3, TryingTasks, SetSizes
<1>5. toReceive' # {} => messages' <= Cardinality(Trying("receive")') + LockCount'
  <2>1. CASE op[t] = "receive"
    BY <1>1, <1>2, <2>1 DEF PlaceSound, LockCount
  <2>2. CASE op[t] # "receive"
    BY <1>1, <1>2, <1>4, <2>2 DEF NoLostWakeup, LockCount
  <2>3. QED BY <2>1, <2>2
<1>6. toSend' # {} => Length - messages' <= Cardinality(Trying("send")')
  <2>1. CASE op[t] = "send"
    BY <1>1, <1>2, <2>1 DEF PlaceSound
  <2>2. CASE op[t] # "send"
    BY <1>1, <1>2, <1>4, <2>2 DEF NoLostWakeup
  <2>3. QED BY <2>1, <2>2
<1>7. QED BY <1>5, <1>6 DEF NoLostWakeup, LockCount

\* The scheduler runs again: those whose time is up are ready, as are those woken.
LEMMA ResumeStep ==
  ASSUME Control, NoLostWakeup, TypeOK', NEW t \in Tasks, Resume(t)
  PROVE  NoLostWakeup'
<1>1. /\ messages' = messages /\ cTxLock' = cTxLock /\ op' = op
      /\ pc[t] = "resume" /\ (left[t] # 0 => pc'[t] = "try")
      /\ \A u \in Tasks : u # t => pc'[u] = pc[u] /\ pc[u] \notin Held
      /\ Ticks(blocked \ pending, pended) /\ blocked \ pending \in SUBSET blocked /\ pended \in Nat
  BY DEF Resume, Failed, Goto, At, Control, TypeOK, ring, SchedulerHeld, Held
<1>2. toReceive' \subseteq toReceive /\ toSend' \subseteq toSend
  BY <1>1, TicksStep DEF Control
<1>3. \A o : \A u \in Trying(o) : u \in Trying(o)'
  BY <1>1, <1>2 DEF Trying, Held
<1>4. Trying("receive") \subseteq Trying("receive")' /\ Trying("send") \subseteq Trying("send")'
  BY <1>1, <1>2 DEF Trying, Held
<1>5. cTxLock' >= cTxLock
  BY <1>1 DEF Control, TypeOK, Unlocked
<1>6. QED BY <1>1, <1>2, <1>4, <1>5, NobodyLost

LEMMA TickStep ==
  ASSUME Control, NoLostWakeup, TypeOK', Tick
  PROVE  NoLostWakeup'
<1>1. messages' = messages /\ cTxLock' = cTxLock /\ op' = op /\ pc' = pc
  BY DEF Tick, ring
<1>2. cTxLock' >= cTxLock
  BY <1>1 DEF Control, TypeOK, Unlocked
<1>3. CASE suspended = None
  <2>1. Ticks(blocked, 1) /\ blocked \in SUBSET blocked /\ 1 \in Nat
    BY <1>3 DEF Tick
  <2>2. toReceive' \subseteq toReceive /\ toSend' \subseteq toSend
    BY <2>1, TicksStep DEF Control
  <2>3. \A u \in Tasks : pc[u] \notin Held
    BY <1>3, TasksFacts DEF Control, SchedulerHeld
  <2>4. Trying("receive") \subseteq Trying("receive")' /\ Trying("send") \subseteq Trying("send")'
    BY <1>1, <2>2, <2>3 DEF Trying, Held
  <2>5. QED BY <1>1, <1>2, <2>2, <2>4, NobodyLost
<1>4. CASE suspended # None
  <2>1. UNCHANGED <<toReceive, toSend, left>>
    BY <1>4 DEF Tick, lists
  <2>2. Trying("receive") \subseteq Trying("receive")' /\ Trying("send") \subseteq Trying("send")'
    BY <1>1, <2>1 DEF Trying
  <2>3. QED BY <1>1, <1>2, <2>1, <2>2, NobodyLost
<1>5. QED BY <1>3, <1>4

\* The other steps of a task move neither messages nor the lists.
LEMMA OtherStep ==
  ASSUME Control, NoLostWakeup, TypeOK', NEW t \in Tasks,
         Call(t) \/ Suspend(t) \/ Lock(t) \/ Check(t) \/ Test(t) \/ Retest(t)
  PROVE  NoLostWakeup'
<1>1. /\ UNCHANGED <<messages, toReceive, toSend>> /\ cTxLock' \in {cTxLock, LockedUnmodified}
      /\ cTxLock' >= cTxLock
  BY DEF Call, Suspend, Lock, Check, Test, Retest, ring, lists, Control, TypeOK, Unlocked, LockedUnmodified
<1>2. \A u \in Tasks : u # t => pc'[u] = pc[u] /\ left'[u] = left[u] /\ op'[u] = op[u]
  <2>1. CASE Call(t) \/ Suspend(t) \/ Lock(t) \/ Check(t) \/ Test(t)
    BY <2>1 DEF Call, Suspend, Lock, Check, Test, Goto, call, Control, TypeOK
  <2>2. CASE Retest(t)
    BY <2>2 DEF Retest, Return, Goto, call, Control, TypeOK
  <2>3. QED BY <2>1, <2>2
<1>3. t \notin Trying("receive") /\ t \notin Trying("send")
  BY DEF Trying, Call, Suspend, Lock, Check, Test, Retest, At
<1>4. Trying("receive") \subseteq Trying("receive")' /\ Trying("send") \subseteq Trying("send")'
  BY <1>1, <1>2, <1>3 DEF Trying
<1>5. QED BY <1>1, <1>4, NobodyLost

LEMMA NoLostStep == Control /\ PlaceSound /\ NoLostWakeup /\ [Next]_vars => NoLostWakeup'
<1> SUFFICES ASSUME Control, PlaceSound, NoLostWakeup, [Next]_vars PROVE NoLostWakeup'
  OBVIOUS
<1>1. TypeOK'
  BY TypeStep
<1>2. CASE UNCHANGED vars
  BY <1>2 DEF vars, ring, lists, call, NoLostWakeup, Trying
<1>3. CASE \E t \in Tasks : Call(t) \/ TaskStep(t)
  BY <1>1, <1>3, OtherStep, SendStep, ReceiveStep, HinderedStep, PlaceStep, UnlockStep, ResumeStep
     DEF TaskStep
<1>4. CASE \E i \in Items : SendFromISR(i)
  BY <1>1, <1>4, InterruptStep
<1>5. CASE Tick
  BY <1>1, <1>5, TickStep
<1>6. QED BY <1>2, <1>3, <1>4, <1>5 DEF Next

-----------------------------------------------------------------------------
(***************************************************************************)
(* Theorems                                                                 *)
(***************************************************************************)

LEMMA InvStep == IInv /\ [Next]_vars => IInv'
BY TypeStep, ControlStep, WaitingStep, CountStep, WritePlaceStep, NoLostStep DEF IInv, Control

LEMMA SpecInv == Spec => []IInv
BY InitHolds, InvStep, PTL DEF Spec

\* The variables stay well formed; the lock count never passes the number of messages,
\* so that it never overflows its type (queue.c:969, 1055).
THEOREM QueueTypeCorrect == Spec => []TypeOK
<1>1. IInv => TypeOK BY DEF IInv, Control
<1>2. QED BY <1>1, SpecInv, PTL

\* However tasks and interrupts interleave, no message lies in the queue while a receiver
\* waits that nobody will wake, and no place while such a sender waits (queue.c:1376-1398,
\* 1794-1911).
THEOREM QueueLosesNoWakeup == Spec => []NoLostWakeup
<1>1. IInv => NoLostWakeup BY DEF IInv
<1>2. QED BY <1>1, SpecInv, PTL

-----------------------------------------------------------------------------
(***************************************************************************)
(* The queue implements BoundedQueue                                        *)
(***************************************************************************)

Contents == [k \in 1..messages |-> store[Nth(k)]]
Calls == [t \in Tasks |-> [op |-> IF pc[t] = "idle" THEN "idle" ELSE op[t],
                          item |-> item[t], wait |-> Patience(t)]]

LEMMA ContentsSeq ==
  ASSUME TypeOK
  PROVE  Contents \in Seq(Items \cup {Nothing}) /\ Len(Contents) = messages
<1>1. \A k \in 1..messages : Nth(k) \in Positions
  BY QueueAssumption DEF TypeOK, Positions, Nth
<1>2. Contents \in [1..messages -> Items \cup {Nothing}] /\ messages \in Nat
  BY <1>1, QueueAssumption DEF TypeOK, Contents
<1>3. QED BY <1>2

LEMMA CopyInAppends ==
  ASSUME TypeOK, WritePlace, ~Full, NEW i \in Items \cup {Nothing}, CopyIn(i)
  PROVE  Contents' = Append(Contents, i) /\ Len(Contents) < Length
<1>1. /\ messages \in 0..Length /\ messages # Length /\ readFrom \in 0..(Length - 1) /\ Length \in Nat
      /\ store \in [0..(Length - 1) -> Items \cup {Nothing}]
      /\ messages' = messages + 1 /\ readFrom' = readFrom /\ writeTo = Nth(messages + 1)
      /\ store' = [store EXCEPT ![writeTo] = i] /\ writeTo \in 0..(Length - 1)
  BY QueueAssumption DEF TypeOK, Full, CopyIn, WritePlace, Positions
<1>2. \A k \in 1..messages : Nth(k) \in 0..(Length - 1) /\ Nth(k)' = Nth(k) /\ Nth(k) # writeTo
  BY <1>1 DEF Nth
<1>3. \A k \in 1..messages : Contents'[k] = Contents[k]
  BY <1>1, <1>2 DEF Contents, Nth
<1>4. Contents'[messages + 1] = i
  BY <1>1 DEF Contents, Nth
<1>5. Contents \in Seq(Items \cup {Nothing}) /\ Len(Contents) = messages
  BY ContentsSeq
<1>6. Contents' \in Seq(Items \cup {Nothing}) /\ Len(Contents') = messages + 1
  <2>1. Contents' = [k \in 1..(messages + 1) |-> Contents'[k]]
    BY <1>1 DEF Contents
  <2>2. \A k \in 1..(messages + 1) : Contents'[k] \in Items \cup {Nothing}
    BY <1>1, <1>3, <1>4, <1>5
  <2>3. messages + 1 \in Nat
    BY <1>1
  <2>4. Contents' \in [1..(messages + 1) -> Items \cup {Nothing}]
    BY <2>1, <2>2, Zenon
  <2>5. QED BY <2>3, <2>4
<1>7. /\ Append(Contents, i) \in Seq(Items \cup {Nothing}) /\ Len(Append(Contents, i)) = messages + 1
      /\ \A k \in 1..messages : Append(Contents, i)[k] = Contents[k]
      /\ Append(Contents, i)[messages + 1] = i
  BY <1>5, AppendProperties
<1>8. \A k \in 1..(messages + 1) : Contents'[k] = Append(Contents, i)[k]
  BY <1>1, <1>3, <1>4, <1>7
<1>9. Contents' = Append(Contents, i)
  BY <1>6, <1>7, <1>8, SeqEqual
<1>10. QED BY <1>1, <1>5, <1>9

LEMMA CopyOutTakesHead ==
  ASSUME TypeOK, ~Empty, CopyOut
  PROVE  /\ Contents # <<>> /\ Contents' = Tail(Contents)
         /\ store[Following(readFrom)] = Head(Contents)
<1>1. /\ messages \in 1..Length /\ readFrom \in 0..(Length - 1) /\ Length \in Nat
      /\ messages' = messages - 1 /\ readFrom' = Following(readFrom) /\ store' = store
  BY QueueAssumption DEF TypeOK, Empty, CopyOut, Positions
<1>2. Contents \in Seq(Items \cup {Nothing}) /\ Len(Contents) = messages
  BY ContentsSeq
<1>3. \A k \in 1..(messages - 1) : (IF readFrom' + k < Length THEN readFrom' + k ELSE readFrom' + k - Length) = Nth(k + 1)
  BY <1>1 DEF Nth, Following
<1>4. \A k \in 1..(messages - 1) : Contents'[k] = Contents[k + 1]
  BY <1>1, <1>3 DEF Contents, Nth
<1>5. /\ Contents # <<>> /\ Tail(Contents) \in Seq(Items \cup {Nothing})
      /\ Len(Tail(Contents)) = messages - 1
      /\ \A k \in 1..(messages - 1) : Tail(Contents)[k] = Contents[k + 1]
  BY <1>1, <1>2, HeadTailProperties
<1>6. Contents' \in Seq(Items \cup {Nothing}) /\ Len(Contents') = messages - 1
  <2>1. Contents' = [k \in 1..(messages - 1) |-> Contents'[k]]
    BY <1>1 DEF Contents
  <2>2. \A k \in 1..(messages - 1) : Contents'[k] \in Items \cup {Nothing}
    BY <1>1, <1>2, <1>4
  <2>3. messages - 1 \in Nat
    BY <1>1
  <2>4. Contents' \in [1..(messages - 1) -> Items \cup {Nothing}]
    BY <2>1, <2>2, Zenon
  <2>5. QED BY <2>3, <2>4
<1>7. Contents' = Tail(Contents)
  BY <1>4, <1>5, <1>6, SeqEqual
<1>8. Following(readFrom) = Nth(1)
  BY <1>1 DEF Following, Nth
<1>9. store[Following(readFrom)] = Contents[1]
  BY <1>1, <1>8 DEF Contents
<1>10. QED BY <1>1, <1>2, <1>5, <1>7, <1>9

\* Ticks do not change how a task is willing to wait.
LEMMA TicksKeepPatience ==
  ASSUME TypeOK, Waiting, NEW n \in Nat, NEW S \in SUBSET blocked, Ticks(S, n),
         NEW t \in Tasks, entered'[t] = entered[t]
  PROVE  Patience(t)' = Patience(t)
<1>1. /\ left[t] = Forever <=> left'[t] = Forever
      /\ left[t] = 0 => left'[t] = 0
      /\ ~entered[t] => left'[t] = left[t]
  BY TicksStep
<1>2. QED BY <1>1 DEF Patience

\* The step of a task that changes neither the queue nor what its call asks for.
LEMMA Stutters ==
  ASSUME TypeOK, UNCHANGED <<ring, op, item>>,
         \A t \in Tasks : Patience(t)' = Patience(t) /\ (pc'[t] = "idle" <=> pc[t] = "idle")
  PROVE  UNCHANGED <<Contents, Calls>>
<1>1. Contents' = Contents
  BY DEF Contents, Nth, ring
<1>2. Calls' = Calls
  BY DEF Calls
<1>3. QED BY <1>1, <1>2

\* A call of t that returns, with i.
LEMMA ReturnStep ==
  ASSUME Control, NEW t \in Tasks, NEW i, Return(t, i)
  PROVE  Calls' = [Calls EXCEPT ![t] = Promise!Request("idle", i, "none")]
<1>1. /\ pc'[t] = "idle" /\ item'[t] = i /\ left'[t] = 0 /\ entered'[t] = FALSE /\ op' = op
      /\ \A u \in Tasks : u # t => /\ pc'[u] = pc[u] /\ item'[u] = item[u]
                                  /\ left'[u] = left[u] /\ entered'[u] = entered[u]
  BY DEF Return, Goto, Control, TypeOK
<1>2. Patience(t)' = "none"
  BY <1>1, QueueAssumption DEF Patience
<1>3. \A u \in Tasks : u # t => Patience(u)' = Patience(u)
  BY <1>1 DEF Patience
<1>4. QED BY <1>1, <1>2, <1>3 DEF Calls, Promise!Request

LEMMA CallStep ==
  ASSUME Control, NEW t \in Tasks, Call(t)
  PROVE  Promise!Begin(t)
<1>1. PICK o \in {"send", "receive"}, i \in Items, w \in Waits :
        /\ op' = [op EXCEPT ![t] = o]
        /\ item' = [item EXCEPT ![t] = IF o = "send" THEN i ELSE Nothing]
        /\ left' = [left EXCEPT ![t] = w]
  BY DEF Call
<1>2. pc[t] = "idle" /\ pc' = [pc EXCEPT ![t] = "try"] /\ entered' = [entered EXCEPT ![t] = FALSE]
  BY DEF Call, At, Goto
<1>3. Patience(t)' \in Promise!Patience
  BY DEF Patience, Promise!Patience
<1>4. \A u \in Tasks : u # t => Patience(u)' = Patience(u)
  BY <1>1, <1>2 DEF Patience, Control, TypeOK
<1>5. Calls' = [Calls EXCEPT ![t] =
                  Promise!Request(o, IF o = "send" THEN i ELSE Nothing, Patience(t)')]
  BY <1>1, <1>2, <1>4 DEF Calls, Promise!Request, Control, TypeOK
<1>6. Contents' = Contents
  BY DEF Call, Contents, Nth, ring
<1>7. Calls[t].op = "idle"
  BY <1>2 DEF Calls
<1>8. \/ \E j \in Items : Calls' = [Calls EXCEPT ![t] = Promise!Request("send", j, Patience(t)')]
      \/ Calls' = [Calls EXCEPT ![t] = Promise!Request("receive", Nothing, Patience(t)')]
  BY <1>5
<1>9. \E v \in Promise!Patience :
        \/ \E j \in Items : Calls' = [Calls EXCEPT ![t] = Promise!Request("send", j, v)]
        \/ Calls' = [Calls EXCEPT ![t] = Promise!Request("receive", Nothing, v)]
  BY <1>3, <1>8
<1>10. QED BY <1>6, <1>7, <1>9 DEF Promise!Begin, Contents, Calls

LEMMA SendMaps ==
  ASSUME IInv, NEW t \in Tasks, Send(t)
  PROVE  Promise!Sends(t)
<1>1. Contents' = Append(Contents, item[t]) /\ Len(Contents) < Length
  BY CopyInAppends DEF Send, IInv, Control, TypeOK
<1>2. Calls' = [Calls EXCEPT ![t] = Promise!Request("idle", Nothing, "none")]
  BY ReturnStep DEF Send, IInv
<1>3. Calls[t].op = "send" /\ Calls[t].item = item[t]
  BY DEF Calls, Send, At
<1>4. QED BY <1>1, <1>2, <1>3 DEF Promise!Sends, Promise!Returns, Contents, Calls

LEMMA ReceiveMaps ==
  ASSUME IInv, NEW t \in Tasks, Receive(t)
  PROVE  Promise!Receives(t)
<1>1. /\ Contents # <<>> /\ Contents' = Tail(Contents)
      /\ store[Following(readFrom)] = Head(Contents)
  BY CopyOutTakesHead DEF Receive, IInv, Control
<1>2. Calls' = [Calls EXCEPT ![t] = Promise!Request("idle", Head(Contents), "none")]
  BY <1>1, ReturnStep DEF Receive, IInv
<1>3. Calls[t].op = "receive"
  BY DEF Calls, Receive, At
<1>4. QED BY <1>1, <1>2, <1>3 DEF Promise!Receives, Promise!Returns, Contents, Calls

\* Only a call that may fail does.
LEMMA FailMaps ==
  ASSUME IInv, NEW t \in Tasks, pc[t] # "idle", left[t] = 0,
         Calls' = [Calls EXCEPT ![t] = Promise!Request("idle", Nothing, "none")],
         UNCHANGED ring, op[t] = "receive" => Empty, op[t] = "send" /\ ~entered[t] => Full
  PROVE  Promise!Fails(t)
<1>1. Contents' = Contents /\ Len(Contents) = messages /\ (messages = 0 => Contents = <<>>)
  <2>1. Contents' = Contents
    BY DEF Contents, Nth, ring
  <2>2. Contents \in Seq(Items \cup {Nothing}) /\ Len(Contents) = messages
    BY ContentsSeq DEF IInv, Control
  <2>3. QED BY <2>1, <2>2, EmptySeq
<1>2. Calls[t].op = op[t] /\ Calls[t].wait = IF entered[t] THEN "some" ELSE "none"
  BY QueueAssumption DEF Calls, Patience
<1>3. op[t] # "idle"
  BY DEF IInv, Control, TypeOK
<1>4. /\ Calls[t].op # "idle" /\ Calls[t].wait # "endless"
      /\ Calls[t].op = "receive" => Contents = <<>>
      /\ Calls[t].op = "send" /\ Calls[t].wait = "none" => Len(Contents) = Length
  BY <1>1, <1>2, <1>3 DEF Empty, Full
<1>5. QED BY <1>1, <1>4 DEF Promise!Fails, Promise!Returns, Contents, Calls

LEMMA RefuseMaps ==
  ASSUME IInv, NEW t \in Tasks, Refuse(t)
  PROVE  Promise!Fails(t)
<1>1. Calls' = [Calls EXCEPT ![t] = Promise!Request("idle", Nothing, "none")]
  BY ReturnStep DEF Refuse, IInv
<1>2. /\ pc[t] # "idle" /\ left[t] = 0 /\ UNCHANGED ring
      /\ (op[t] = "receive" => Empty) /\ (op[t] = "send" => Full)
  BY DEF Refuse, At, Hindered
<1>3. QED BY <1>1, <1>2, FailMaps

LEMMA RetestMaps ==
  ASSUME IInv, NEW t \in Tasks, Retest(t)
  PROVE  Promise!Fails(t) \/ UNCHANGED <<Contents, Calls>>
<1>1. pc[t] = "retest" /\ left[t] = 0 /\ entered[t] /\ UNCHANGED ring
  BY DEF Retest, At, IInv, Control, Timing
<1>2. CASE Empty
  <2>1. Return(t, Nothing)
    BY <1>2 DEF Retest
  <2>2. Calls' = [Calls EXCEPT ![t] = Promise!Request("idle", Nothing, "none")]
    BY <2>1, ReturnStep DEF IInv
  <2>3. QED BY <1>1, <1>2, <2>2, FailMaps
<1>3. CASE ~Empty
  <2>1. UNCHANGED <<op, item, left, entered>> /\ pc' = [pc EXCEPT ![t] = "try"]
    BY <1>3 DEF Retest, Goto, call
  <2>2. \A u \in Tasks : Patience(u)' = Patience(u) /\ (pc'[u] = "idle" <=> pc[u] = "idle")
    BY <1>1, <2>1 DEF Patience, IInv, Control, TypeOK
  <2>3. QED BY <1>1, <2>1, <2>2, Stutters DEF IInv, Control
<1>4. QED BY <1>2, <1>3

LEMMA ResumeMaps ==
  ASSUME IInv, NEW t \in Tasks, Resume(t)
  PROVE  Promise!Fails(t) \/ UNCHANGED <<Contents, Calls>>
<1>1. /\ pc[t] = "resume" /\ UNCHANGED ring /\ Ticks(blocked \ pending, pended) /\ entered[t]
      /\ blocked \ pending \in SUBSET blocked /\ pended \in Nat
  BY DEF Resume, At, IInv, Control, TypeOK, Timing
<1>2. CASE left[t] = 0 /\ op[t] = "send"
  <2>1. Failed(t)
    BY <1>2 DEF Resume
  <2>2. \A u \in Tasks : u # t => Patience(u)' = Patience(u)
    BY <1>1, <2>1, TicksKeepPatience DEF Failed, IInv, Control, TypeOK
  <2>3. Patience(t)' = "none"
    <3>1. left'[t] = 0
      BY <1>1, <1>2, TicksStep DEF IInv, Control
    <3>2. entered'[t] = FALSE
      BY <2>1 DEF Failed, IInv, Control, TypeOK
    <3>3. QED BY <3>1, <3>2, QueueAssumption DEF Patience
  <2>4. Calls' = [Calls EXCEPT ![t] = Promise!Request("idle", Nothing, "none")]
    BY <2>1, <2>2, <2>3 DEF Calls, Failed, Goto, Promise!Request, IInv, Control, TypeOK
  <2>5. QED BY <1>1, <1>2, <2>4, FailMaps
<1>3. CASE ~(left[t] = 0 /\ op[t] = "send")
  <2>1. UNCHANGED <<op, item, entered>> /\ pc' \in {[pc EXCEPT ![t] = "try"], [pc EXCEPT ![t] = "retest"]}
    BY <1>3 DEF Resume, Goto
  <2>2. \A u \in Tasks : Patience(u)' = Patience(u)
    BY <1>1, <2>1, TicksKeepPatience DEF IInv, Control
  <2>3. \A u \in Tasks : pc'[u] = "idle" <=> pc[u] = "idle"
    BY <1>1, <2>1 DEF IInv, Control, TypeOK
  <2>4. QED BY <1>1, <2>1, <2>2, <2>3, Stutters DEF IInv, Control
<1>4. QED BY <1>2, <1>3

LEMMA QuietSteps ==
  ASSUME IInv, NEW t \in Tasks,
         Enter(t) \/ Suspend(t) \/ Lock(t) \/ Check(t) \/ Test(t) \/ Place(t) \/ Unlock(t)
  PROVE  UNCHANGED <<Contents, Calls>>
<1>1. UNCHANGED <<ring, op, item>>
  BY DEF Enter, Suspend, Lock, Check, Test, Place, Unlock, call
<1>2. \A u \in Tasks : pc'[u] = "idle" <=> pc[u] = "idle"
  BY DEF Enter, Suspend, Lock, Check, Test, Place, Unlock, At, Goto, IInv, Control, TypeOK
<1>3. \A u \in Tasks : Patience(u)' = Patience(u)
  <2>1. CASE Enter(t)
    BY <2>1 DEF Enter, Patience, IInv, Control, TypeOK
  <2>2. CASE Suspend(t) \/ Lock(t) \/ Check(t) \/ Test(t) \/ Place(t) \/ Unlock(t)
    BY <2>2 DEF Suspend, Lock, Check, Test, Place, Unlock, call, Patience
  <2>3. QED BY <2>1, <2>2
<1>4. QED BY <1>1, <1>2, <1>3, Stutters DEF IInv, Control

LEMMA InterruptMaps ==
  ASSUME IInv, NEW i \in Items, SendFromISR(i)
  PROVE  Promise!Post(i)
<1>1. Contents' = Append(Contents, i) /\ Len(Contents) < Length
  BY CopyInAppends DEF SendFromISR, IInv, Control
<1>2. Calls' = Calls
  BY DEF SendFromISR, Calls, Patience, call
<1>3. QED BY <1>1, <1>2 DEF Promise!Post, Contents, Calls

LEMMA TickMaps ==
  ASSUME IInv, Tick
  PROVE  UNCHANGED <<Contents, Calls>>
<1>1. UNCHANGED <<ring, op, item, pc, entered>>
  BY DEF Tick
<1>2. \A u \in Tasks : Patience(u)' = Patience(u)
  <2>1. CASE suspended = None
    <3>1. Ticks(blocked, 1) /\ blocked \in SUBSET blocked /\ 1 \in Nat
      BY <2>1 DEF Tick
    <3>2. QED BY <1>1, <3>1, TicksKeepPatience DEF IInv, Control
  <2>2. CASE suspended # None
    BY <1>1, <2>2 DEF Tick, Patience
  <2>3. QED BY <2>1, <2>2
<1>3. QED BY <1>1, <1>2, Stutters DEF IInv, Control

\* Each call takes effect once or not at all, and in order; a call that may not wait, or that
\* has waited, fails only if it has to; one that waits without limit does not fail
\* (queue.c:723-1431).
THEOREM QueueImplementsBoundedQueue == Spec => ImplementsBoundedQueue
<1>1. ASSUME Init PROVE Promise!Init
  <2>1. Contents = <<>>
    BY <1>1, QueueAssumption DEF Init, Contents
  <2>2. Calls = [t \in Tasks |-> Promise!Request("idle", Nothing, "none")]
    BY <1>1, QueueAssumption DEF Init, Calls, Patience, Promise!Request
  <2>3. QED BY <2>1, <2>2 DEF Promise!Init, Contents, Calls
<1>2. IInv /\ [Next]_vars => [Promise!Next]_<<Contents, Calls>>
  <2> SUFFICES ASSUME IInv, [Next]_vars PROVE [Promise!Next]_<<Contents, Calls>>
    OBVIOUS
  <2>1. CASE UNCHANGED vars
    BY <2>1 DEF vars, ring, lists, call, Contents, Nth, Calls, Patience
  <2>2. ASSUME NEW t \in Tasks, Call(t) \/ TaskStep(t)
        PROVE  \/ Promise!Begin(t) \/ Promise!Sends(t) \/ Promise!Receives(t) \/ Promise!Fails(t)
               \/ UNCHANGED <<Contents, Calls>>
    BY <2>2, CallStep, SendMaps, ReceiveMaps, RefuseMaps, RetestMaps, ResumeMaps, QuietSteps
       DEF TaskStep, IInv
  <2>3. ASSUME NEW i \in Items, SendFromISR(i) PROVE Promise!Post(i)
    BY <2>3, InterruptMaps
  <2>4. ASSUME Tick PROVE UNCHANGED <<Contents, Calls>>
    BY <2>4, TickMaps
  <2>5. QED BY <2>1, <2>2, <2>3, <2>4 DEF Next, Promise!Next
<1>3. QED
  BY <1>1, <1>2, SpecInv, PTL DEF Spec, ImplementsBoundedQueue, Promise!Spec, Contents, Calls

=============================================================================
