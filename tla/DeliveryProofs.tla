--------------------------- MODULE DeliveryProofs ---------------------------
(***************************************************************************)
(* What Delivery.tla guarantees for every length of the queue, size of the *)
(* heap, number of sockets, reports and changes of the network, and then   *)
(* what of it Shutdown.tla keeps.  None of the properties is inductive     *)
(* alone: the counters of refused, written and lost reports stay in their  *)
(* ranges because together with what is under way they sum up to the       *)
(* reports made, and a report is only made while the bound allows.         *)
(***************************************************************************)
EXTENDS Shutdown, SequenceTheorems, FiniteSetTheorems, TLAPS

\* What the counter task's step says of its data.
CounterAtStep ==
  /\ cpc \in {"compare", "malloc"} => nReports < MaxReports
  /\ cpc = "send" => cMsg \in Reports

DInv == TypeOK /\ CounterAtStep /\ ReportsConserved /\ SocketsAccounted

\* The same with k reports that nothing refers to any more: such are left
\* when SVRIF_stop ends the tasks.
Conserved(k) ==
  nReports = nDropped + nWritten + nLost + k + Len(xMessageQ)
               + (IF cpc = "send" THEN 1 ELSE 0)
               + (IF spc = "write" THEN 1 ELSE 0)

DInvWith(k) == TypeOK /\ CounterAtStep /\ Conserved(k) /\ SocketsAccounted

\* Reports under way are not refused, written or lost as well.
LEMMA CountersBounded ==
  ASSUME NEW made \in 0..MaxReports, NEW dropped \in Nat, NEW written \in Nat, NEW lost \in Nat, NEW k \in Nat,
         NEW queued \in Nat, NEW sending \in {0, 1}, NEW writing \in {0, 1},
         made = dropped + written + lost + k + queued + sending + writing
  PROVE  dropped \in 0..MaxReports /\ written \in 0..MaxReports /\ lost \in 0..MaxReports
<1>1. made \in Nat /\ made <= MaxReports /\ MaxReports \in Nat
  BY DeliveryAssumption
<1>2. sending \in Nat /\ writing \in Nat
  OBVIOUS
<1>3. dropped <= made /\ written <= made /\ lost <= made
  BY <1>1, <1>2
<1>4. dropped <= MaxReports /\ written <= MaxReports /\ lost <= MaxReports
  BY <1>1, <1>3
<1>5. QED
  BY <1>1, <1>4

LEMMA DeliveryInit == Init => DInv
<1> SUFFICES ASSUME Init PROVE DInv
  OBVIOUS
<1>1. TypeOK
  <2>1. xMessageQ \in Seq(Reports) /\ Len(xMessageQ) <= QueueLength
    BY EmptySeq, DeliveryAssumption DEF Init
  <2>2. /\ nReports \in 0..MaxReports /\ nDropped \in 0..MaxReports /\ nWritten \in 0..MaxReports
        /\ nLost \in 0..MaxReports /\ lastWritten \in 0..MaxReports
        /\ nLeaked \in 0..NumSockets /\ nChanges \in 0..MaxChanges
    BY DeliveryAssumption DEF Init
  <2>3. QED
    BY <2>1, <2>2 DEF Init, TypeOK, NoMsg
<1>2. CounterAtStep /\ ReportsConserved
  BY DEF Init, CounterAtStep, ReportsConserved
<1>3. SocketsAccounted
  BY DeliveryAssumption DEF Init, SocketsAccounted, Online
<1>4. QED
  BY <1>1, <1>2, <1>3 DEF DInv

LEMMA DeliveryNextWith ==
  ASSUME NEW CONSTANT k \in Nat, DInvWith(k), [Next]_vars
  PROVE  DInvWith(k)'
<1> USE DEF DInvWith
<1>1. /\ xMessageQ \in Seq(Reports) /\ Len(xMessageQ) \in Nat
      /\ nReports \in Nat /\ nDropped \in Nat /\ nWritten \in Nat /\ nLost \in Nat
  BY DeliveryAssumption, LenProperties DEF TypeOK
<1>2. ASSUME NEW r \in Readings, Input(r)
      PROVE  DInvWith(k)'
  <2> USE <1>2 DEF Input, heapVars, serverVars, ifVars, worldVars, history
  <2>1. TypeOK'
    BY DEF TypeOK
  <2>2. CounterAtStep' /\ Conserved(k)' /\ SocketsAccounted'
    BY DEF CounterAtStep, Conserved, SocketsAccounted
  <2>3. QED
    BY <2>1, <2>2
<1>3. CASE Tick
  <2> USE <1>3 DEF Tick, heapVars, serverVars, ifVars, worldVars, history
  <2>1. TypeOK'
    BY DEF TypeOK
  <2>2. CounterAtStep' /\ Conserved(k)' /\ SocketsAccounted'
    BY DEF CounterAtStep, Conserved, SocketsAccounted
  <2>3. QED
    BY <2>1, <2>2
<1>4. CASE Compare
  <2> USE <1>4 DEF Compare, heapVars, serverVars, ifVars, worldVars, history
  <2>1. TypeOK'
    <3>1. newSecond' \in BOOLEAN
      BY Zenon DEF TypeOK
    <3>2. cpc' \in {"input", "malloc"}
      BY Zenon
    <3>3. QED
      BY <3>1, <3>2 DEF TypeOK
  <2>2. CounterAtStep' /\ Conserved(k)' /\ SocketsAccounted'
    BY DEF CounterAtStep, Conserved, SocketsAccounted
  <2>3. QED
    BY <2>1, <2>2
<1>5. CASE Malloc
  <2> USE <1>5 DEF Malloc, serverVars, ifVars, worldVars
  <2>1. nReports' \in Reports /\ nReports' \in 0..MaxReports
    BY DeliveryAssumption DEF TypeOK, CounterAtStep, Reports
  <2>2. Conserved(k)'
    <3>1. CASE Cardinality(allocated) < HeapBlocks
      BY <3>1, <1>1 DEF Conserved
    <3>2. CASE ~(Cardinality(allocated) < HeapBlocks)
      BY <3>2, <1>1 DEF Conserved
    <3>3. QED
      BY <3>1, <3>2
  <2>3. nDropped' \in 0..MaxReports
    <3> DEFINE sending == IF cpc' = "send" THEN 1 ELSE 0
               writing == IF spc' = "write" THEN 1 ELSE 0
    <3>1. /\ nReports' \in 0..MaxReports /\ Len(xMessageQ') \in Nat
          /\ nDropped' \in Nat /\ nWritten' \in Nat /\ nLost' \in Nat
      BY <1>1, <2>1
    <3>2. sending \in {0, 1} /\ writing \in {0, 1}
      OBVIOUS
    <3>3. nReports' = nDropped' + nWritten' + nLost' + k + Len(xMessageQ') + sending + writing
      BY <2>2 DEF Conserved
    <3> HIDE <1>5 DEF sending, writing, Malloc
    <3>4. QED
      BY <3>1, <3>2, <3>3, CountersBounded
  <2>4. TypeOK'
    <3>1. /\ cMsg' \in {NoMsg} \cup Reports /\ allocated' \subseteq Reports
          /\ cpc' \in {"send", "record"}
      BY <2>1 DEF TypeOK
    <3>2. QED
      BY <2>1, <2>3, <3>1 DEF TypeOK
  <2>5. CounterAtStep' /\ SocketsAccounted'
    BY <2>1 DEF CounterAtStep, SocketsAccounted
  <2>6. QED
    BY <2>2, <2>4, <2>5
<1>6. CASE Send
  <2> USE <1>6 DEF Send, serverVars, ifVars, worldVars
  <2>1. xMessageQ' \in Seq(Reports) /\ Len(xMessageQ') <= QueueLength
    BY <1>1, AppendProperties, DeliveryAssumption DEF TypeOK, CounterAtStep
  <2>2. Conserved(k)'
    <3>1. CASE Len(xMessageQ) < QueueLength
      <4>1. Len(xMessageQ') = Len(xMessageQ) + 1
        BY <3>1, <1>1, AppendProperties DEF CounterAtStep
      <4>2. QED
        BY <3>1, <4>1, <1>1 DEF Conserved
    <3>2. CASE ~(Len(xMessageQ) < QueueLength)
      BY <3>2, <1>1 DEF Conserved
    <3>3. QED
      BY <3>1, <3>2
  <2>3. nDropped' \in 0..MaxReports
    <3> DEFINE sending == IF cpc' = "send" THEN 1 ELSE 0
               writing == IF spc' = "write" THEN 1 ELSE 0
    <3>1. /\ nReports' \in 0..MaxReports /\ Len(xMessageQ') \in Nat
          /\ nDropped' \in Nat /\ nWritten' \in Nat /\ nLost' \in Nat
      BY <1>1, <2>1, LenProperties DEF TypeOK
    <3>2. sending \in {0, 1} /\ writing \in {0, 1}
      OBVIOUS
    <3>3. nReports' = nDropped' + nWritten' + nLost' + k + Len(xMessageQ') + sending + writing
      BY <2>2 DEF Conserved
    <3> HIDE <1>6 DEF sending, writing, Send
    <3>4. QED
      BY <3>1, <3>2, <3>3, CountersBounded
  <2>4. TypeOK'
    BY <2>1, <2>3 DEF TypeOK
  <2>5. CounterAtStep' /\ SocketsAccounted'
    BY DEF CounterAtStep, SocketsAccounted
  <2>6. QED
    BY <2>2, <2>4, <2>5
<1>7. CASE Record
  <2> USE <1>7 DEF Record, heapVars, serverVars, ifVars, worldVars, history
  <2>1. TypeOK'
    BY DEF TypeOK
  <2>2. CounterAtStep' /\ Conserved(k)' /\ SocketsAccounted'
    BY DEF CounterAtStep, Conserved, SocketsAccounted
  <2>3. QED
    BY <2>1, <2>2
<1>8. CASE StartNet \/ Loop \/ Sleep \/ Socket
  <2> USE <1>8 DEF StartNet, Loop, Sleep, Socket, counterVars, heapVars, ifVars, worldVars, history
  <2>1. TypeOK'
    <3>1. linkUp' \in BOOLEAN /\ up' \in BOOLEAN /\ dhcp' \in BOOLEAN
      BY Zenon DEF TypeOK
    <3>2. spc' \in {"loop", "socket", "sleep", "connect"}
      BY Zenon
    <3>3. QED
      BY <3>1, <3>2 DEF TypeOK, Online
  <2>2. CounterAtStep' /\ Conserved(k)'
    BY DEF CounterAtStep, Conserved
  <2>3. SocketsAccounted'
    <3>1. /\ UNCHANGED <<nLeaked, conn>> /\ spc \notin Online /\ (conn # "none" => spc \in Online)
          /\ nLeaked \in 0..NumSockets /\ NumSockets \in Nat /\ nLeaked + 0 <= NumSockets
      BY DeliveryAssumption DEF SocketsAccounted, Online, TypeOK
    <3>2. spc' \in Online => nLeaked < NumSockets /\ spc' = "connect"
      BY DEF Online
    <3>3. nLeaked' + (IF spc' \in Online THEN 1 ELSE 0) <= NumSockets
      <4> HIDE <1>8
      <4>1. QED BY <3>1, <3>2
    <3>4. QED BY <3>1, <3>3 DEF SocketsAccounted
  <2>4. QED
    BY <2>1, <2>2, <2>3
<1>9. CASE Connected \/ ConnectFailed \/ Close
  <2> USE <1>9 DEF Connected, ConnectFailed, Close, counterVars, heapVars, ifVars, worldVars, history
  <2>1. nLeaked' \in 0..NumSockets
    BY DeliveryAssumption DEF TypeOK, SocketsAccounted, Online
  <2>2. TypeOK'
    BY <2>1 DEF TypeOK, Online
  <2>3. CounterAtStep' /\ Conserved(k)'
    BY DEF CounterAtStep, Conserved
  <2>4. SocketsAccounted'
    BY DeliveryAssumption DEF SocketsAccounted, Online, TypeOK
  <2>5. QED
    BY <2>2, <2>3, <2>4
<1>10. CASE Receive
  <2> USE <1>10 DEF Receive, counterVars, ifVars, worldVars, history
  <2>1. /\ sMsg' \in Reports /\ xMessageQ' \in Seq(Reports)
        /\ Len(xMessageQ') = Len(xMessageQ) - 1 /\ Len(xMessageQ) \in Nat
    BY <1>1, HeadTailProperties
  <2>2. TypeOK'
    BY <2>1, DeliveryAssumption DEF TypeOK, Online
  <2>3. CounterAtStep' /\ Conserved(k)'
    BY <1>1, <2>1 DEF CounterAtStep, Conserved
  <2>4. SocketsAccounted'
    BY DEF SocketsAccounted, Online
  <2>5. QED
    BY <2>2, <2>3, <2>4
<1>11. CASE Write \/ WriteLost
  <2>1. /\ Conserved(k)' /\ UNCHANGED <<counterVars, heapVars, sMsg, nLeaked, ifVars, worldVars, nDropped>>
        /\ spc \in Online /\ spc' \in {"sent", "failed"}
        /\ nWritten' \in Nat /\ nLost' \in Nat /\ lastWritten' \in {lastWritten, sMsg}
        /\ conn' = conn /\ spc # "connect"
    <3>1. Conserved(k)'
      <4>1. CASE Write
        BY <4>1, <1>1 DEF Conserved, Write, counterVars, heapVars
      <4>2. CASE WriteLost
        BY <4>2, <1>1 DEF Conserved, WriteLost, counterVars, heapVars
      <4>3. QED
        BY <1>11, <4>1, <4>2
    <3>2. QED
      BY <3>1, <1>11, <1>1 DEF Write, WriteLost, counterVars, heapVars, ifVars, worldVars, Online
  <2>2. nWritten' \in 0..MaxReports /\ nLost' \in 0..MaxReports
    <3> DEFINE sending == IF cpc' = "send" THEN 1 ELSE 0
               writing == IF spc' = "write" THEN 1 ELSE 0
    <3>1. /\ nReports' \in 0..MaxReports /\ Len(xMessageQ') \in Nat
          /\ nDropped' \in Nat /\ nWritten' \in Nat /\ nLost' \in Nat
      BY <1>1, <2>1 DEF TypeOK, counterVars, heapVars
    <3>2. sending \in {0, 1} /\ writing \in {0, 1}
      OBVIOUS
    <3>3. nReports' = nDropped' + nWritten' + nLost' + k + Len(xMessageQ') + sending + writing
      BY <2>1 DEF Conserved
    <3> HIDE DEF sending, writing
    <3>4. QED
      BY <3>1, <3>2, <3>3, CountersBounded
  <2>3. TypeOK'
    <3>1. lastWritten' \in 0..MaxReports
      BY <2>1, DeliveryAssumption DEF TypeOK, Reports, NoMsg
    <3>2. QED
      BY <2>1, <2>2, <3>1 DEF TypeOK, Online, counterVars, heapVars, ifVars, worldVars
  <2>4. CounterAtStep' /\ SocketsAccounted'
    BY <2>1 DEF CounterAtStep, SocketsAccounted, Online, counterVars, worldVars
  <2>5. QED
    BY <2>1, <2>3, <2>4
<1>12. CASE Free
  <2> USE <1>12 DEF Free, counterVars, ifVars, worldVars, history
  <2>1. TypeOK'
    BY DEF TypeOK, Online, NoMsg
  <2>2. CounterAtStep' /\ Conserved(k)'
    BY DEF CounterAtStep, Conserved
  <2>3. SocketsAccounted'
    BY DEF SocketsAccounted, Online
  <2>4. QED
    BY <2>1, <2>2, <2>3
<1>13. CASE NetChange
  <2> USE <1>13 DEF NetChange, counterVars, heapVars, serverVars, ifVars, history
  <2>1. conn' \in {"none", "alive", "broken"} /\ (conn = "none" => conn' = "none")
    BY DEF TypeOK
  <2>2. TypeOK'
    BY <2>1, DeliveryAssumption DEF TypeOK
  <2>3. CounterAtStep' /\ Conserved(k)' /\ SocketsAccounted'
    BY <2>1 DEF CounterAtStep, Conserved, SocketsAccounted
  <2>4. QED
    BY <2>2, <2>3
<1>14. CASE UNCHANGED vars
  <2> USE <1>14 DEF vars, counterVars, heapVars, serverVars, ifVars, worldVars, history
  <2>1. TypeOK'
    BY DEF TypeOK
  <2>2. CounterAtStep' /\ Conserved(k)' /\ SocketsAccounted'
    BY DEF CounterAtStep, Conserved, SocketsAccounted
  <2>3. QED
    BY <2>1, <2>2
<1>15. QED
  BY <1>2, <1>3, <1>4, <1>5, <1>6, <1>7, <1>8, <1>9, <1>10, <1>11, <1>12, <1>13, <1>14
     DEF Next, CounterStep, ServerStep, ReceiveTimeout

LEMMA DeliveryNext == DInv /\ [Next]_vars => DInv'
<1>1. (DInv <=> DInvWith(0)) /\ (DInv' <=> DInvWith(0)')
  <2>1. TypeOK => (nDropped + nWritten + nLost \in Nat /\ nDropped + nWritten + nLost + 0 = nDropped + nWritten + nLost)
    BY DeliveryAssumption DEF TypeOK
  <2>2. TypeOK' => (nDropped' + nWritten' + nLost' \in Nat /\ nDropped' + nWritten' + nLost' + 0 = nDropped' + nWritten' + nLost')
    <3>1. TypeOK' => nDropped' \in 0..MaxReports /\ nWritten' \in 0..MaxReports /\ nLost' \in 0..MaxReports
      BY DEF TypeOK
    <3>2. QED BY <3>1, DeliveryAssumption
  <2>3. QED BY <2>1, <2>2 DEF DInv, DInvWith, Conserved, ReportsConserved
<1>2. QED BY <1>1, DeliveryNextWith

LEMMA DeliveryInv == Spec => []DInv
  BY DeliveryInit, DeliveryNext, PTL DEF Spec

\* The state of the two tasks, the queue and the sockets is always well formed:
\* the queue keeps to its length and no socket beyond NUM_SOCKETS is used.
THEOREM DeliveryTypeCorrect == Spec => []TypeOK
  BY DeliveryInv, PTL DEF DInv

\* Every report that SVRIF_send was called with is under way, written, refused
\* or given up on a broken connection, and counted once.
THEOREM NoReportVanishes == Spec => []ReportsConserved
  BY DeliveryInv, PTL DEF DInv

\* A connection exists only while the client holds its socket, and only failed
\* connects lose sockets.
THEOREM SocketsAreAccounted == Spec => []SocketsAccounted
  BY DeliveryInv, PTL DEF DInv

-----------------------------------------------------------------------------
(***************************************************************************)
(* One owner for each block, and reports in order.  Both follow from one   *)
(* fact: what was made later is behind what was made earlier, from the     *)
(* report written last over the client's, the queue's and the sender's to  *)
(* the number of reports made.                                             *)
(***************************************************************************)

Busy == spc \in {"write", "sent", "failed"}

InLine ==
  /\ \A i, j \in 1..Len(xMessageQ) : i < j => xMessageQ[i] < xMessageQ[j]
  /\ \A i \in 1..Len(xMessageQ) : lastWritten < xMessageQ[i] /\ xMessageQ[i] <= nReports
  /\ lastWritten <= nReports
  /\ cpc = "send" =>
       /\ cMsg = nReports /\ lastWritten < cMsg
       /\ \A i \in 1..Len(xMessageQ) : xMessageQ[i] < cMsg
  /\ Busy =>
       /\ sMsg \in Reports /\ sMsg <= nReports
       /\ \A i \in 1..Len(xMessageQ) : sMsg < xMessageQ[i]
       /\ cpc = "send" => sMsg < cMsg
  /\ spc = "write" => lastWritten < sMsg

Queued == {xMessageQ[i] : i \in 1..Len(xMessageQ)}
\* The queue's blocks and, if c, the sender's and, if b, the client's.
Hands(c, b) == (IF c THEN {cMsg} ELSE {}) \cup Queued \cup (IF b THEN {sMsg} ELSE {})
Owned == Hands(cpc = "send", Busy)

OInv == DInv /\ InLine /\ allocated = Owned /\ queue = "live"

LEMMA HeldIsOwned == ASSUME TypeOK PROVE Held = Owned
<1>1. DOMAIN xMessageQ = 1..Len(xMessageQ)
  BY LenProperties DEF TypeOK
<1>2. QED BY <1>1 DEF Held, Owned, Hands, Queued, Busy

LEMMA QueuedCounted ==
  ASSUME TypeOK, InLine PROVE IsFiniteSet(Queued) /\ Cardinality(Queued) = Len(xMessageQ)
<1>1. Len(xMessageQ) \in Nat /\ xMessageQ \in [1..Len(xMessageQ) -> Reports]
  BY LenProperties DEF TypeOK
<1>2. xMessageQ \in [1..Len(xMessageQ) -> Queued]
  BY <1>1 DEF Queued
<1>3. ASSUME NEW i \in 1..Len(xMessageQ), NEW j \in 1..Len(xMessageQ), i # j
      PROVE  xMessageQ[i] # xMessageQ[j]
  <2>1. i \in Nat /\ j \in Nat /\ (i < j \/ j < i) /\ xMessageQ[i] \in Nat /\ xMessageQ[j] \in Nat
    BY <1>1, <1>3 DEF Reports
  <2>2. xMessageQ[i] < xMessageQ[j] \/ xMessageQ[j] < xMessageQ[i]
    BY <1>3, <2>1 DEF InLine
  <2>3. QED BY <2>1, <2>2
<1>4. ExistsBijection(1..Len(xMessageQ), Queued)
  <2>1. \A x \in Queued : \E i \in 1..Len(xMessageQ) : xMessageQ[i] = x
    BY DEF Queued
  <2>2. QED
    BY <1>2, <1>3, <2>1 DEF ExistsBijection, Bijection, Injection, Surjection, IsInjective
<1>5. IsFiniteSet(1..Len(xMessageQ)) /\ Cardinality(1..Len(xMessageQ)) = Len(xMessageQ)
  <2>1. Len(xMessageQ) \in Int /\ 1 \in Int /\ (1 > Len(xMessageQ) => Len(xMessageQ) = 0)
        /\ (Len(xMessageQ) - 1) + 1 = Len(xMessageQ)
    BY <1>1
  <2>2. /\ IsFiniteSet(1..Len(xMessageQ))
        /\ Cardinality(1..Len(xMessageQ)) = IF 1 > Len(xMessageQ) THEN 0 ELSE (Len(xMessageQ) - 1) + 1
    BY <2>1, FS_Interval
  <2>3. QED BY <2>1, <2>2
<1>6. QED BY <1>4, <1>5, FS_Bijection

\* A block with a task is not in the queue or with the other task as well.
LEMMA Apart ==
  ASSUME TypeOK, InLine
  PROVE  /\ cpc = "send" => cMsg \notin Queued
         /\ Busy => sMsg \notin Queued /\ (cpc = "send" => sMsg # cMsg)
<1>1. /\ Len(xMessageQ) \in Nat
      /\ \A i \in 1..Len(xMessageQ) : xMessageQ[i] \in Nat
      /\ nReports \in Nat
  BY LenProperties, DeliveryAssumption DEF TypeOK, Reports
<1>2. ASSUME cpc = "send", NEW i \in 1..Len(xMessageQ) PROVE xMessageQ[i] # cMsg
  <2>1. xMessageQ[i] \in Nat /\ xMessageQ[i] < cMsg
    BY <1>1, <1>2 DEF InLine
  <2>2. QED BY <2>1
<1>3. ASSUME Busy
      PROVE  sMsg \notin Queued /\ (cpc = "send" => sMsg # cMsg)
  <2>1. sMsg \in Nat
    BY <1>3 DEF InLine, Reports
  <2>2. ASSUME NEW i \in 1..Len(xMessageQ) PROVE xMessageQ[i] # sMsg
    <3>1. xMessageQ[i] \in Nat /\ sMsg < xMessageQ[i]
      BY <1>1, <1>3 DEF InLine
    <3>2. QED BY <2>1, <3>1
  <2>3. cpc = "send" => sMsg < cMsg
    BY <1>3 DEF InLine
  <2>4. QED BY <2>1, <2>2, <2>3 DEF Queued
<1>4. QED BY <1>2, <1>3 DEF Queued

LEMMA HandsCounted ==
  ASSUME TypeOK, InLine, NEW c \in BOOLEAN, NEW b \in BOOLEAN, c => cpc = "send", b => Busy
  PROVE  /\ IsFiniteSet(Hands(c, b))
         /\ Cardinality(Hands(c, b)) = Len(xMessageQ) + (IF c THEN 1 ELSE 0) + (IF b THEN 1 ELSE 0)
<1>1. Len(xMessageQ) \in Nat /\ IsFiniteSet(Queued) /\ Cardinality(Queued) = Len(xMessageQ)
  BY QueuedCounted, LenProperties DEF TypeOK
<1>2. /\ c => cMsg \notin Queued
      /\ b => sMsg \notin Queued /\ (c => sMsg # cMsg)
  BY Apart
<1> DEFINE Q == IF c THEN Queued \cup {cMsg} ELSE Queued
           n == IF c THEN 1 ELSE 0
<1>3. n \in Nat
  OBVIOUS
<1>4. IsFiniteSet(Q) /\ Cardinality(Q) = Len(xMessageQ) + n
  <2>1. CASE c
    <3>1. IsFiniteSet(Queued \cup {cMsg}) /\ Cardinality(Queued \cup {cMsg}) = Len(xMessageQ) + 1
      BY <1>1, <1>2, <2>1, FS_AddElement
    <3>2. QED BY <2>1, <3>1
  <2>2. CASE ~c
    BY <1>1, <2>2
  <2>3. QED BY <2>1, <2>2
<1>5. b => sMsg \notin Q
  BY <1>2
<1>6. Hands(c, b) = IF b THEN Q \cup {sMsg} ELSE Q
  BY DEF Hands
<1> HIDE DEF Q, n
<1>7. CASE b
  <2>1. IsFiniteSet(Q \cup {sMsg}) /\ Cardinality(Q \cup {sMsg}) = Cardinality(Q) + 1
    BY <1>4, <1>5, <1>7, FS_AddElement
  <2>2. Hands(c, b) = Q \cup {sMsg}
    BY <1>6, <1>7
  <2>3. Cardinality(Hands(c, b)) = Len(xMessageQ) + n + 1
    BY <1>4, <2>1, <2>2
  <2>4. QED BY <1>7, <2>1, <2>2, <2>3 DEF n
<1>8. CASE ~b
  <2>1. Hands(c, b) = Q
    BY <1>6, <1>8
  <2>2. Cardinality(Hands(c, b)) = Len(xMessageQ) + n + 0
    BY <1>1, <1>3, <1>4, <2>1
  <2>3. QED BY <1>4, <1>8, <2>1, <2>2 DEF n
<1>9. QED BY <1>7, <1>8

LEMMA OwnedCounted ==
  ASSUME TypeOK, InLine
  PROVE  /\ IsFiniteSet(Owned)
         /\ Cardinality(Owned) = Len(xMessageQ) + (IF cpc = "send" THEN 1 ELSE 0) + (IF Busy THEN 1 ELSE 0)
<1> DEFINE c == cpc = "send"
           b == Busy
<1>1. c \in BOOLEAN /\ b \in BOOLEAN
  BY DEF Busy
<1>2. /\ IsFiniteSet(Hands(c, b))
      /\ Cardinality(Hands(c, b)) = Len(xMessageQ) + (IF c THEN 1 ELSE 0) + (IF b THEN 1 ELSE 0)
  <2> HIDE DEF c, b
  <2>1. (c => cpc = "send") /\ (b => Busy)
    BY DEF c, b
  <2>2. QED BY <1>1, <2>1, HandsCounted
<1>3. QED BY <1>2 DEF Owned

LEMMA OwnerInit == Init => OInv
<1> SUFFICES ASSUME Init PROVE OInv
  OBVIOUS
<1>1. Len(xMessageQ) = 0
  BY EmptySeq DEF Init
<1>2. InLine
  BY <1>1 DEF Init, InLine, Busy
<1>3. allocated = Owned
  BY <1>1 DEF Init, Owned, Hands, Queued, Busy
<1>4. QED BY <1>2, <1>3, DeliveryInit DEF OInv, Init

\* How a block changes hands: the counter task allocates it, passes it on or
\* frees it; the server task takes it and frees it.
CounterMoves ==
  /\ UNCHANGED <<queue, sMsg, spc>>
  /\ \/ UNCHANGED <<allocated, xMessageQ, cMsg>> /\ (cpc' = "send" <=> cpc = "send")
     \/ cpc # "send" /\ cpc' = "send" /\ allocated' = allocated \cup {cMsg'} /\ UNCHANGED xMessageQ
     \/ cpc = "send" /\ cpc' # "send" /\ Queued' = Queued \cup {cMsg} /\ UNCHANGED allocated
     \/ cpc = "send" /\ cpc' # "send" /\ allocated' = allocated \ {cMsg} /\ UNCHANGED xMessageQ

ServerMoves ==
  /\ UNCHANGED <<queue, cMsg, cpc>>
  /\ \/ UNCHANGED <<allocated, xMessageQ, sMsg>> /\ (Busy' <=> Busy)
     \/ ~Busy /\ Busy' /\ Queued = Queued' \cup {sMsg'} /\ UNCHANGED allocated
     \/ Busy /\ ~Busy' /\ allocated' = allocated \ {sMsg} /\ UNCHANGED xMessageQ

\* What a step that touches no report leaves as it was.
LEMMA InLineKept ==
  ASSUME InLine, UNCHANGED <<cMsg, nReports, xMessageQ, sMsg, lastWritten>>,
         cpc' = "send" <=> cpc = "send", Busy' <=> Busy, spc' = "write" <=> spc = "write"
  PROVE  InLine'
BY DEF InLine

LEMMA InLineTypes ==
  ASSUME TypeOK
  PROVE  /\ xMessageQ \in Seq(Reports) /\ Len(xMessageQ) \in Nat /\ nReports \in Nat /\ lastWritten \in Nat
         /\ \A i \in 1..Len(xMessageQ) : xMessageQ[i] \in Nat
BY LenProperties, DeliveryAssumption DEF TypeOK, Reports

LEMMA CounterInLine ==
  ASSUME TypeOK, CounterAtStep, InLine, (\E r \in Readings : Input(r)) \/ CounterStep
  PROVE  InLine' /\ CounterMoves
<1>1. /\ xMessageQ \in Seq(Reports) /\ Len(xMessageQ) \in Nat /\ nReports \in Nat /\ lastWritten \in Nat
      /\ \A i \in 1..Len(xMessageQ) : xMessageQ[i] \in Nat
  BY InLineTypes
<1>2. CASE (\E r \in Readings : Input(r)) \/ Compare \/ Record
  <2>1. UNCHANGED <<cMsg, nReports, allocated, xMessageQ, queue, sMsg, lastWritten, spc>>
        /\ cpc # "send" /\ cpc' # "send"
    BY <1>2 DEF Input, Compare, Record, heapVars, serverVars, history
  <2>2. QED BY <2>1, InLineKept DEF Busy, CounterMoves
<1>3. CASE Malloc
  <2>1. /\ cpc = "malloc" /\ nReports' = nReports + 1
        /\ UNCHANGED <<xMessageQ, queue, sMsg, spc, lastWritten>>
    BY <1>3 DEF Malloc, serverVars
  <2>2. CASE cpc' = "send" /\ cMsg' = nReports' /\ allocated' = allocated \cup {cMsg'}
    <3>1. InLine'
      BY <1>1, <2>1, <2>2 DEF InLine, Busy, Reports
    <3>2. QED BY <2>1, <2>2, <3>1 DEF CounterMoves
  <2>3. CASE cpc' = "record" /\ UNCHANGED <<cMsg, allocated>>
    <3>1. InLine'
      BY <1>1, <2>1, <2>3 DEF InLine, Busy, Reports
    <3>2. QED BY <2>1, <2>3, <3>1 DEF CounterMoves
  <2>4. QED BY <1>3, <2>2, <2>3 DEF Malloc
<1>4. CASE Send
  <2>1. /\ cpc = "send" /\ cpc' = "record" /\ cMsg \in Nat /\ cMsg \in Reports
        /\ UNCHANGED <<nReports, queue, sMsg, spc, lastWritten>>
    BY <1>4, <1>1, DeliveryAssumption DEF Send, serverVars, CounterAtStep, Reports
  <2>2. CASE xMessageQ' = Append(xMessageQ, cMsg) /\ UNCHANGED allocated
    <3>1. /\ Len(xMessageQ') = Len(xMessageQ) + 1
          /\ \A i \in 1..Len(xMessageQ) : xMessageQ'[i] = xMessageQ[i]
          /\ xMessageQ'[Len(xMessageQ) + 1] = cMsg
      BY <1>1, <2>1, <2>2, AppendProperties
    <3> DEFINE n == Len(xMessageQ)
    <3>2. \A i \in 1..Len(xMessageQ') : i \in 1..n \/ i = n + 1
      BY <1>1, <3>1
    <3>3. InLine'
      <4>1. \A i, j \in 1..Len(xMessageQ') : i < j => xMessageQ'[i] < xMessageQ'[j]
        <5>1. SUFFICES ASSUME NEW i \in 1..(n + 1), NEW j \in 1..(n + 1), i < j
                       PROVE xMessageQ'[i] < xMessageQ'[j]
          BY <3>1
        <5>2. i \in 1..n
          BY <1>1, <5>1
        <5>3. CASE j \in 1..n
          BY <1>1, <3>1, <5>1, <5>2, <5>3 DEF InLine
        <5>4. CASE j = n + 1
          BY <1>1, <2>1, <3>1, <5>2, <5>4 DEF InLine
        <5>5. QED BY <1>1, <5>1, <5>3, <5>4
      <4>2. \A i \in 1..Len(xMessageQ') :
              /\ lastWritten < xMessageQ'[i] /\ xMessageQ'[i] <= nReports
              /\ Busy => sMsg < xMessageQ'[i]
        <5>1. SUFFICES ASSUME NEW i \in 1..Len(xMessageQ')
                       PROVE  /\ lastWritten < xMessageQ'[i] /\ xMessageQ'[i] <= nReports
                              /\ Busy => sMsg < xMessageQ'[i]
          OBVIOUS
        <5>2. CASE i \in 1..n
          BY <1>1, <3>1, <5>2 DEF InLine
        <5>3. CASE i = n + 1
          BY <1>1, <2>1, <3>1, <5>3 DEF InLine
        <5>4. QED BY <3>2, <5>2, <5>3
      <4>3. QED BY <1>1, <2>1, <4>1, <4>2 DEF InLine, Busy
    <3>4. Queued' = Queued \cup {cMsg}
      <4>1. ASSUME NEW x \in Queued' PROVE x \in Queued \cup {cMsg}
        BY <3>1, <3>2, <4>1 DEF Queued
      <4>2. Queued \subseteq Queued'
        <5>1. \A i \in 1..n : i \in 1..Len(xMessageQ') /\ xMessageQ'[i] = xMessageQ[i]
          BY <1>1, <3>1
        <5>2. QED BY <5>1 DEF Queued
      <4>3. cMsg \in Queued'
        <5>1. n + 1 \in 1..Len(xMessageQ')
          BY <1>1, <3>1
        <5>2. QED BY <3>1, <5>1 DEF Queued
      <4>4. QED BY <4>1, <4>2, <4>3
    <3>5. QED BY <2>1, <2>2, <3>3, <3>4 DEF CounterMoves
  <2>3. CASE allocated' = allocated \ {cMsg} /\ UNCHANGED xMessageQ
    <3>1. InLine'
      BY <1>1, <2>1, <2>3 DEF InLine, Busy
    <3>2. QED BY <2>1, <2>3, <3>1 DEF CounterMoves
  <2>4. QED BY <1>4, <2>2, <2>3 DEF Send
<1>5. QED BY <1>2, <1>3, <1>4 DEF CounterStep

LEMMA ServerInLine ==
  ASSUME TypeOK, InLine, ServerStep
  PROVE  InLine' /\ ServerMoves
<1>1. /\ xMessageQ \in Seq(Reports) /\ Len(xMessageQ) \in Nat /\ nReports \in Nat /\ lastWritten \in Nat
      /\ \A i \in 1..Len(xMessageQ) : xMessageQ[i] \in Nat
  BY InLineTypes
<1>2. CASE StartNet \/ Loop \/ Sleep \/ Socket \/ Connected \/ ConnectFailed \/ Close
  <2>1. UNCHANGED <<cMsg, nReports, allocated, xMessageQ, queue, sMsg, lastWritten, cpc>>
        /\ ~Busy /\ ~Busy'
    BY <1>2 DEF StartNet, Loop, Sleep, Socket, Connected, ConnectFailed, Close, heapVars, counterVars,
         history, Busy
  <2>2. QED BY <2>1, InLineKept DEF Busy, ServerMoves
<1>3. CASE ReceiveTimeout
  <2>1. UNCHANGED <<cMsg, nReports, allocated, xMessageQ, queue, sMsg, lastWritten, cpc, spc>>
    BY <1>3 DEF ReceiveTimeout, vars, counterVars, heapVars, serverVars, history
  <2>2. QED BY <2>1, InLineKept DEF Busy, ServerMoves
<1>4. CASE Receive
  <2>1. /\ spc = "receive" /\ spc' = "write" /\ sMsg' = Head(xMessageQ) /\ xMessageQ # <<>>
        /\ xMessageQ' = Tail(xMessageQ)
        /\ UNCHANGED <<cpc, cMsg, nReports, allocated, queue, lastWritten>>
    BY <1>4 DEF Receive, counterVars, history
  <2>2. /\ Len(xMessageQ') = Len(xMessageQ) - 1 /\ Len(xMessageQ) >= 1
        /\ \A i \in 1..Len(xMessageQ') : xMessageQ'[i] = xMessageQ[i + 1]
        /\ sMsg' = xMessageQ[1] /\ 1 \in 1..Len(xMessageQ)
    BY <1>1, <2>1, HeadTailProperties, EmptySeq
  <2>3. \A i \in 1..Len(xMessageQ') : i + 1 \in 1..Len(xMessageQ) /\ 1 < i + 1
    BY <1>1, <2>2
  <2>4. InLine'
    <3>1. \A i, j \in 1..Len(xMessageQ') : i < j => xMessageQ'[i] < xMessageQ'[j]
      <4>1. \A i, j \in 1..Len(xMessageQ') : i < j => i + 1 < j + 1
        BY <1>1, <2>2
      <4>2. QED BY <1>1, <2>2, <2>3, <4>1 DEF InLine
    <3>2. \A i \in 1..Len(xMessageQ') :
            /\ lastWritten < xMessageQ'[i] /\ xMessageQ'[i] <= nReports /\ sMsg' < xMessageQ'[i]
            /\ cpc = "send" => xMessageQ'[i] < cMsg
      BY <1>1, <2>2, <2>3 DEF InLine
    <3>3. /\ sMsg' \in Reports /\ sMsg' <= nReports /\ lastWritten < sMsg'
          /\ cpc = "send" => sMsg' < cMsg
      BY <1>1, <2>2, ElementOfSeq DEF InLine
    <3>4. QED BY <1>1, <2>1, <3>1, <3>2, <3>3 DEF InLine, Busy
  <2>5. Queued' \cup {sMsg'} = Queued
    <3>1. Queued' \cup {sMsg'} \subseteq Queued
      BY <2>2, <2>3 DEF Queued
    <3>2. ASSUME NEW i \in 1..Len(xMessageQ) PROVE xMessageQ[i] \in Queued' \cup {sMsg'}
      <4>1. CASE i = 1
        BY <2>2, <4>1
      <4>2. CASE i # 1
        <5>1. i - 1 \in 1..Len(xMessageQ') /\ xMessageQ'[i - 1] = xMessageQ[i]
          BY <1>1, <2>2, <4>2
        <5>2. QED BY <5>1 DEF Queued
      <4>3. QED BY <4>1, <4>2
    <3>3. QED BY <3>1, <3>2 DEF Queued
  <2>6. QED BY <2>1, <2>4, <2>5 DEF ServerMoves, Busy
<1>5. CASE Write \/ WriteLost
  <2>1. /\ UNCHANGED <<cpc, cMsg, nReports, allocated, xMessageQ, queue, sMsg>>
        /\ spc = "write" /\ spc' \in {"sent", "failed"} /\ lastWritten' \in {lastWritten, sMsg}
    BY <1>5 DEF Write, WriteLost, counterVars, heapVars
  <2>2. InLine'
    BY <1>1, <2>1 DEF InLine, Busy, Reports
  <2>3. QED BY <2>1, <2>2 DEF ServerMoves, Busy
<1>6. CASE Free
  <2>1. /\ UNCHANGED <<cpc, cMsg, nReports, xMessageQ, queue, lastWritten>>
        /\ Busy /\ ~Busy' /\ spc' # "write" /\ allocated' = allocated \ {sMsg}
    BY <1>6 DEF Free, counterVars, history, Busy
  <2>2. InLine'
    BY <1>1, <2>1 DEF InLine
  <2>3. QED BY <2>1, <2>2 DEF ServerMoves
<1>7. QED BY <1>2, <1>3, <1>4, <1>5, <1>6 DEF ServerStep

LEMMA OwnerNext == OInv /\ [Next]_vars => OInv'
<1> SUFFICES ASSUME OInv, [Next]_vars PROVE OInv'
  OBVIOUS
<1>1. DInv'
  BY DeliveryNext DEF OInv
<1>2. TypeOK /\ CounterAtStep /\ InLine /\ allocated = Owned /\ queue = "live"
  BY DEF OInv, DInv
<1>3. /\ cpc = "send" => cMsg \notin Queued
      /\ Busy => sMsg \notin Queued /\ (cpc = "send" => sMsg # cMsg)
  BY <1>2, Apart
<1> SUFFICES InLine' /\ allocated' = Owned' /\ queue' = "live"
  BY <1>1 DEF OInv
<1>4. CASE (\E r \in Readings : Input(r)) \/ CounterStep
  <2>1. InLine' /\ CounterMoves
    BY <1>4, <1>2, CounterInLine
  <2>2. allocated' = Owned'
    BY <1>3, <1>2, <2>1 DEF CounterMoves, Owned, Hands, Queued, Busy
  <2>3. QED BY <1>2, <2>1, <2>2 DEF CounterMoves
<1>5. CASE ServerStep
  <2>1. InLine' /\ ServerMoves
    BY <1>5, <1>2, ServerInLine
  <2>2. CASE UNCHANGED <<allocated, xMessageQ, sMsg>> /\ (Busy' <=> Busy)
    BY <1>2, <2>1, <2>2 DEF ServerMoves, Owned, Hands, Queued
  <2>3. CASE ~Busy /\ Busy' /\ Queued = Queued' \cup {sMsg'} /\ UNCHANGED allocated
    BY <1>2, <2>1, <2>3 DEF ServerMoves, Owned, Hands
  <2>4. CASE Busy /\ ~Busy' /\ allocated' = allocated \ {sMsg} /\ UNCHANGED xMessageQ
    BY <1>3, <1>2, <2>1, <2>4 DEF ServerMoves, Owned, Hands, Queued
  <2>5. QED BY <2>1, <2>2, <2>3, <2>4 DEF ServerMoves
<1>6. CASE Tick \/ NetChange \/ UNCHANGED vars
  <2>1. UNCHANGED <<cMsg, nReports, allocated, xMessageQ, queue, sMsg, lastWritten, cpc, spc>>
    BY <1>6 DEF Tick, NetChange, vars, counterVars, heapVars, serverVars, history
  <2>2. InLine'
    BY <1>2, <2>1, InLineKept DEF Busy
  <2>3. QED BY <1>2, <2>1, <2>2 DEF Owned, Hands, Queued, Busy
<1>7. QED BY <1>4, <1>5, <1>6 DEF Next

LEMMA OwnerInv == Spec => []OInv
  BY OwnerInit, OwnerNext, PTL DEF Spec

\* A block of the heap is with the sender, once in the queue or with the client, and is
\* allocated: none is freed twice or forgotten (serverif.c:84-98, 207, 228, 241).
THEOREM EveryBlockHasOneOwner == Spec => []OneOwner
<1>1. OInv => OneOwner
  <2> SUFFICES ASSUME OInv PROVE OneOwner
    OBVIOUS
  <2>1. Held = Owned
    BY HeldIsOwned DEF OInv, DInv
  <2>2. Cardinality(Owned) = Len(xMessageQ) + (IF cpc = "send" THEN 1 ELSE 0) + (IF Busy THEN 1 ELSE 0)
    BY OwnedCounted DEF OInv, DInv
  <2>3. QED BY <2>1, <2>2 DEF OneOwner, OInv, Busy
<1>2. QED BY <1>1, OwnerInv, PTL

(***************************************************************************)
(* The refinement: what is with the client, before it is written, and then *)
(* the queue are the reports pending in the channel.                       *)
(***************************************************************************)
Pending == (IF spc = "write" THEN <<sMsg>> ELSE <<>>) \o xMessageQ
Room == IF QueueLength < HeapBlocks THEN QueueLength ELSE HeapBlocks - 1

LEMMA PendingIs ==
  ASSUME xMessageQ \in Seq(Reports), spc = "write" => sMsg \in Reports
  PROVE  /\ spc # "write" => Pending = xMessageQ
         /\ spc = "write" =>
              /\ Pending # <<>> /\ Head(Pending) = sMsg /\ Tail(Pending) = xMessageQ
              /\ Len(Pending) = Len(xMessageQ) + 1
              /\ \A i \in 1..Len(Pending) : Pending[i] = sMsg \/ \E j \in 1..Len(xMessageQ) : Pending[i] = xMessageQ[j]
         /\ Pending \in Seq(Reports)
<1>1. CASE spc # "write"
  <2>1. Pending = xMessageQ
    BY <1>1 DEF Pending
  <2>2. QED BY <1>1, <2>1
<1>2. CASE spc = "write"
  <2>1. Pending = <<sMsg>> \o xMessageQ /\ sMsg \in Reports
    BY <1>2 DEF Pending
  <2> DEFINE p == <<sMsg>> \o xMessageQ
  <2>2. <<sMsg>> \in Seq(Reports) /\ Len(<<sMsg>>) = 1 /\ <<sMsg>>[1] = sMsg
    BY <2>1
  <2>3. /\ p \in Seq(Reports) /\ Len(p) = 1 + Len(xMessageQ) /\ Len(xMessageQ) \in Nat
        /\ \A i \in 1..Len(p) : p[i] = IF i <= 1 THEN <<sMsg>>[i] ELSE xMessageQ[i - 1]
    BY <2>2, ConcatProperties, LenProperties
  <2>4. \A i \in 1..Len(p) : p[i] = sMsg \/ \E j \in 1..Len(xMessageQ) : p[i] = xMessageQ[j]
    <3> SUFFICES ASSUME NEW i \in 1..Len(p)
                 PROVE  p[i] = sMsg \/ \E j \in 1..Len(xMessageQ) : p[i] = xMessageQ[j]
      OBVIOUS
    <3>1. CASE i = 1
      BY <2>2, <2>3, <3>1
    <3>2. CASE i # 1
      <4>1. i - 1 \in 1..Len(xMessageQ) /\ p[i] = xMessageQ[i - 1]
        BY <2>3, <3>2
      <4>2. QED BY <4>1
    <3>3. QED BY <3>1, <3>2
  <2>5. p # <<>> /\ Head(p) = sMsg
    BY <2>2, <2>3, EmptySeq, HeadTailProperties
  <2>6. Tail(p) = xMessageQ
    <3>1. /\ Tail(p) \in Seq(Reports) /\ Len(Tail(p)) = Len(xMessageQ)
          /\ \A i \in 1..Len(Tail(p)) : Tail(p)[i] = p[i + 1]
      BY <2>3, <2>5, HeadTailProperties
    <3>2. \A i \in 1..Len(xMessageQ) : Tail(p)[i] = xMessageQ[i]
      BY <2>3, <3>1
    <3>3. QED BY <3>1, <3>2, SeqEqual
  <2>7. QED BY <1>2, <2>1, <2>3, <2>4, <2>5, <2>6
<1>3. QED BY <1>1, <1>2

LEMMA HeadThenTail ==
  ASSUME NEW S, NEW s \in Seq(S), s # <<>>
  PROVE  <<Head(s)>> \o Tail(s) = s
<1>1. /\ Head(s) \in S /\ Tail(s) \in Seq(S) /\ Len(s) \in Nat /\ Len(s) >= 1
      /\ Len(Tail(s)) = Len(s) - 1 /\ Head(s) = s[1]
      /\ \A i \in 1..Len(Tail(s)) : Tail(s)[i] = s[i + 1]
  BY HeadTailProperties, EmptySeq, LenProperties
<1> DEFINE t == Tail(s)
           p == <<Head(s)>> \o t
<1>2. <<Head(s)>> \in Seq(S) /\ Len(<<Head(s)>>) = 1 /\ <<Head(s)>>[1] = s[1] /\ t \in Seq(S)
  BY <1>1
<1>3. /\ p \in Seq(S) /\ Len(p) = 1 + Len(t)
      /\ \A i \in 1..(1 + Len(t)) : p[i] = IF i <= 1 THEN <<Head(s)>>[i] ELSE t[i - 1]
  <2> HIDE DEF t
  <2>1. QED BY <1>2, ConcatProperties
<1> HIDE DEF p
<1>4. ASSUME NEW i \in 1..Len(p) PROVE p[i] = s[i]
  <2>1. i \in 1..(1 + Len(t))
    BY <1>3
  <2>2. CASE i = 1
    BY <1>1, <1>2, <1>3, <2>1, <2>2
  <2>3. CASE i # 1
    <3>1. i - 1 \in 1..Len(t) /\ ~(i <= 1) /\ (i - 1) + 1 = i
      BY <1>1, <2>1, <2>3
    <3>2. p[i] = t[i - 1]
      BY <1>3, <2>1, <3>1
    <3>3. t[i - 1] = s[(i - 1) + 1]
      BY <1>1, <3>1
    <3>4. QED BY <3>1, <3>2, <3>3
  <2>4. QED BY <2>2, <2>3
<1>5. Len(p) = Len(s)
  BY <1>1, <1>3
<1>6. p = s
  BY <1>3, <1>4, <1>5, SeqEqual
<1>7. QED BY <1>6 DEF p

LEMMA ChannelStep == OInv /\ OInv' /\ [Next]_vars => [Channel!Next]_(Channel!vars)
<1> SUFFICES ASSUME OInv, OInv', [Next]_vars PROVE [Channel!Next]_(Channel!vars)
  OBVIOUS
<1>1. /\ xMessageQ \in Seq(Reports) /\ Len(xMessageQ) \in Nat
      /\ spc = "write" => sMsg \in Reports
      /\ InLine /\ allocated = Owned /\ TypeOK /\ CounterAtStep
      /\ xMessageQ' \in Seq(Reports) /\ (spc' = "write" => sMsg' \in Reports)
  BY LenProperties DEF OInv, DInv, TypeOK, InLine, Busy
<1>2. /\ spc # "write" => Pending = xMessageQ
      /\ spc = "write" =>
           /\ Pending # <<>> /\ Head(Pending) = sMsg /\ Tail(Pending) = xMessageQ
           /\ Len(Pending) = Len(xMessageQ) + 1
           /\ \A i \in 1..Len(Pending) : Pending[i] = sMsg \/ \E j \in 1..Len(xMessageQ) : Pending[i] = xMessageQ[j]
      /\ Pending \in Seq(Reports)
  BY <1>1, PendingIs
<1>3. Len(Pending) \in Nat /\ DOMAIN Pending = 1..Len(Pending)
  BY <1>2, LenProperties
<1>4. spc' # "write" => Pending' = xMessageQ'
  BY DEF Pending, OInv, DInv, TypeOK
<1>5. QueueLength \in Nat /\ HeapBlocks \in Nat \ {0} /\ Room \in Nat /\ Room <= QueueLength /\ Room <= HeapBlocks - 1
  BY DeliveryAssumption DEF Room
<1> SUFFICES \/ \E report \in Reports :
                  /\ report > lastWritten
                  /\ \A i \in DOMAIN Pending : report > Pending[i]
                  /\ Pending' = Append(Pending, report)
                  /\ UNCHANGED <<lastWritten, nDropped>>
             \/ Len(Pending) >= Room /\ nDropped' = nDropped + 1 /\ UNCHANGED <<Pending, lastWritten>>
             \/ Pending # <<>> /\ lastWritten' = Head(Pending) /\ Pending' = Tail(Pending) /\ UNCHANGED nDropped
             \/ Pending # <<>> /\ Pending' = Tail(Pending) /\ UNCHANGED <<lastWritten, nDropped>>
             \/ UNCHANGED <<Pending, lastWritten, nDropped>>
  BY DEF Channel!Next, Channel!Accept, Channel!Refuse, Channel!Deliver, Channel!Lose, Channel!vars, Pending, Room, Reports
<1>6. ASSUME UNCHANGED <<spc, sMsg, xMessageQ, lastWritten, nDropped>>
      PROVE  UNCHANGED <<Pending, lastWritten, nDropped>>
  BY <1>6 DEF Pending
<1>7. CASE (\E r \in Readings : Input(r)) \/ Tick \/ Compare \/ Record \/ NetChange \/ ReceiveTimeout \/ UNCHANGED vars
  <2>1. UNCHANGED <<spc, sMsg, xMessageQ, lastWritten, nDropped>>
    BY <1>7 DEF Input, Tick, Compare, Record, NetChange, ReceiveTimeout, vars, counterVars, heapVars, serverVars, history
  <2>2. QED BY <1>6, <2>1
<1>8. CASE Malloc
  <2>1. /\ cpc = "malloc" /\ UNCHANGED <<spc, sMsg, xMessageQ, lastWritten>>
        /\ \/ nDropped' = nDropped
           \/ nDropped' = nDropped + 1 /\ ~(Cardinality(allocated) < HeapBlocks)
    BY <1>8 DEF Malloc, serverVars
  <2>2. CASE nDropped' = nDropped
    BY <1>6, <2>1, <2>2
  <2>3. CASE nDropped' = nDropped + 1 /\ ~(Cardinality(allocated) < HeapBlocks)
    <3>1. Cardinality(allocated) = Len(xMessageQ) + (IF Busy THEN 1 ELSE 0)
      <4>1. Cardinality(Owned) = Len(xMessageQ) + (IF cpc = "send" THEN 1 ELSE 0) + (IF Busy THEN 1 ELSE 0)
        BY <1>1, OwnedCounted
      <4>2. cpc # "send"
        BY <2>1
      <4>3. QED BY <1>1, <4>1, <4>2
    <3>2. Len(xMessageQ) + 1 >= HeapBlocks
      <4>1. CASE Busy
        BY <1>5, <1>1, <2>3, <3>1, <4>1
      <4>2. CASE ~Busy
        BY <1>5, <1>1, <2>3, <3>1, <4>2
      <4>3. QED BY <4>1, <4>2
    <3>3. Len(Pending) >= Len(xMessageQ)
      BY <1>2, <1>1
    <3>4. Len(Pending) >= Room
      BY <1>5, <1>3, <1>1, <3>2, <3>3
    <3>5. UNCHANGED Pending
      BY <2>1 DEF Pending
    <3>6. QED BY <2>1, <2>3, <3>4, <3>5
  <2>4. QED BY <2>1, <2>2, <2>3
<1>9. CASE Send
  <2>1. /\ cpc = "send" /\ UNCHANGED <<spc, sMsg, lastWritten>>
        /\ \/ Len(xMessageQ) < QueueLength /\ xMessageQ' = Append(xMessageQ, cMsg) /\ UNCHANGED nDropped
           \/ Len(xMessageQ) >= QueueLength /\ nDropped' = nDropped + 1 /\ UNCHANGED xMessageQ
    BY <1>9, <1>5, <1>1 DEF Send, serverVars
  <2>2. CASE xMessageQ' = Append(xMessageQ, cMsg) /\ UNCHANGED nDropped
    <3>1. cMsg \in Reports /\ cMsg \in Nat /\ lastWritten < cMsg
      BY <1>1, <2>1 DEF CounterAtStep, InLine, Reports
    <3>2. ASSUME NEW i \in 1..Len(Pending) PROVE Pending[i] < cMsg
      <4>1. CASE spc = "write"
        <5>1. sMsg < cMsg
          BY <1>1, <2>1, <4>1 DEF InLine, Busy
        <5>2. Pending[i] = sMsg \/ \E j \in 1..Len(xMessageQ) : Pending[i] = xMessageQ[j]
          BY <1>2, <4>1
        <5>3. QED BY <1>1, <2>1, <5>1, <5>2 DEF InLine
      <4>2. CASE spc # "write"
        BY <1>2, <1>1, <2>1, <4>2 DEF InLine
      <4>3. QED BY <4>1, <4>2
    <3>3. \A i \in DOMAIN Pending : cMsg > Pending[i]
      <4>1. \A i \in 1..Len(Pending) : Pending[i] \in Nat
        <5>1. \A i \in 1..Len(Pending) : Pending[i] \in Reports
          BY <1>2, ElementOfSeq
        <5>2. QED BY <5>1 DEF Reports
      <4>2. QED BY <1>3, <3>1, <3>2, <4>1
    <3>4. Pending' = Append(Pending, cMsg)
      <4>1. CASE spc = "write"
        <5>1. Pending' = <<sMsg>> \o Append(xMessageQ, cMsg) /\ Pending = <<sMsg>> \o xMessageQ
          BY <2>1, <2>2, <4>1 DEF Pending
        <5>2. <<sMsg>> \in Seq(Reports) /\ <<cMsg>> \in Seq(Reports)
          BY <1>1, <3>1, <4>1
        <5>3. Append(xMessageQ, cMsg) = xMessageQ \o <<cMsg>>
          BY <1>1, <3>1, AppendIsConcat
        <5>4. <<sMsg>> \o (xMessageQ \o <<cMsg>>) = (<<sMsg>> \o xMessageQ) \o <<cMsg>>
          BY <1>1, <5>2, ConcatAssociative
        <5>5. Append(Pending, cMsg) = Pending \o <<cMsg>>
          BY <1>2, <3>1, AppendIsConcat
        <5>6. QED BY <5>1, <5>3, <5>4, <5>5
      <4>2. CASE spc # "write"
        BY <1>2, <1>4, <2>1, <2>2, <4>2
      <4>3. QED BY <4>1, <4>2
    <3>5. QED BY <2>1, <2>2, <3>1, <3>3, <3>4
  <2>3. CASE Len(xMessageQ) >= QueueLength /\ nDropped' = nDropped + 1 /\ UNCHANGED xMessageQ
    <3>1. Len(Pending) >= Len(xMessageQ)
      BY <1>2, <1>1
    <3>2. Len(Pending) >= Room
      BY <1>5, <1>3, <1>1, <2>3, <3>1
    <3>3. UNCHANGED Pending
      BY <2>1, <2>3 DEF Pending
    <3>4. QED BY <2>1, <2>3, <3>2, <3>3
  <2>4. QED BY <2>1, <2>2, <2>3
<1>10. CASE StartNet \/ Loop \/ Sleep \/ Socket \/ Connected \/ ConnectFailed \/ Close \/ Free
  <2>1. /\ UNCHANGED <<xMessageQ, lastWritten, nDropped>>
        /\ spc # "write" /\ spc' # "write"
    BY <1>10 DEF StartNet, Loop, Sleep, Socket, Connected, ConnectFailed, Close, Free, heapVars, history
  <2>2. QED BY <1>2, <1>4, <2>1
<1>11. CASE Receive
  <2>1. /\ spc = "receive" /\ spc' = "write" /\ sMsg' = Head(xMessageQ) /\ xMessageQ # <<>>
        /\ xMessageQ' = Tail(xMessageQ) /\ UNCHANGED <<lastWritten, nDropped>>
    BY <1>11 DEF Receive, history
  <2>2. Pending = xMessageQ
    BY <1>2, <2>1
  <2>3. Pending' = <<Head(xMessageQ)>> \o Tail(xMessageQ)
    BY <2>1 DEF Pending
  <2>4. <<Head(xMessageQ)>> \o Tail(xMessageQ) = xMessageQ
    BY <1>1, <2>1, HeadThenTail
  <2>5. QED BY <2>1, <2>2, <2>3, <2>4
<1>12. CASE Write \/ WriteLost
  <2>1. /\ spc = "write" /\ spc' # "write" /\ UNCHANGED <<xMessageQ, nDropped>>
        /\ lastWritten' \in {lastWritten, sMsg}
    BY <1>12 DEF Write, WriteLost, heapVars
  <2>2. Pending # <<>> /\ Head(Pending) = sMsg /\ Pending' = Tail(Pending)
    BY <1>2, <1>4, <2>1
  <2>3. QED BY <2>1, <2>2
<1>13. QED
  BY <1>7, <1>8, <1>9, <1>10, <1>11, <1>12 DEF Next, CounterStep, ServerStep

\* Delivery implements the report channel: the reports reach the server in the order they
\* were made, each at most once, and none is refused while there is room (serverif.c:84-98, 207).
THEOREM ReportsInOrder == Spec => ImplementsReportChannel
<1>1. Init => Channel!Init
  <2> SUFFICES ASSUME Init PROVE Channel!Init
    OBVIOUS
  <2>1. Pending = <<>>
    BY DEF Init, Pending
  <2>2. QED BY <2>1 DEF Init, Channel!Init, Pending
<1>2. OInv /\ OInv' /\ [Next]_vars => [Channel!Next]_(Channel!vars)
  BY ChannelStep
<1>3. QED BY <1>1, <1>2, OwnerInv, PTL DEF Spec, ImplementsReportChannel, Channel!Spec

-----------------------------------------------------------------------------
(***************************************************************************)
(* Shutdown.tla: in whatever state the command 'f' finds the tasks, the     *)
(* reports stay in line, from the one written last to the one made last,    *)
(* and a block changes hands one step at a time.  A task that is terminated *)
(* keeps what it holds for ever; the reports it and the queue held no       *)
(* longer add up to those made, so their sum has a part k that nothing      *)
(* refers to.                                                               *)
(***************************************************************************)

\* What the command has done when it has come to a step.  After the queue and
\* the port have gone, only the ends of those two steps still find the counter alive.
Control ==
  /\ shpc \in {"idle", "terminate server", "drain", "delete queue", "zero queue", "close port",
               "zero port", "terminate counter", "close console", "image", "reset"}
  /\ serverAlive \in BOOLEAN /\ counterAlive \in BOOLEAN
  /\ port \in {"open", "closed", "null"}
  /\ HaltsOnlyBeforeCounterEnds
  /\ counterAlive /\ queue = "null" => shpc \in {"close port", "zero port", "terminate counter"}
  /\ counterAlive /\ port # "open" => shpc \in {"zero port", "terminate counter"}

Reports0 == \E k \in Nat : DInvWith(k)

SInv == Reports0 /\ InLine /\ LiveHeld \subseteq allocated /\ Control

LEMMA StepsAre ==
  Range(Steps) = {"idle", "terminate server", "drain", "delete queue", "zero queue", "close port",
                  "zero port", "terminate counter", "close console", "image", "reset"}
<1>1. /\ Steps[1] = "idle" /\ Steps[2] = "terminate server" /\ Steps[3] = "drain"
      /\ Steps[4] = "delete queue" /\ Steps[5] = "zero queue" /\ Steps[6] = "close port"
      /\ Steps[7] = "zero port" /\ Steps[8] = "terminate counter" /\ Steps[9] = "close console"
      /\ Steps[10] = "image" /\ Steps[11] = "reset" /\ DOMAIN Steps = 1..11
  BY DEF Steps
<1> HIDE DEF Steps
<1>2. 1..11 = {1, 2, 3, 4, 5, 6, 7, 8, 9, 10, 11}
  OBVIOUS
<1>3. Range(Steps) = {Steps[i] : i \in {1, 2, 3, 4, 5, 6, 7, 8, 9, 10, 11}}
  BY <1>1, <1>2, Zenon DEF Range
<1>4. \A x : x \in Range(Steps) <=>
             x \in {Steps[1], Steps[2], Steps[3], Steps[4], Steps[5], Steps[6], Steps[7], Steps[8],
                   Steps[9], Steps[10], Steps[11]}
  BY <1>3, Zenon
<1>5. Range(Steps) = {Steps[1], Steps[2], Steps[3], Steps[4], Steps[5], Steps[6], Steps[7], Steps[8],
                      Steps[9], Steps[10], Steps[11]}
  BY <1>4, Zenon
<1>6. QED BY <1>1, <1>5, Zenon

LEMMA LiveHeldIs ==
  ASSUME TypeOK
  PROVE  LiveHeld = Hands(counterAlive /\ cpc = "send", serverAlive /\ Busy)
<1>1. DOMAIN xMessageQ = 1..Len(xMessageQ)
  BY LenProperties DEF TypeOK
<1>2. QED BY <1>1 DEF LiveHeld, Hands, Queued, Busy

LEMMA ShutdownStarts == ShutdownInit => SInv
<1> SUFFICES ASSUME ShutdownInit PROVE SInv
  OBVIOUS
<1>1. Len(xMessageQ) = 0 /\ xMessageQ = <<>>
  BY EmptySeq DEF ShutdownInit, Init
<1>2. DInvWith(0)
  <2>1. xMessageQ \in Seq(Reports) /\ Len(xMessageQ) <= QueueLength
    BY <1>1, EmptySeq, DeliveryAssumption
  <2>2. /\ nReports \in 0..MaxReports /\ nDropped \in 0..MaxReports /\ nWritten \in 0..MaxReports
        /\ nLost \in 0..MaxReports /\ lastWritten \in 0..MaxReports
        /\ nLeaked \in 0..NumSockets /\ nChanges \in 0..MaxChanges
    BY DeliveryAssumption DEF ShutdownInit, Init
  <2>3. TypeOK
    BY <2>1, <2>2 DEF ShutdownInit, Init, TypeOK, NoMsg
  <2>4. CounterAtStep /\ Conserved(0)
    BY <1>1 DEF ShutdownInit, Init, CounterAtStep, Conserved
  <2>5. SocketsAccounted
    BY DeliveryAssumption DEF ShutdownInit, Init, SocketsAccounted, Online
  <2>6. QED BY <2>3, <2>4, <2>5 DEF DInvWith
<1>3. InLine
  BY <1>1 DEF ShutdownInit, Init, InLine, Busy
<1>4. LiveHeld \subseteq allocated
  <2>1. LiveHeld = {}
    BY <1>1, <1>2, LiveHeldIs DEF DInvWith, ShutdownInit, Init, Hands, Queued, Busy
  <2>2. QED BY <2>1
<1>5. Control
  BY DEF ShutdownInit, Init, Control, HaltsOnlyBeforeCounterEnds
<1>6. QED BY <1>2, <1>3, <1>4, <1>5 DEF SInv, Reports0

-----------------------------------------------------------------------------
(***************************************************************************)
(* The steps of the tasks and of the world are steps of Delivery.tla.      *)
(***************************************************************************)

LEMMA DeliveryStep ==
  ASSUME Reports0, Next PROVE Reports0'
<1>1. PICK k \in Nat : DInvWith(k)
  BY DEF Reports0
<1>2. DInvWith(k)'
  BY <1>1, DeliveryNextWith
<1>3. QED BY <1>2 DEF Reports0

LEMMA CounterKeeps ==
  ASSUME SInv, counterAlive, (\E r \in Readings : Input(r)) \/ CounterStep, UNCHANGED <<shpc, tasks, port>>
  PROVE  SInv'
<1>1. Reports0'
  <2>1. Next
    BY DEF Next
  <2>2. QED BY <2>1, DeliveryStep DEF SInv
<1>2. TypeOK /\ CounterAtStep /\ InLine /\ TypeOK'
  BY <1>1 DEF SInv, Reports0, DInvWith
<1>3. InLine' /\ CounterMoves
  BY <1>2, CounterInLine
<1>4. LiveHeld' \subseteq allocated'
  <2>1. /\ LiveHeld = Hands(cpc = "send", serverAlive /\ Busy)
        /\ LiveHeld' = Hands(cpc = "send", serverAlive /\ Busy)'
    <3>1. TypeOK' /\ counterAlive /\ counterAlive'
      BY <1>2 DEF tasks
    <3>2. DOMAIN xMessageQ = 1..Len(xMessageQ) /\ DOMAIN xMessageQ' = 1..Len(xMessageQ')
      BY <1>2, <3>1, LenProperties DEF TypeOK
    <3>3. QED BY <3>1, <3>2, Zenon DEF LiveHeld, Hands, Queued, Busy
  <2>2. /\ cpc = "send" => cMsg \notin Queued
        /\ Busy => sMsg \notin Queued /\ (cpc = "send" => sMsg # cMsg)
    BY <1>2, Apart
  <2>3. LiveHeld \subseteq allocated
    BY DEF SInv
  <2>4. (Busy' <=> Busy) /\ serverAlive' = serverAlive /\ sMsg' = sMsg
    BY <1>3 DEF CounterMoves, Busy, tasks
  <2>5. CASE UNCHANGED <<allocated, xMessageQ, cMsg>> /\ (cpc' = "send" <=> cpc = "send")
    BY <2>1, <2>3, <2>4, <2>5 DEF Hands, Queued
  <2>6. CASE cpc # "send" /\ cpc' = "send" /\ allocated' = allocated \cup {cMsg'} /\ UNCHANGED xMessageQ
    BY <2>1, <2>3, <2>4, <2>6 DEF Hands, Queued
  <2>7. CASE cpc = "send" /\ cpc' # "send" /\ Queued' = Queued \cup {cMsg} /\ UNCHANGED allocated
    BY <2>1, <2>3, <2>4, <2>7 DEF Hands
  <2>8. CASE cpc = "send" /\ cpc' # "send" /\ allocated' = allocated \ {cMsg} /\ UNCHANGED xMessageQ
    BY <2>1, <2>2, <2>3, <2>4, <2>8 DEF Hands, Queued
  <2>9. QED BY <1>3, <2>5, <2>6, <2>7, <2>8 DEF CounterMoves
<1>5. Control'
  <2>1. UNCHANGED <<shpc, serverAlive, counterAlive, port, queue, halted>>
    BY <1>3 DEF CounterMoves, tasks, Input, CounterStep, Compare, Malloc, Send, Record, heapVars
  <2>2. QED BY <2>1 DEF SInv, Control, HaltsOnlyBeforeCounterEnds
<1>6. QED BY <1>1, <1>3, <1>4, <1>5 DEF SInv

LEMMA ServerKeeps ==
  ASSUME SInv, serverAlive, ServerStep, UNCHANGED <<shpc, tasks, port>>
  PROVE  SInv'
<1>1. Reports0'
  <2>1. Next
    BY DEF Next
  <2>2. QED BY <2>1, DeliveryStep DEF SInv
<1>2. TypeOK /\ InLine /\ TypeOK'
  BY <1>1 DEF SInv, Reports0, DInvWith
<1>3. InLine' /\ ServerMoves
  BY <1>2, ServerInLine
<1>4. LiveHeld' \subseteq allocated'
  <2>1. /\ LiveHeld = Hands(counterAlive /\ cpc = "send", Busy)
        /\ LiveHeld' = Hands(counterAlive /\ cpc = "send", Busy)'
    <3>1. TypeOK' /\ serverAlive /\ serverAlive'
      BY <1>2 DEF tasks
    <3>2. DOMAIN xMessageQ = 1..Len(xMessageQ) /\ DOMAIN xMessageQ' = 1..Len(xMessageQ')
      BY <1>2, <3>1, LenProperties DEF TypeOK
    <3>3. QED BY <3>1, <3>2, Zenon DEF LiveHeld, Hands, Queued, Busy
  <2>2. Busy => sMsg \notin Queued /\ (cpc = "send" => sMsg # cMsg)
    BY <1>2, Apart
  <2>3. LiveHeld \subseteq allocated
    BY DEF SInv
  <2>4. UNCHANGED <<cpc, cMsg, counterAlive>>
    BY <1>3 DEF ServerMoves, tasks
  <2>5. CASE UNCHANGED <<allocated, xMessageQ, sMsg>> /\ (Busy' <=> Busy)
    BY <2>1, <2>3, <2>4, <2>5 DEF Hands, Queued
  <2>6. CASE ~Busy /\ Busy' /\ Queued = Queued' \cup {sMsg'} /\ UNCHANGED allocated
    BY <2>1, <2>3, <2>4, <2>6 DEF Hands
  <2>7. CASE Busy /\ ~Busy' /\ allocated' = allocated \ {sMsg} /\ UNCHANGED xMessageQ
    BY <2>1, <2>2, <2>3, <2>4, <2>7 DEF Hands, Queued
  <2>8. QED BY <1>3, <2>5, <2>6, <2>7 DEF ServerMoves
<1>5. Control'
  <2>1. UNCHANGED <<shpc, serverAlive, counterAlive, port, queue, halted>>
    BY <1>3 DEF ServerMoves, tasks, ServerStep, StartNet, Loop, Sleep, Socket, Connected, ConnectFailed,
       Receive, ReceiveTimeout, Write, WriteLost, Free, Close, heapVars, vars
  <2>2. QED BY <2>1 DEF SInv, Control, HaltsOnlyBeforeCounterEnds
<1>6. QED BY <1>1, <1>3, <1>4, <1>5 DEF SInv

\* A step that touches no report and neither the command nor what it stops.
LEMMA OthersKeep ==
  ASSUME SInv, Tick \/ NetChange \/ UNCHANGED vars, UNCHANGED <<shpc, tasks, port>>
  PROVE  SInv'
<1>1. Reports0'
  <2>1. PICK k \in Nat : DInvWith(k)
    BY DEF SInv, Reports0
  <2>2. DInvWith(k)'
    BY <2>1, DeliveryNextWith DEF Next
  <2>3. QED BY <2>2 DEF Reports0
<1>2. UNCHANGED <<cMsg, nReports, allocated, xMessageQ, queue, sMsg, lastWritten, cpc, spc, halted, shpc,
                  serverAlive, counterAlive, port>>
  BY DEF Tick, NetChange, vars, counterVars, heapVars, serverVars, history, tasks
<1>3. InLine'
  BY <1>2, InLineKept DEF Busy, SInv
<1>4. LiveHeld' \subseteq allocated'
  BY <1>2 DEF LiveHeld, SInv
<1>5. Control'
  BY <1>2 DEF SInv, Control, HaltsOnlyBeforeCounterEnds
<1>6. QED BY <1>1, <1>3, <1>4, <1>5 DEF SInv

\* A send to the freed queue: the message is refused, and freed or not.
LEMMA SendToFreedKeeps ==
  ASSUME SInv, counterAlive, SendToFreed, UNCHANGED <<shpc, tasks, port>>
  PROVE  SInv'
<1>1. PICK k \in Nat : DInvWith(k)
  BY DEF SInv, Reports0
<1>2. /\ cpc = "send" /\ cpc' = "record" /\ cMsg' = NoMsg /\ nDropped' = nDropped + 1
      /\ allocated' \in {allocated, allocated \ {cMsg}}
      /\ UNCHANGED <<pBuffer, pPrevBuffer, newSecond, nReports, xMessageQ, queue, halted, spc, sMsg, nLeaked,
                     linkUp, up, dhcp, net, nChanges, conn, nWritten, nLost, lastWritten,
                     shpc, serverAlive, counterAlive, port>>
  BY DEF SendToFreed, serverVars, ifVars, worldVars, tasks
<1>3. /\ Len(xMessageQ) \in Nat /\ nReports \in 0..MaxReports /\ nDropped \in Nat /\ nWritten \in Nat /\ nLost \in Nat
      /\ TypeOK /\ InLine
  BY <1>1, LenProperties, DeliveryAssumption DEF DInvWith, TypeOK, SInv
<1>4. DInvWith(k)'
  <2>1. Conserved(k)'
    BY <1>1, <1>2, <1>3 DEF DInvWith, Conserved
  <2>2. nDropped' \in 0..MaxReports
    <3> DEFINE sending == IF cpc' = "send" THEN 1 ELSE 0
               writing == IF spc' = "write" THEN 1 ELSE 0
    <3>1. /\ nReports' \in 0..MaxReports /\ Len(xMessageQ') \in Nat
          /\ nDropped' \in Nat /\ nWritten' \in Nat /\ nLost' \in Nat
      BY <1>2, <1>3
    <3>2. sending \in {0, 1} /\ writing \in {0, 1}
      OBVIOUS
    <3>3. nReports' = nDropped' + nWritten' + nLost' + k + Len(xMessageQ') + sending + writing
      BY <2>1 DEF Conserved
    <3> HIDE DEF sending, writing
    <3>4. QED BY <3>1, <3>2, <3>3, CountersBounded
  <2>3. TypeOK'
    BY <1>2, <1>3, <2>2 DEF TypeOK, NoMsg
  <2>4. CounterAtStep' /\ SocketsAccounted'
    BY <1>1, <1>2 DEF DInvWith, CounterAtStep, SocketsAccounted
  <2>5. QED BY <2>1, <2>3, <2>4 DEF DInvWith
<1>5. InLine'
  BY <1>2, <1>3 DEF InLine, Busy
<1>6. LiveHeld' \subseteq allocated'
  <2>1. /\ LiveHeld = Hands(cpc = "send", serverAlive /\ Busy)
        /\ LiveHeld' = Hands(cpc = "send", serverAlive /\ Busy)'
    <3>1. TypeOK' /\ counterAlive /\ counterAlive'
      BY <1>2, <1>4, <1>3 DEF DInvWith
    <3>2. DOMAIN xMessageQ = 1..Len(xMessageQ) /\ DOMAIN xMessageQ' = 1..Len(xMessageQ')
      BY <1>3, <3>1, LenProperties DEF TypeOK
    <3>3. QED BY <3>1, <3>2, Zenon DEF LiveHeld, Hands, Queued, Busy
  <2>2. cMsg \notin Queued /\ (Busy => sMsg # cMsg)
    BY <1>2, <1>3, Apart
  <2>3. QED BY <1>2, <2>1, <2>2 DEF Hands, Queued, Busy, SInv
<1>7. Control'
  BY <1>2 DEF SInv, Control, HaltsOnlyBeforeCounterEnds
<1>8. QED BY <1>4, <1>5, <1>6, <1>7 DEF SInv, Reports0

\* The board halts in the step of a counter task whose queue or port has gone.
LEMMA HaltKeeps ==
  ASSUME SInv, counterAlive, SendToNull \/ InputFromClosed, UNCHANGED <<shpc, tasks, port>>
  PROVE  SInv'
<1>1. PICK k \in Nat : DInvWith(k)
  BY DEF SInv, Reports0
<1>2. /\ halted' = TRUE
      /\ UNCHANGED <<cpc, pBuffer, pPrevBuffer, newSecond, cMsg, nReports, allocated, xMessageQ, queue,
                     spc, sMsg, nLeaked, linkUp, up, dhcp, net, nChanges, conn,
                     nDropped, nWritten, nLost, lastWritten, shpc, serverAlive, counterAlive, port>>
  BY DEF SendToNull, InputFromClosed, Halt, counterVars, serverVars, ifVars, worldVars, history, tasks
<1>3. DInvWith(k)'
  BY <1>1, <1>2 DEF DInvWith, TypeOK, CounterAtStep, Conserved, SocketsAccounted
<1>4. InLine' /\ LiveHeld' \subseteq allocated'
  BY <1>2, InLineKept DEF SInv, LiveHeld, Busy
<1>5. shpc \in {"close port", "zero port", "terminate counter"}
  BY DEF SInv, Control, SendToNull, InputFromClosed
<1>6. Control'
  BY <1>2, <1>5 DEF SInv, Control, HaltsOnlyBeforeCounterEnds
<1>7. QED BY <1>3, <1>4, <1>6 DEF SInv, Reports0

-----------------------------------------------------------------------------
(***************************************************************************)
(* The steps of the command                                                *)
(***************************************************************************)

\* Only the network, the command and what it stops change.
LEMMA CommandKeeps ==
  ASSUME SInv, ~halted,
         EthStop \/ TerminateServer \/ ClosePort \/ ZeroPort \/ TerminateCounter \/ Finish
  PROVE  SInv'
<1>1. PICK k \in Nat : DInvWith(k)
  BY DEF SInv, Reports0
<1>2. /\ UNCHANGED <<cpc, pBuffer, pPrevBuffer, newSecond, cMsg, nReports, allocated, xMessageQ, queue,
                     halted, spc, sMsg, nLeaked, linkUp, up, dhcp, nChanges, nDropped, nWritten, nLost,
                     lastWritten>>
      /\ net' \in {net, "unplugged"} /\ conn' \in {conn, "broken"} /\ (conn = "none" => conn' = "none")
  BY DEF EthStop, TerminateServer, ClosePort, ZeroPort, TerminateCounter, Finish, vars, counterVars, heapVars,
     serverVars, ifVars, worldVars, history
<1>3. DInvWith(k)'
  <2>1. TypeOK' /\ CounterAtStep' /\ Conserved(k)'
    BY <1>1, <1>2 DEF DInvWith, TypeOK, CounterAtStep, Conserved
  <2>2. SocketsAccounted'
    BY <1>1, <1>2 DEF DInvWith, SocketsAccounted
  <2>3. QED BY <2>1, <2>2 DEF DInvWith
<1>4. InLine'
  BY <1>2, InLineKept DEF SInv, Busy
<1>5. Control' /\ (serverAlive' => serverAlive) /\ (counterAlive' => counterAlive)
  <2> USE <1>2 DEF SInv, Control, HaltsOnlyBeforeCounterEnds, tasks
  <2>1. CASE EthStop
    BY <2>1 DEF EthStop
  <2>2. CASE TerminateServer
    BY <2>2 DEF TerminateServer
  <2>3. CASE ClosePort
    BY <2>3 DEF ClosePort
  <2>4. CASE ZeroPort
    BY <2>4 DEF ZeroPort
  <2>5. CASE TerminateCounter
    BY <2>5 DEF TerminateCounter
  <2>6. CASE Finish
    BY <2>6 DEF Finish
  <2>7. QED BY <2>1, <2>2, <2>3, <2>4, <2>5, <2>6
<1>6. LiveHeld' \subseteq allocated'
  BY <1>2, <1>5 DEF SInv, LiveHeld
<1>7. QED BY <1>3, <1>4, <1>5, <1>6 DEF SInv, Reports0

\* What SVRIF_stop does to the queue: its messages become reports nothing refers to.
LEMMA QueueKeeps ==
  ASSUME SInv, ~halted, Drain \/ DeleteQueue \/ ZeroQueue
  PROVE  SInv'
<1>1. PICK k \in Nat : DInvWith(k)
  BY DEF SInv, Reports0
<1>2. /\ xMessageQ \in Seq(Reports) /\ Len(xMessageQ) \in Nat /\ nReports \in Nat
      /\ nDropped \in Nat /\ nWritten \in Nat /\ nLost \in Nat
      /\ \A i \in 1..Len(xMessageQ) : xMessageQ[i] \in Nat
      /\ TypeOK /\ InLine
  BY <1>1, InLineTypes, DeliveryAssumption DEF DInvWith, TypeOK, SInv
<1>3. /\ UNCHANGED <<cpc, pBuffer, pPrevBuffer, newSecond, cMsg, nReports, halted, spc, sMsg, nLeaked,
                     linkUp, up, dhcp, net, nChanges, conn, nDropped, nWritten, nLost, lastWritten,
                     serverAlive, counterAlive, port>>
      /\ queue' \in {"live", "freed", "null"}
  BY <1>2 DEF Drain, DeleteQueue, ZeroQueue, counterVars, serverVars, ifVars, worldVars, history, tasks, TypeOK
<1>4. Control'
  BY <1>3 DEF SInv, Control, HaltsOnlyBeforeCounterEnds, Drain, DeleteQueue, ZeroQueue
<1>5. SUFFICES InLine' /\ LiveHeld' \subseteq allocated' /\ xMessageQ' \in Seq(Reports)
               /\ Len(xMessageQ') \in Nat /\ Len(xMessageQ') <= Len(xMessageQ) /\ allocated' \subseteq allocated
  <2>1. PICK j \in Nat : Len(xMessageQ) = Len(xMessageQ') + j
    <3>1. Len(xMessageQ) - Len(xMessageQ') \in Nat
          /\ Len(xMessageQ) = Len(xMessageQ') + (Len(xMessageQ) - Len(xMessageQ'))
      BY <1>5, <1>2
    <3>2. QED BY <3>1
  <2>2. PICK m \in Nat : m = k + j
    BY <2>1
  <2>3. DInvWith(m)'
    <3>1. Conserved(m)'
      <4> DEFINE sending == IF cpc = "send" THEN 1 ELSE 0
                 writing == IF spc = "write" THEN 1 ELSE 0
      <4>1. nReports = nDropped + nWritten + nLost + k + Len(xMessageQ) + sending + writing
        BY <1>1 DEF DInvWith, Conserved
      <4>2. sending \in Nat /\ writing \in Nat
        OBVIOUS
      <4> HIDE DEF sending, writing
      <4>3. nReports = nDropped + nWritten + nLost + m + Len(xMessageQ') + sending + writing
        BY <1>5, <1>2, <2>1, <2>2, <4>1, <4>2
      <4>4. QED BY <1>3, <4>3 DEF Conserved, sending, writing
    <3>2. TypeOK'
      BY <1>3, <1>5, <1>2, DeliveryAssumption DEF TypeOK
    <3>3. CounterAtStep' /\ SocketsAccounted'
      BY <1>1, <1>3 DEF DInvWith, CounterAtStep, SocketsAccounted
    <3>4. QED BY <3>1, <3>2, <3>3 DEF DInvWith
  <2>4. QED BY <1>4, <1>5, <2>3 DEF SInv, Reports0
<1>6. CASE UNCHANGED <<allocated, xMessageQ>>
  <2>1. InLine'
    BY <1>3, <1>6, <1>2, InLineKept DEF Busy
  <2>2. LiveHeld' \subseteq allocated'
    BY <1>3, <1>6 DEF SInv, LiveHeld
  <2>3. QED BY <1>6, <1>2, <2>1, <2>2
<1>7. CASE xMessageQ' = <<>> /\ UNCHANGED allocated
  <2>1. xMessageQ' \in Seq(Reports) /\ Len(xMessageQ') = 0
    BY <1>7, EmptySeq
  <2>2. InLine'
    BY <1>3, <1>2, <2>1 DEF InLine, Busy
  <2>3. LiveHeld' \subseteq LiveHeld
    BY <1>3, <1>7 DEF LiveHeld
  <2>4. QED BY <1>7, <1>2, <2>1, <2>2, <2>3 DEF SInv
<1>8. CASE /\ xMessageQ # <<>> /\ xMessageQ' = Tail(xMessageQ)
           /\ allocated' = allocated \ {Head(xMessageQ)}
  <2>1. /\ Len(xMessageQ') = Len(xMessageQ) - 1 /\ Len(xMessageQ) >= 1 /\ xMessageQ' \in Seq(Reports)
        /\ \A i \in 1..Len(xMessageQ') : xMessageQ'[i] = xMessageQ[i + 1]
        /\ Head(xMessageQ) = xMessageQ[1] /\ 1 \in 1..Len(xMessageQ)
    BY <1>2, <1>8, HeadTailProperties, EmptySeq
  <2>2. \A i \in 1..Len(xMessageQ') : i + 1 \in 1..Len(xMessageQ) /\ 1 < i + 1
    BY <1>2, <2>1
  <2>3. InLine'
    <3>1. \A i, j \in 1..Len(xMessageQ') : i < j => xMessageQ'[i] < xMessageQ'[j]
      <4>1. \A i, j \in 1..Len(xMessageQ') : i < j => i + 1 < j + 1
        BY <1>2, <2>1
      <4>2. QED BY <1>2, <2>1, <2>2, <4>1 DEF InLine
    <3>2. \A i \in 1..Len(xMessageQ') :
            /\ lastWritten < xMessageQ'[i] /\ xMessageQ'[i] <= nReports
            /\ cpc = "send" => xMessageQ'[i] < cMsg
            /\ Busy => sMsg < xMessageQ'[i]
      BY <1>2, <2>1, <2>2 DEF InLine
    <3>3. QED BY <1>3, <1>2, <3>1, <3>2 DEF InLine, Busy
  <2>4. Queued' \subseteq Queued /\ Head(xMessageQ) \in Queued
    BY <2>1, <2>2 DEF Queued
  <2>5. Head(xMessageQ) \notin Queued'
    <3>1. ASSUME NEW i \in 1..Len(xMessageQ') PROVE xMessageQ'[i] # Head(xMessageQ)
      <4>1. /\ xMessageQ[1] \in Nat /\ xMessageQ'[i] \in Nat /\ xMessageQ[1] < xMessageQ'[i]
        BY <1>2, <2>1, <2>2 DEF InLine
      <4>2. QED BY <2>1, <4>1
    <3>2. QED BY <3>1 DEF Queued
  <2>6. (cpc = "send" => cMsg # Head(xMessageQ)) /\ (Busy => sMsg # Head(xMessageQ))
    BY <1>2, <2>4, Apart
  <2>7. LiveHeld' \subseteq LiveHeld \ {Head(xMessageQ)}
    <3>1. DOMAIN xMessageQ = 1..Len(xMessageQ) /\ DOMAIN xMessageQ' = 1..Len(xMessageQ')
      BY <1>2, <2>1, LenProperties
    <3>2. QED BY <1>3, <2>4, <2>5, <2>6, <3>1 DEF LiveHeld, Queued, Busy
  <2>8. QED BY <1>8, <1>2, <2>1, <2>3, <2>7 DEF SInv
<1>9. QED BY <1>6, <1>7, <1>8 DEF Drain, DeleteQueue, ZeroQueue

LEMMA ShutdownSteps == SInv /\ [ShutdownNext]_shutdownVars => SInv'
<1> SUFFICES ASSUME SInv, [ShutdownNext]_shutdownVars PROVE SInv'
  OBVIOUS
<1>1. CASE Counter
  BY <1>1, CounterKeeps, SendToFreedKeeps, HaltKeeps DEF Counter
<1>2. CASE Server
  BY <1>2, ServerKeeps DEF Server
<1>3. CASE World
  BY <1>3, OthersKeep DEF World
<1>4. CASE Shell
  BY <1>4, CommandKeeps, QueueKeeps DEF Shell
<1>5. CASE UNCHANGED shutdownVars
  BY <1>5, OthersKeep DEF shutdownVars
<1>6. QED BY <1>1, <1>2, <1>3, <1>4, <1>5 DEF ShutdownNext

LEMMA ShutdownInv == ShutdownSpec => []SInv
  BY ShutdownStarts, ShutdownSteps, PTL DEF ShutdownSpec

\* The state of the command, the tasks and the port is well formed whatever the tasks
\* were doing when it ended them.
THEOREM ShutdownTypeCorrect == ShutdownSpec => []ShutdownTypeOK
<1>1. SInv => ShutdownTypeOK
  BY StepsAre DEF SInv, Reports0, DInvWith, Control, ShutdownTypeOK
<1>2. QED BY <1>1, ShutdownInv, PTL

\* Wherever SVRIF_stop and CNTIF_stop find the tasks, what a task or the queue still
\* refers to is allocated and has one owner: no block is freed twice (serverif.c:65-77).
THEOREM StopFreesNothingTwice == ShutdownSpec => []NothingFreedTwice
<1>1. SInv => NothingFreedTwice
  <2> SUFFICES ASSUME SInv PROVE NothingFreedTwice
    OBVIOUS
  <2>1. TypeOK /\ InLine /\ serverAlive \in BOOLEAN /\ counterAlive \in BOOLEAN
    BY DEF SInv, Reports0, DInvWith, Control
  <2> DEFINE c == counterAlive /\ cpc = "send"
             b == serverAlive /\ Busy
  <2>2. LiveHeld = Hands(c, b)
    BY <2>1, LiveHeldIs
  <2>3. c \in BOOLEAN /\ b \in BOOLEAN /\ (c => cpc = "send") /\ (b => Busy)
    BY <2>1 DEF Busy
  <2>4. Cardinality(Hands(c, b)) = Len(xMessageQ) + (IF c THEN 1 ELSE 0) + (IF b THEN 1 ELSE 0)
    <3> HIDE DEF c, b
    <3>1. QED BY <2>1, <2>3, HandsCounted
  <2>5. QED BY <2>2, <2>4 DEF NothingFreedTwice, SInv, Busy
<1>2. QED BY <1>1, ShutdownInv, PTL

\* The board halts, if at all, before CNTIF_stop has ended the counter task (shell.c:418-430).
THEOREM HaltsEarlyOrNever == ShutdownSpec => []HaltsOnlyBeforeCounterEnds
<1>1. SInv => HaltsOnlyBeforeCounterEnds
  BY DEF SInv, Control
<1>2. QED BY <1>1, ShutdownInv, PTL

=============================================================================
