---------------------------- MODULE SerialProofs ----------------------------
(***************************************************************************)
(* What Serial.tla guarantees for every ring size, every number of bytes   *)
(* and every set of tasks.  The safety properties of the port are not      *)
(* inductive: they hold because of who holds the mutex, which steps run    *)
(* with the receive interrupt masked and what the handler may do meanwhile.*)
(* Control states that; Contents adds what the ring holds.                 *)
(***************************************************************************)
EXTENDS Serial, SequenceTheorems, TLAPS

\* The task inside the port's operations is the one that holds the mutex.
MutexHeldInside == \A t \in Tasks : pc[t] \in Inside <=> xSemaphore = t

\* A task that only prints never runs a step of a read.
WritersOnlyPrint == \A t \in Tasks : t \notin Readers => pc[t] \in {"idle", "puttake", "transmit"}

\* The receive interrupt is off exactly between Mask and Unmask.
MaskedOnlyWhileReading == rxne <=> \A t \in Readers : pc[t] \notin Masked

\* From the second test of the length to its decrement the ring is not empty:
\* the handler drops a byte only to store another.
ByteToTake ==
  \A t \in Readers : pc[t] \in {"mask", "read", "advance", "shorten"} => ulRxLength > 0

\* SERIAL_gets asks for a byte only while its buffer has room for it.
RoomForByte ==
  \A t \in Tasks : /\ pc[t] \in GetcSteps /\ ulSize[t] > 0 => ulCount[t] < ulSize[t]
                   /\ pc[t] \in {"idle", "puttake", "transmit"} => ulSize[t] = 0

Control == /\ TypeOK /\ MutexHeldInside /\ WritersOnlyPrint /\ MaskedOnlyWhileReading
           /\ ByteToTake /\ RoomForByte /\ NoLostWakeup

LEMMA InitControl == Init => Control
  BY SerialAssumption
     DEF Init, Control, TypeOK, MutexHeldInside, WritersOnlyPrint, MaskedOnlyWhileReading,
         ByteToTake, RoomForByte, NoLostWakeup, Tasks, Steps, GetsSteps, GetcSteps, Inside,
         Masked, NoByte

\* The remainder of a number below twice the divisor, without division.
LEMMA ModUpToTwice ==
  ASSUME NEW a \in Nat, NEW m \in Nat \ {0}, a < 2 * m
  PROVE  /\ a < m => a % m = a
         /\ a >= m => a % m = a - m
  BY SMT

LEMMA SlotInRange ==
  ASSUME NEW a \in Nat, NEW m \in Nat \ {0}
  PROVE  a % m \in 0..(m - 1)
  BY SMT

(***************************************************************************)
(* Control is preserved: one step per action.                              *)
(***************************************************************************)
LEMMA NextControl == Control /\ [Next]_vars => Control'
<1> SUFFICES ASSUME Control, [Next]_vars PROVE Control'
  OBVIOUS
<1> USE SerialAssumption
    DEF Control, TypeOK, MutexHeldInside, WritersOnlyPrint, MaskedOnlyWhileReading,
        ByteToTake, RoomForByte, NoLostWakeup, Tasks, Steps, GetsSteps, GetcSteps,
        Inside, Masked, NoByte, Goto, Return, uart, ring, call
<1>1. CASE Arrive
  <2>1. TypeOK'
    <3>1. nArrived' \in 0..MaxBytes /\ dr' \in 0..MaxBytes
      BY <1>1 DEF Arrive
    <3>2. UNCHANGED <<xPort, rxne, ring, xRxWait, xSemaphore, pc, pValue, call, lastRead>>
      BY <1>1 DEF Arrive
    <3>3. QED
      BY <3>1, <3>2
  <2>2. MutexHeldInside'
    BY <1>1 DEF Arrive
  <2>3. WritersOnlyPrint' /\ MaskedOnlyWhileReading'
    BY <1>1 DEF Arrive
  <2>4. ByteToTake'
    BY <1>1 DEF Arrive
  <2>5. RoomForByte'
    BY <1>1 DEF Arrive
  <2>6. NoLostWakeup'
    BY <1>1 DEF Arrive
  <2>7. QED
    BY <2>1, <2>2, <2>3, <2>4, <2>5, <2>6
<1>2. CASE IRQ
  <2> USE DEF Store, Full, RoomIndex, RoomLength
  <2>1. /\ (ulRxIndex + 1) % N \in 0..(N - 1)
        /\ (RoomIndex + RoomLength) % N \in 0..(N - 1)
    BY SlotInRange
  <2>2. CASE USART1_IRQHandler
    <3>1. TypeOK'
      <4>1. /\ pRxBuffer' \in [0..(N - 1) -> 0..MaxBytes] /\ dr' \in 0..MaxBytes
            /\ ulRxIndex' \in 0..(N - 1)
        BY <2>1, <2>2 DEF USART1_IRQHandler
      <4>2. ulRxLength' \in 0..N
        BY <2>2 DEF USART1_IRQHandler
      <4>3. xRxWait' \in {0, 1}
        BY <2>2 DEF USART1_IRQHandler
      <4>4. UNCHANGED <<xPort, nArrived, rxne, xSemaphore, pc, pValue, call, lastRead>>
        BY <2>2 DEF USART1_IRQHandler
      <4>5. QED
        BY <4>1, <4>2, <4>3, <4>4
    <3>2. MutexHeldInside'
      BY <2>1, <2>2 DEF USART1_IRQHandler
    <3>3. WritersOnlyPrint' /\ MaskedOnlyWhileReading'
      BY <2>1, <2>2 DEF USART1_IRQHandler
    <3>4. ByteToTake'
      BY <2>1, <2>2 DEF USART1_IRQHandler
    <3>5. RoomForByte'
      BY <2>1, <2>2 DEF USART1_IRQHandler
    <3>6. NoLostWakeup'
      BY <2>1, <2>2 DEF USART1_IRQHandler
    <3>7. QED
      BY <3>1, <3>2, <3>3, <3>4, <3>5, <3>6
  <2>3. CASE UART4_IRQHandler
    <3>1. TypeOK'
      <4>1. /\ pRxBuffer' \in [0..(N - 1) -> 0..MaxBytes] /\ dr' \in 0..MaxBytes
            /\ ulRxIndex' \in 0..(N - 1)
        BY <2>1, <2>3 DEF UART4_IRQHandler
      <4>2. ulRxLength' \in 0..N
        BY <2>3 DEF UART4_IRQHandler
      <4>3. xRxWait' \in {0, 1}
        BY <2>3 DEF UART4_IRQHandler
      <4>4. UNCHANGED <<xPort, nArrived, rxne, xSemaphore, pc, pValue, call, lastRead>>
        BY <2>3 DEF UART4_IRQHandler
      <4>5. QED
        BY <4>1, <4>2, <4>3, <4>4
    <3>2. MutexHeldInside'
      BY <2>1, <2>3 DEF UART4_IRQHandler
    <3>3. WritersOnlyPrint' /\ MaskedOnlyWhileReading'
      BY <2>1, <2>3 DEF UART4_IRQHandler
    <3>4. ByteToTake'
      BY <2>1, <2>3 DEF UART4_IRQHandler
    <3>5. RoomForByte'
      BY <2>1, <2>3 DEF UART4_IRQHandler
    <3>6. NoLostWakeup'
      BY <2>1, <2>3 DEF UART4_IRQHandler
    <3>7. QED
      BY <3>1, <3>2, <3>3, <3>4, <3>5, <3>6
  <2>4. QED
    BY <1>2, <2>2, <2>3 DEF IRQ
<1>3. ASSUME NEW t \in Readers, CallRead(t)
      PROVE  Control'
  <2>1. CASE CallGetc(t)
    <3>1. TypeOK'
      BY <2>1 DEF CallGetc
    <3>2. MutexHeldInside'
      BY <2>1 DEF CallGetc
    <3>3. WritersOnlyPrint' /\ MaskedOnlyWhileReading' /\ ByteToTake'
      BY <2>1 DEF CallGetc
    <3>4. RoomForByte'
      BY <2>1 DEF CallGetc
    <3>5. NoLostWakeup'
      BY <2>1 DEF CallGetc
    <3>6. QED
      BY <3>1, <3>2, <3>3, <3>4, <3>5
  <2>2. ASSUME NEW size \in 1..MaxSize, CallGets(t, size)
        PROVE  Control'
    <3>1. TypeOK'
      BY <2>2 DEF CallGets
    <3>2. MutexHeldInside'
      BY <2>2 DEF CallGets
    <3>3. WritersOnlyPrint' /\ MaskedOnlyWhileReading' /\ ByteToTake'
      BY <2>2 DEF CallGets
    <3>4. RoomForByte'
      BY <2>2 DEF CallGets
    <3>5. NoLostWakeup'
      BY <2>2 DEF CallGets
    <3>6. QED
      BY <3>1, <3>2, <3>3, <3>4, <3>5
  <2>3. QED
    BY <1>3, <2>1, <2>2 DEF CallRead
<1>4. ASSUME NEW t \in Readers, SERIAL_gets(t)
      PROVE  Control'
  <2>1. CASE GetsLoop(t)
    <3>1. CASE ulCount[t] < ulSize[t]
      BY <2>1, <3>1 DEF GetsLoop
    <3>2. CASE ~(ulCount[t] < ulSize[t])
      <4>1. TypeOK'
        <5>1. /\ pc' = [pc EXCEPT ![t] = "idle"] /\ ulSize' = [ulSize EXCEPT ![t] = 0]
              /\ UNCHANGED <<xPort, uart, rxne, ring, xRxWait, xSemaphore, pValue, ulCount, expired,
                              lastRead>>
          BY <2>1, <3>2 DEF GetsLoop
        <5>2. ulSize' \in [Tasks -> 0..MaxSize]
          BY <5>1
        <5>3. pc' \in [Tasks -> Steps]
          BY <5>1
        <5>4. QED
          BY <5>1, <5>2, <5>3
      <4>2. MutexHeldInside'
        BY <2>1, <3>2 DEF GetsLoop
      <4>3. WritersOnlyPrint' /\ MaskedOnlyWhileReading' /\ ByteToTake'
        BY <2>1, <3>2 DEF GetsLoop
      <4>4. RoomForByte'
        BY <2>1, <3>2 DEF GetsLoop
      <4>5. NoLostWakeup'
        BY <2>1, <3>2 DEF GetsLoop
      <4>6. QED
        BY <4>1, <4>2, <4>3, <4>4, <4>5
    <3>3. QED
      BY <3>1, <3>2
  <2>2. CASE Deadline(t)
    <3>1. CASE expired[t]
      <4>1. TypeOK'
        <5>1. /\ pc' = [pc EXCEPT ![t] = "idle"] /\ ulSize' = [ulSize EXCEPT ![t] = 0]
              /\ UNCHANGED <<xPort, uart, rxne, ring, xRxWait, xSemaphore, pValue, ulCount, expired,
                              lastRead>>
          BY <2>2, <3>1 DEF Deadline
        <5>2. ulSize' \in [Tasks -> 0..MaxSize]
          BY <5>1
        <5>3. pc' \in [Tasks -> Steps]
          BY <5>1
        <5>4. QED
          BY <5>1, <5>2, <5>3
      <4>2. MutexHeldInside'
        BY <2>2, <3>1 DEF Deadline
      <4>3. WritersOnlyPrint' /\ MaskedOnlyWhileReading' /\ ByteToTake'
        BY <2>2, <3>1 DEF Deadline
      <4>4. RoomForByte'
        BY <2>2, <3>1 DEF Deadline
      <4>5. NoLostWakeup'
        BY <2>2, <3>1 DEF Deadline
      <4>6. QED
        BY <4>1, <4>2, <4>3, <4>4, <4>5
    <3>2. CASE ~(expired[t])
      BY <2>2, <3>2 DEF Deadline
    <3>3. QED
      BY <3>1, <3>2
  <2>3. CASE Elapse(t)
    BY <2>3 DEF Elapse
  <2>4. QED
    BY <1>4, <2>1, <2>2, <2>3 DEF SERIAL_gets
<1>5. ASSUME NEW t \in Readers, SERIAL_getc(t)
      PROVE  Control'
  <2>1. CASE Take(t)
    BY <2>1 DEF Take
  <2>2. CASE TakeTimeout(t)
    BY <2>2 DEF TakeTimeout
  <2>3. CASE Check(t)
    <3>1. CASE ulRxLength = 0
      <4>1. /\ pc[t] = "check" /\ pc' = [pc EXCEPT ![t] = "wait"]
            /\ UNCHANGED <<xPort, uart, rxne, ring, xRxWait, xSemaphore, pValue, call, lastRead>>
        BY <2>3, <3>1 DEF Check
      <4>2. QED
        <5>1. TypeOK'
          BY <4>1, <3>1
        <5>2. MutexHeldInside'
          BY <4>1, <3>1
        <5>3. WritersOnlyPrint' /\ MaskedOnlyWhileReading'
          BY <4>1, <3>1
        <5>4. ByteToTake'
          BY <4>1, <3>1
        <5>5. RoomForByte'
          BY <4>1, <3>1
        <5>6. NoLostWakeup'
          BY <4>1, <3>1
        <5>7. QED
          BY <5>1, <5>2, <5>3, <5>4, <5>5, <5>6
    <3>2. CASE ~(ulRxLength = 0)
      <4>1. /\ pc[t] = "check" /\ pc' = [pc EXCEPT ![t] = "recheck"]
            /\ UNCHANGED <<xPort, uart, rxne, ring, xRxWait, xSemaphore, pValue, call, lastRead>>
        BY <2>3, <3>2 DEF Check
      <4>2. QED
        BY <4>1, <3>2
    <3>3. QED
      BY <3>1, <3>2
  <2>4. CASE Wait(t)
    BY <2>4 DEF Wait
  <2>5. CASE WaitTimeout(t)
    <3>1. CASE ulSize[t] = 0
      <4>1. TypeOK'
        BY <2>5, <3>1 DEF WaitTimeout
      <4>2. MutexHeldInside'
        BY <2>5, <3>1 DEF WaitTimeout
      <4>3. WritersOnlyPrint' /\ MaskedOnlyWhileReading'
        BY <2>5, <3>1 DEF WaitTimeout
      <4>4. ByteToTake'
        BY <2>5, <3>1 DEF WaitTimeout
      <4>5. RoomForByte'
        BY <2>5, <3>1 DEF WaitTimeout
      <4>6. NoLostWakeup'
        BY <2>5, <3>1 DEF WaitTimeout
      <4>7. QED
        BY <4>1, <4>2, <4>3, <4>4, <4>5, <4>6
    <3>2. CASE ~(ulSize[t] = 0)
      <4>1. TypeOK'
        BY <2>5, <3>2 DEF WaitTimeout
      <4>2. MutexHeldInside'
        BY <2>5, <3>2 DEF WaitTimeout
      <4>3. WritersOnlyPrint' /\ MaskedOnlyWhileReading'
        BY <2>5, <3>2 DEF WaitTimeout
      <4>4. ByteToTake'
        BY <2>5, <3>2 DEF WaitTimeout
      <4>5. RoomForByte'
        BY <2>5, <3>2 DEF WaitTimeout
      <4>6. NoLostWakeup'
        BY <2>5, <3>2 DEF WaitTimeout
      <4>7. QED
        BY <4>1, <4>2, <4>3, <4>4, <4>5, <4>6
    <3>3. QED
      BY <3>1, <3>2
  <2>6. CASE Recheck(t)
    <3>1. CASE ulRxLength # 0
      <4>1. /\ pc[t] = "recheck" /\ xSemaphore' = xSemaphore /\ pc' = [pc EXCEPT ![t] = "mask"]
            /\ UNCHANGED <<xPort, uart, rxne, ring, xRxWait, pValue, call, lastRead>>
        BY <2>6, <3>1 DEF Recheck
      <4>2. QED
        <5>1. TypeOK'
          BY <4>1, <3>1
        <5>2. MutexHeldInside'
          BY <4>1, <3>1
        <5>3. WritersOnlyPrint' /\ MaskedOnlyWhileReading'
          BY <4>1, <3>1
        <5>4. ByteToTake'
          BY <4>1, <3>1
        <5>5. RoomForByte'
          BY <4>1, <3>1
        <5>6. NoLostWakeup'
          BY <4>1, <3>1
        <5>7. QED
          BY <5>1, <5>2, <5>3, <5>4, <5>5, <5>6
    <3>2. CASE ulRxLength = 0 /\ ulSize[t] = 0
      <4>1. /\ pc[t] = "recheck" /\ xSemaphore' = NoTask /\ pc' = [pc EXCEPT ![t] = "idle"]
            /\ UNCHANGED <<xPort, uart, rxne, ring, xRxWait, pValue, call, lastRead>>
        BY <2>6, <3>2 DEF Recheck
      <4>2. QED
        <5>1. TypeOK'
          BY <4>1, <3>2
        <5>2. MutexHeldInside'
          BY <4>1, <3>2
        <5>3. WritersOnlyPrint' /\ MaskedOnlyWhileReading'
          BY <4>1, <3>2
        <5>4. ByteToTake'
          BY <4>1, <3>2
        <5>5. RoomForByte'
          BY <4>1, <3>2
        <5>6. NoLostWakeup'
          BY <4>1, <3>2
        <5>7. QED
          BY <5>1, <5>2, <5>3, <5>4, <5>5, <5>6
    <3>3. CASE ulRxLength = 0 /\ ulSize[t] # 0
      <4>1. /\ pc[t] = "recheck" /\ xSemaphore' = NoTask /\ pc' = [pc EXCEPT ![t] = "deadline"]
            /\ UNCHANGED <<xPort, uart, rxne, ring, xRxWait, pValue, call, lastRead>>
        BY <2>6, <3>3 DEF Recheck
      <4>2. QED
        <5>1. TypeOK'
          BY <4>1, <3>3
        <5>2. MutexHeldInside'
          BY <4>1, <3>3
        <5>3. WritersOnlyPrint' /\ MaskedOnlyWhileReading'
          BY <4>1, <3>3
        <5>4. ByteToTake'
          BY <4>1, <3>3
        <5>5. RoomForByte'
          BY <4>1, <3>3
        <5>6. NoLostWakeup'
          BY <4>1, <3>3
        <5>7. QED
          BY <5>1, <5>2, <5>3, <5>4, <5>5, <5>6
    <3>4. QED
      BY <3>1, <3>2, <3>3
  <2>7. CASE Mask(t)
    BY <2>7 DEF Mask
  <2>8. CASE Read(t)
    BY <2>8 DEF Read
  <2>9. CASE Advance(t)
    <3>1. (ulRxIndex + 1) % N \in 0..(N - 1)
      BY SlotInRange
    <3>2. QED
      BY <2>9, <3>1 DEF Advance
  <2>10. CASE Shorten(t)
    <3>1. ulRxLength \in 1..N /\ ulRxLength - 1 \in 0..N
      BY <2>10 DEF Shorten
    <3>2. QED
      BY <2>10, <3>1 DEF Shorten
  <2>11. CASE Unmask(t)
    BY <2>11 DEF Unmask
  <2>12. CASE Give(t)
    <3>1. CASE ulSize[t] = 0
      <4>1. TypeOK'
        BY <2>12, <3>1 DEF Give
      <4>2. MutexHeldInside'
        BY <2>12, <3>1 DEF Give
      <4>3. WritersOnlyPrint' /\ MaskedOnlyWhileReading' /\ ByteToTake'
        BY <2>12, <3>1 DEF Give
      <4>4. RoomForByte'
        BY <2>12, <3>1 DEF Give
      <4>5. NoLostWakeup'
        BY <2>12, <3>1 DEF Give
      <4>6. QED
        BY <4>1, <4>2, <4>3, <4>4, <4>5
    <3>2. CASE ~(ulSize[t] = 0)
      <4>1. TypeOK'
        <5>1. ulCount[t] \in 0..MaxSize /\ ulSize[t] \in 1..MaxSize
          BY <3>2
        <5>2. ulCount[t] < ulSize[t]
          BY <2>12, <5>1 DEF Give
        <5>3. ulCount[t] + 1 \in 0..MaxSize
          BY <5>1, <5>2
        <5>4. /\ ulCount' = [ulCount EXCEPT ![t] = ulCount[t] + 1]
              /\ xSemaphore' = NoTask /\ pc' = [pc EXCEPT ![t] = "deadline"]
              /\ UNCHANGED <<xPort, uart, rxne, ring, xRxWait, pValue, ulSize, expired, lastRead>>
          BY <2>12, <3>2 DEF Give
        <5>5. QED
          BY <5>3, <5>4
      <4>2. MutexHeldInside'
        <5>1. /\ pc[t] = "give" /\ xSemaphore' = NoTask
              /\ pc' = [pc EXCEPT ![t] = "deadline"]
          BY <2>12, <3>2 DEF Give
        <5>2. QED
          BY <5>1
      <4>3. WritersOnlyPrint' /\ MaskedOnlyWhileReading' /\ ByteToTake'
        BY <2>12, <3>2 DEF Give
      <4>4. RoomForByte'
        BY <2>12, <3>2 DEF Give
      <4>5. NoLostWakeup'
        BY <2>12, <3>2 DEF Give
      <4>6. QED
        BY <4>1, <4>2, <4>3, <4>4, <4>5
    <3>3. QED
      BY <3>1, <3>2
  <2>13. QED
    BY <1>5, <2>1, <2>2, <2>3, <2>4, <2>5, <2>6, <2>7, <2>8, <2>9, <2>10,
       <2>11, <2>12 DEF SERIAL_getc
<1>6. ASSUME NEW t \in Tasks, SERIAL_puts(t)
      PROVE  Control'
  <2>1. CASE CallPuts(t)
    BY <2>1 DEF CallPuts
  <2>2. CASE PutTake(t)
    BY <2>2 DEF PutTake
  <2>3. CASE Transmit(t)
    BY <2>3 DEF Transmit
  <2>4. QED
    BY <1>6, <2>1, <2>2, <2>3 DEF SERIAL_puts
<1>7. CASE UNCHANGED vars
  BY <1>7 DEF vars
<1>8. QED
  BY <1>1, <1>2, <1>3, <1>4, <1>5, <1>6, <1>7 DEF Next

LEMMA ControlHolds == Spec => []Control
  BY InitControl, NextControl, PTL DEF Spec

\* The port's state is always well formed: the index stays in the ring, the
\* length never exceeds it, and SERIAL_gets never overruns its buffer.
THEOREM TypeCorrect == Spec => []TypeOK
<1>1. Control => TypeOK
  BY DEF Control
<1>2. QED
  BY <1>1, ControlHolds, PTL

\* No reader sleeps on a ring that holds a byte without a token to wake it.
THEOREM NeverLosesWakeup == Spec => []NoLostWakeup
<1>1. Control => NoLostWakeup
  BY DEF Control
<1>2. QED
  BY <1>1, ControlHolds, PTL

(***************************************************************************)
(* What the ring holds                                                     *)
(***************************************************************************)

\* The byte SERIAL_getc copied is still the oldest one when the index moves.
ReadsHead == \A t \in Readers : pc[t] = "advance" => pValue[t] = pRxBuffer[ulRxIndex]

\* The byte in the data register is newer than all the ring holds.
RegisterIsNewest ==
  /\ lastRead <= nArrived
  /\ dr # NoByte => /\ lastRead < dr /\ dr <= nArrived
                    /\ \A i \in 0..(BytesInRing - 1) : pRxBuffer[Slot(i)] < dr

Contents == RingInOrder /\ ReadsHead /\ RegisterIsNewest

LEMMA InitContents == Init => Contents
<1> SUFFICES ASSUME Init PROVE Contents
  OBVIOUS
<1>1. BytesInRing = 0
  BY DEF Init, BytesInRing, Tasks
<1>2. QED
  BY <1>1 DEF Init, Contents, RingInOrder, ReadsHead, RegisterIsNewest, Tasks, NoByte

\* Moving the index by one renumbers the slots by one.
LEMMA SlotOfNext ==
  ASSUME NEW m \in Nat \ {0}, NEW k \in 0..(m - 1), NEW i \in 0..(m - 1)
  PROVE  (((k + 1) % m) + i) % m = (k + (i + 1)) % m
<1>1. CASE k + 1 < m
  <2>1. (k + 1) % m = k + 1
    <3>1. k + 1 \in Nat /\ k + 1 < 2 * m
      BY <1>1
    <3>2. QED
      BY <1>1, <3>1, ModUpToTwice
  <2>2. (k + 1) + i = k + (i + 1)
    OBVIOUS
  <2>3. QED
    BY <2>1, <2>2
<1>2. CASE k + 1 = m
  <2>1. (k + 1) % m = 0
    BY <1>2, ModUpToTwice
  <2>2. i % m = i
    BY ModUpToTwice
  <2>3. (k + (i + 1)) % m = i
    BY <1>2, ModUpToTwice
  <2>4. QED
    BY <2>1, <2>2, <2>3
<1>3. QED
  BY <1>1, <1>2

\* Different places of the ring are different slots.
LEMMA SlotsDiffer ==
  ASSUME NEW m \in Nat \ {0}, NEW k \in 0..(m - 1),
         NEW i \in 0..(m - 1), NEW j \in 0..(m - 1), i # j
  PROVE  (k + i) % m # (k + j) % m
<1> DEFINE a == k + i
           b == k + j
<1>1. a \in Nat /\ b \in Nat /\ a < 2 * m /\ b < 2 * m
  OBVIOUS
<1>2. (a < m => a % m = a) /\ (a >= m => a % m = a - m)
  BY <1>1, ModUpToTwice
<1>3. (b < m => b % m = b) /\ (b >= m => b % m = b - m)
  BY <1>1, ModUpToTwice
<1>4. a # b /\ a - b < m /\ b - a < m
  OBVIOUS
<1>5. QED
  <2> HIDE DEF a, b
  <2>1. a % m # b % m
    BY <1>1, <1>2, <1>3, <1>4
  <2>2. QED
    BY <2>1 DEF a, b

\* How many bytes the next read sees, by what the tasks are doing.
LEMMA BytesWhenUnmasked == Control /\ rxne => BytesInRing = ulRxLength
  BY DEF Control, MaskedOnlyWhileReading, Masked, BytesInRing

LEMMA BytesRange == Control => BytesInRing \in 0..N /\ BytesInRing <= ulRxLength
<1> SUFFICES ASSUME Control PROVE BytesInRing \in 0..N /\ BytesInRing <= ulRxLength
  OBVIOUS
<1>1. ulRxLength \in 0..N /\ N \in Nat
  BY SerialAssumption DEF Control, TypeOK
<1>2. (\E t \in Readers : pc[t] = "shorten") => ulRxLength > 0
  BY DEF Control, ByteToTake
<1>3. QED
  BY <1>1, <1>2 DEF BytesInRing

\* The handler's effect on the ring: the oldest byte goes if the ring is full,
\* the others keep their order, the new byte comes last.
LEMMA StoreAppends ==
  ASSUME Control, Store
  PROVE  /\ BytesInRing = ulRxLength
         /\ BytesInRing' = RoomLength + 1
         /\ RoomLength \in 0..(N - 1)
         /\ \A i \in 0..(RoomLength - 1) :
              pRxBuffer'[(ulRxIndex' + i) % N] = pRxBuffer[Slot(IF Full THEN i + 1 ELSE i)]
         /\ pRxBuffer'[(ulRxIndex' + RoomLength) % N] = dr
<1> USE SerialAssumption
<1>1. rxne /\ UNCHANGED <<rxne, pc>>
  BY DEF Store
<1>2. /\ ulRxIndex \in 0..(N - 1) /\ ulRxLength \in 0..N
      /\ pRxBuffer \in [0..(N - 1) -> 0..MaxBytes]
  BY DEF Control, TypeOK
<1>3. \A t \in Readers : pc[t] # "shorten"
  BY <1>1 DEF Control, MaskedOnlyWhileReading, Masked
<1>4. BytesInRing = ulRxLength /\ BytesInRing' = ulRxLength'
  BY <1>1, <1>3 DEF BytesInRing
<1>5. RoomLength \in 0..(N - 1) /\ ulRxLength' = RoomLength + 1
  BY <1>2 DEF Store, RoomLength, Full
<1>6. RoomIndex \in 0..(N - 1) /\ ulRxIndex' = RoomIndex
  BY <1>2, SlotInRange DEF Store, RoomIndex, Full
<1>7. ~Full => RoomIndex = ulRxIndex
  BY DEF RoomIndex
<1>8. ASSUME NEW i \in 0..(RoomLength - 1)
      PROVE  pRxBuffer'[(ulRxIndex' + i) % N] = pRxBuffer[Slot(IF Full THEN i + 1 ELSE i)]
  <2>1. (RoomIndex + i) % N # (RoomIndex + RoomLength) % N
    BY <1>5, <1>6, SlotsDiffer
  <2>2. (RoomIndex + i) % N \in 0..(N - 1)
    BY <1>5, <1>6, SlotInRange
  <2>3. pRxBuffer'[(RoomIndex + i) % N] = pRxBuffer[(RoomIndex + i) % N]
    BY <1>2, <2>1, <2>2 DEF Store
  <2>4. (RoomIndex + i) % N = Slot(IF Full THEN i + 1 ELSE i)
    <3>1. CASE Full
      <4>1. RoomIndex = (ulRxIndex + 1) % N /\ i \in 0..(N - 1)
        BY <1>5, <3>1 DEF RoomIndex
      <4>2. QED
        BY <1>2, <3>1, <4>1, SlotOfNext DEF Slot
    <3>2. CASE ~Full
      BY <1>7, <3>2 DEF Slot
    <3>3. QED
      BY <3>1, <3>2
  <2>5. QED
    BY <1>6, <2>3, <2>4
<1>9. pRxBuffer'[(ulRxIndex' + RoomLength) % N] = dr
  <2>1. (RoomIndex + RoomLength) % N \in 0..(N - 1)
    BY <1>5, <1>6, SlotInRange
  <2>2. QED
    BY <1>2, <1>6, <2>1 DEF Store
<1>10. QED
  BY <1>4, <1>5, <1>8, <1>9

\* A step that leaves the slots, the index and the registers alone keeps the
\* contents, if it does not change how many bytes the next read sees.
LEMMA ContentsFrame ==
  ASSUME Contents, UNCHANGED <<nArrived, dr, pRxBuffer, ulRxIndex, lastRead>>,
         BytesInRing' = BytesInRing, ReadsHead'
  PROVE  Contents'
  BY DEF Contents, RingInOrder, RegisterIsNewest, Slot, NoByte

\* A step that moves no task into or out of the index update and the length
\* update changes neither the number of bytes nor the byte that was copied.
LEMMA ControlFrame ==
  ASSUME Contents, UNCHANGED <<nArrived, dr, ring, lastRead>>,
         \A t \in Readers : pc'[t] = "shorten" <=> pc[t] = "shorten",
         \A t \in Readers : pc'[t] = "advance" => pc[t] = "advance" /\ pValue'[t] = pValue[t]
  PROVE  Contents'
<1>1. BytesInRing' = BytesInRing
  BY DEF BytesInRing, ring
<1>2. ReadsHead'
  BY DEF Contents, ReadsHead, ring
<1>3. QED
  BY <1>1, <1>2, ContentsFrame DEF ring

LEMMA StoreContents ==
  ASSUME Control, Contents, Store
  PROVE  Contents'
<1> USE SerialAssumption
<1> DEFINE d == IF Full THEN 1 ELSE 0
<1>1. /\ BytesInRing = ulRxLength
      /\ BytesInRing' = RoomLength + 1
      /\ RoomLength \in 0..(N - 1)
      /\ \A i \in 0..(RoomLength - 1) :
           pRxBuffer'[(ulRxIndex' + i) % N] = pRxBuffer[Slot(IF Full THEN i + 1 ELSE i)]
      /\ pRxBuffer'[(ulRxIndex' + RoomLength) % N] = dr
  BY StoreAppends
<1>2. /\ dr # NoByte /\ dr' = NoByte /\ UNCHANGED <<nArrived, pc, rxne, pValue, lastRead>>
      /\ rxne
  BY DEF Store
<1>3. /\ ulRxLength \in 0..N /\ dr \in 0..MaxBytes /\ lastRead \in 0..MaxBytes
      /\ RoomLength + d = ulRxLength
  BY DEF Control, TypeOK, RoomLength, Full
<1>4. ASSUME NEW i \in 0..(RoomLength - 1)
      PROVE  /\ i + d \in 0..(ulRxLength - 1)
             /\ pRxBuffer'[(ulRxIndex' + i) % N] = pRxBuffer[Slot(i + d)]
  BY <1>1, <1>3, <1>4
<1>5. \A i \in 0..(RoomLength - 1) :
        LET b == pRxBuffer'[(ulRxIndex' + i) % N]
        IN  b > lastRead /\ b <= nArrived /\ b < dr
  BY <1>1, <1>2, <1>4 DEF Contents, RingInOrder, RegisterIsNewest
<1>6. \A i, j \in 0..(RoomLength - 1) :
        i < j => pRxBuffer'[(ulRxIndex' + i) % N] < pRxBuffer'[(ulRxIndex' + j) % N]
  <2>1. SUFFICES ASSUME NEW i \in 0..(RoomLength - 1), NEW j \in 0..(RoomLength - 1), i < j
                 PROVE  pRxBuffer'[(ulRxIndex' + i) % N] < pRxBuffer'[(ulRxIndex' + j) % N]
    OBVIOUS
  <2>2. i + d < j + d
    BY <2>1
  <2>3. pRxBuffer[Slot(i + d)] < pRxBuffer[Slot(j + d)]
    BY <1>1, <1>4, <2>1, <2>2 DEF Contents, RingInOrder
  <2>4. QED
    BY <1>4, <2>1, <2>3
<1>7. lastRead < dr /\ dr <= nArrived /\ lastRead <= nArrived
  BY <1>2 DEF Contents, RegisterIsNewest
<1>8. RingInOrder'
  <2>1. \A i \in 0..RoomLength : i \in 0..(RoomLength - 1) \/ i = RoomLength
    BY <1>1
  <2>2. \A i \in 0..RoomLength :
          pRxBuffer'[(ulRxIndex' + i) % N] > lastRead /\ pRxBuffer'[(ulRxIndex' + i) % N] <= nArrived
    BY <1>1, <1>5, <1>7, <2>1
  <2>3. \A i, j \in 0..RoomLength :
          i < j => pRxBuffer'[(ulRxIndex' + i) % N] < pRxBuffer'[(ulRxIndex' + j) % N]
    BY <1>1, <1>5, <1>6, <2>1
  <2>4. (RoomLength + 1) - 1 = RoomLength
    BY <1>1
  <2>5. QED
    BY <1>1, <1>2, <2>2, <2>3, <2>4 DEF RingInOrder, Slot
<1>9. ReadsHead'
  BY <1>2 DEF Control, MaskedOnlyWhileReading, Masked, ReadsHead
<1>10. RegisterIsNewest'
  BY <1>2, <1>7 DEF RegisterIsNewest, NoByte
<1>11. QED
  BY <1>8, <1>9, <1>10 DEF Contents

\* A read takes the oldest byte: the others keep their order.
LEMMA AdvanceTakesOldest ==
  ASSUME NEW t \in Readers, Control, Contents, Advance(t)
  PROVE  /\ UNCHANGED <<nArrived, dr, pRxBuffer, ulRxLength, pValue>>
         /\ pc' = [pc EXCEPT ![t] = "shorten"]
         /\ \A u \in Readers : u # t => pc[u] \notin Inside
         /\ ulRxLength \in 1..N /\ BytesInRing = ulRxLength
         /\ BytesInRing' = ulRxLength - 1
         /\ lastRead' = pRxBuffer[Slot(0)]
         /\ \A i \in 0..(ulRxLength - 2) : Slot(i)' = Slot(i + 1)
<1> USE SerialAssumption
<1>1. /\ pc[t] = "advance" /\ pc' = [pc EXCEPT ![t] = "shorten"]
      /\ ulRxIndex' = (ulRxIndex + 1) % N /\ lastRead' = pValue[t]
      /\ UNCHANGED <<nArrived, dr, pRxBuffer, ulRxLength, pValue>>
  BY DEF Advance, Goto, uart
<1>2. \A u \in Readers : u # t => pc[u] \notin Inside
  BY <1>1 DEF Inside, GetcSteps, Control, MutexHeldInside, Tasks
<1>3. /\ ulRxLength \in 1..N /\ ulRxIndex \in 0..(N - 1)
      /\ pRxBuffer \in [0..(N - 1) -> 0..MaxBytes]
  BY <1>1 DEF Control, TypeOK, ByteToTake
<1>4. BytesInRing = ulRxLength
  BY <1>1, <1>2 DEF BytesInRing, Inside, GetcSteps
<1>5. pc'[t] = "shorten"
  BY <1>1 DEF Control, TypeOK, Tasks
<1>6. BytesInRing' = ulRxLength - 1
  BY <1>1, <1>5 DEF BytesInRing
<1>7. \A i \in 0..(ulRxLength - 2) : Slot(i)' = Slot(i + 1)
  <2>1. SUFFICES ASSUME NEW i \in 0..(ulRxLength - 2)
                 PROVE  (ulRxIndex' + i) % N = (ulRxIndex + (i + 1)) % N
    BY DEF Slot
  <2>2. i \in 0..(N - 1)
    BY <1>3
  <2>3. QED
    BY <1>1, <1>3, <2>2, SlotOfNext
<1>8. Slot(0) = ulRxIndex
  <2>1. /\ ulRxIndex \in Nat /\ ulRxIndex < N /\ ulRxIndex < 2 * N
        /\ ulRxIndex + 0 = ulRxIndex
    BY <1>3
  <2>2. QED
    BY <2>1, ModUpToTwice DEF Slot
<1>9. lastRead' = pRxBuffer[Slot(0)]
  BY <1>1, <1>8 DEF Contents, ReadsHead
<1>10. QED
  BY <1>1, <1>2, <1>3, <1>4, <1>6, <1>7, <1>9

LEMMA NextContents == Control /\ Control' /\ Contents /\ [Next]_vars => Contents'
<1> SUFFICES ASSUME Control, Control', Contents, [Next]_vars PROVE Contents'
  OBVIOUS
<1> USE SerialAssumption
<1> USE DEF Goto, Return, uart, ring, call
<1>1. CASE Arrive
  <2>1. /\ BytesInRing' = BytesInRing /\ ReadsHead'
        /\ UNCHANGED <<pRxBuffer, ulRxIndex, lastRead>>
    BY <1>1 DEF Arrive, BytesInRing, Contents, ReadsHead
  <2>2. BytesInRing \in 0..N /\ BytesInRing <= ulRxLength
    BY BytesRange
  <2>3. /\ nArrived \in Nat /\ nArrived' = nArrived + 1
        /\ dr' = IF dr = NoByte THEN nArrived + 1 ELSE dr
    BY <1>1 DEF Arrive, Control, TypeOK
  <2>4. \A i \in 0..(BytesInRing - 1) :
          /\ Slot(i)' = Slot(i)
          /\ pRxBuffer[Slot(i)] \in Nat
          /\ pRxBuffer[Slot(i)] <= nArrived
    <3>1. SUFFICES ASSUME NEW i \in 0..(BytesInRing - 1)
                   PROVE  /\ Slot(i)' = Slot(i)
                          /\ pRxBuffer[Slot(i)] \in Nat
                          /\ pRxBuffer[Slot(i)] <= nArrived
      OBVIOUS
    <3>2. Slot(i) \in 0..(N - 1)
      <4>1. ulRxIndex \in Nat /\ i \in Nat
        BY <2>2 DEF Control, TypeOK
      <4>2. ulRxIndex + i \in Nat
        BY <4>1
      <4>3. QED
        BY <4>2, SlotInRange DEF Slot
    <3>3. pRxBuffer[Slot(i)] \in 0..MaxBytes
      BY <3>2 DEF Control, TypeOK
    <3>4. QED
      BY <2>1, <3>3 DEF Contents, RingInOrder, Slot
  <2>5. RingInOrder'
    BY <2>1, <2>3, <2>4 DEF Contents, RingInOrder, Slot
  <2>6. lastRead \in Nat /\ lastRead <= nArrived /\ dr \in Nat
    BY DEF Control, TypeOK, Contents, RegisterIsNewest
  <2>7. RegisterIsNewest'
    <3>1. CASE dr = NoByte
      BY <2>1, <2>3, <2>4, <2>6, <3>1 DEF RegisterIsNewest
    <3>2. CASE dr # NoByte
      BY <2>1, <2>3, <2>4, <2>6, <3>2 DEF Contents, RegisterIsNewest
    <3>3. QED
      BY <3>1, <3>2
  <2>8. QED
    BY <2>1, <2>5, <2>7 DEF Contents
<1>2. CASE IRQ
  BY <1>2, StoreContents DEF IRQ, USART1_IRQHandler, UART4_IRQHandler
<1>3. ASSUME NEW t \in Readers, CallRead(t)
      PROVE  Contents'
  BY <1>3, ControlFrame DEF CallRead, CallGetc, CallGets, Control, TypeOK, Tasks
<1>4. ASSUME NEW t \in Readers, SERIAL_gets(t)
      PROVE  Contents'
  <2>1. CASE GetsLoop(t)
    BY <2>1, ControlFrame DEF GetsLoop, Control, TypeOK, Tasks
  <2>2. CASE Deadline(t)
    BY <2>2, ControlFrame DEF Deadline, Control, TypeOK, Tasks
  <2>3. CASE Elapse(t)
    BY <2>3, ControlFrame DEF Elapse
  <2>4. QED
    BY <1>4, <2>1, <2>2, <2>3 DEF SERIAL_gets
<1>5. ASSUME NEW t \in Readers, SERIAL_getc(t)
      PROVE  Contents'
  <2> t \in Tasks
    BY DEF Tasks
  <2>1. CASE Take(t) \/ TakeTimeout(t) \/ Check(t) \/ Wait(t) \/ WaitTimeout(t)
    BY <2>1, ControlFrame DEF Take, TakeTimeout, Check, Wait, WaitTimeout, Control, TypeOK, Tasks
  <2>2. CASE Recheck(t) \/ Mask(t)
    BY <2>2, ControlFrame DEF Recheck, Mask, Control, TypeOK, Tasks
  <2>3. CASE Unmask(t) \/ Give(t)
    BY <2>3, ControlFrame DEF Unmask, Give, Control, TypeOK, Tasks
  <2>4. \A u \in Readers : u # t /\ pc[t] \in Inside => pc[u] \notin Inside
    BY DEF Control, MutexHeldInside, Tasks
  <2>5. CASE Read(t)
    <3>1. BytesInRing' = BytesInRing
      BY <2>5 DEF Read, BytesInRing, Control, TypeOK, Tasks
    <3>2. ReadsHead'
      BY <2>5 DEF Read, ReadsHead, Contents, Control, TypeOK, Tasks
    <3>3. QED
      BY <2>5, <3>1, <3>2, ContentsFrame DEF Read
  <2>6. CASE Advance(t)
    <3>1. /\ UNCHANGED <<nArrived, dr, pRxBuffer, ulRxLength, pValue>>
          /\ pc' = [pc EXCEPT ![t] = "shorten"]
          /\ \A u \in Readers : u # t => pc[u] \notin Inside
          /\ ulRxLength \in 1..N /\ BytesInRing = ulRxLength
          /\ BytesInRing' = ulRxLength - 1
          /\ lastRead' = pRxBuffer[Slot(0)]
          /\ \A i \in 0..(ulRxLength - 2) : Slot(i)' = Slot(i + 1)
      BY <2>6, AdvanceTakesOldest
    <3>2. \A i \in 0..(ulRxLength - 2) :
             pRxBuffer[Slot(i + 1)] > lastRead' /\ pRxBuffer[Slot(i + 1)] <= nArrived
      <4>1. \A i \in 0..(ulRxLength - 2) : i + 1 \in 0..(ulRxLength - 1) /\ 0 < i + 1
        BY <3>1
      <4>2. 0 \in 0..(ulRxLength - 1)
        BY <3>1
      <4>3. \A i \in 0..(ulRxLength - 2) :
              pRxBuffer[Slot(0)] < pRxBuffer[Slot(i + 1)] /\ pRxBuffer[Slot(i + 1)] <= nArrived
        BY <3>1, <4>1, <4>2 DEF Contents, RingInOrder
      <4>4. QED
        BY <3>1, <4>3
    <3>3. \A i, j \in 0..(ulRxLength - 2) :
             i < j => pRxBuffer[Slot(i + 1)] < pRxBuffer[Slot(j + 1)]
      <4>1. SUFFICES ASSUME NEW i \in 0..(ulRxLength - 2), NEW j \in 0..(ulRxLength - 2), i < j
                     PROVE  pRxBuffer[Slot(i + 1)] < pRxBuffer[Slot(j + 1)]
        OBVIOUS
      <4>2. i + 1 \in 0..(ulRxLength - 1) /\ j + 1 \in 0..(ulRxLength - 1) /\ i + 1 < j + 1
        BY <3>1, <4>1
      <4>3. QED
        BY <3>1, <4>2 DEF Contents, RingInOrder
    <3>4. (ulRxLength - 1) - 1 = ulRxLength - 2
      BY <3>1
    <3>5. RingInOrder'
      BY <3>1, <3>2, <3>3, <3>4 DEF RingInOrder
    <3>6. ReadsHead'
      BY <3>1 DEF ReadsHead, Inside, GetcSteps, Control, TypeOK
    <3>7. RegisterIsNewest'
      <4>1. 0 \in 0..(ulRxLength - 1)
        BY <3>1
      <4>2. lastRead' <= nArrived /\ (dr # NoByte => lastRead' < dr)
        BY <3>1, <4>1 DEF Contents, RingInOrder, RegisterIsNewest
      <4>3. dr # NoByte => \A i \in 0..(ulRxLength - 2) : pRxBuffer[Slot(i + 1)] < dr
        BY <3>1 DEF Contents, RegisterIsNewest
      <4>4. QED
        BY <3>1, <3>4, <4>2, <4>3 DEF Contents, RegisterIsNewest, NoByte
    <3>8. QED
      BY <3>5, <3>6, <3>7 DEF Contents
  <2>7. CASE Shorten(t)
    <3>1. /\ pc[t] = "shorten" /\ pc' = [pc EXCEPT ![t] = "unmask"]
          /\ ulRxLength' = ulRxLength - 1
          /\ UNCHANGED <<nArrived, dr, pRxBuffer, ulRxIndex, lastRead, pValue>>
      BY <2>7 DEF Shorten
    <3>2. \A u \in Readers : u # t => pc[u] \notin Inside
      BY <2>4, <3>1 DEF Inside, GetcSteps
    <3>3. \A u \in Readers : pc'[u] # "shorten" /\ pc'[u] # "advance"
      BY <3>1, <3>2 DEF Inside, GetcSteps, Control, TypeOK, Tasks
    <3>4. BytesInRing' = BytesInRing
      BY <3>1, <3>3 DEF BytesInRing
    <3>5. ReadsHead'
      BY <3>3 DEF ReadsHead
    <3>6. QED
      BY <3>1, <3>4, <3>5, ContentsFrame
  <2>8. QED
    BY <1>5, <2>1, <2>2, <2>3, <2>5, <2>6, <2>7 DEF SERIAL_getc
<1>6. ASSUME NEW t \in Tasks, SERIAL_puts(t)
      PROVE  Contents'
  BY <1>6, ControlFrame DEF SERIAL_puts, CallPuts, PutTake, Transmit, Control, TypeOK, Tasks
<1>7. CASE UNCHANGED vars
  BY <1>7, ControlFrame DEF vars
<1>8. QED
  BY <1>1, <1>2, <1>3, <1>4, <1>5, <1>6, <1>7 DEF Next

LEMMA ContentsHold == Spec => [](Control /\ Contents)
  BY InitControl, NextControl, InitContents, NextContents, PTL DEF Spec

\* The ring holds received bytes, in order, all newer than the last one read.
THEOREM RingStaysInOrder == Spec => []RingInOrder
<1>1. Contents => RingInOrder
  BY DEF Contents
<1>2. QED
  BY <1>1, ContentsHold, PTL

\* SERIAL_getc times out only when the ring is empty.
THEOREM TimesOutOnlyWhenEmpty == Spec => GivesUpOnlyWhenEmpty
<1>1. Control /\ [Next]_vars => [\A t \in Readers : WaitTimeout(t) => ulRxLength = 0]_vars
  BY DEF Control, TypeOK, NoLostWakeup, WaitTimeout
<1>2. QED
  BY <1>1, ControlHolds, PTL DEF Spec, GivesUpOnlyWhenEmpty

(***************************************************************************)
(* The port implements the abstract byte line                              *)
(***************************************************************************)

\* A step is the handler storing a byte, a reader taking one, or it changes
\* nothing of what the next reads will see.
LEMMA StepKinds ==
  ASSUME Control, Control', Contents, [Next]_vars
  PROVE  \/ Store
         \/ \E t \in Readers : Advance(t)
         \/ /\ UNCHANGED <<pRxBuffer, ulRxIndex, lastRead>>
            /\ BytesInRing' = BytesInRing
<1> USE DEF Goto, Return, uart, ring, call
<1> DEFINE Quiet == /\ UNCHANGED <<pRxBuffer, ulRxIndex, lastRead>>
                    /\ BytesInRing' = BytesInRing
<1>0. ASSUME UNCHANGED <<ring, lastRead>>,
             \A u \in Readers : pc'[u] = "shorten" <=> pc[u] = "shorten"
      PROVE  Quiet
  BY <1>0 DEF BytesInRing
<1>1. CASE Arrive
  BY <1>0, <1>1 DEF Arrive
<1>2. CASE IRQ
  BY <1>2 DEF IRQ, USART1_IRQHandler, UART4_IRQHandler
<1>3. ASSUME NEW t \in Readers, CallRead(t)
      PROVE  Quiet
  BY <1>0, <1>3 DEF CallRead, CallGetc, CallGets, Control, TypeOK, Tasks
<1>4. ASSUME NEW t \in Readers, SERIAL_gets(t)
      PROVE  Quiet
  BY <1>0, <1>4 DEF SERIAL_gets, GetsLoop, Deadline, Elapse, Control, TypeOK, Tasks
<1>5. ASSUME NEW t \in Readers, SERIAL_getc(t), ~Advance(t)
      PROVE  Quiet
  <2> t \in Tasks
    BY DEF Tasks
  <2>1. CASE Take(t) \/ TakeTimeout(t) \/ Check(t) \/ Wait(t) \/ WaitTimeout(t)
    BY <1>0, <2>1 DEF Take, TakeTimeout, Check, Wait, WaitTimeout, Control, TypeOK, Tasks
  <2>2. CASE Recheck(t) \/ Mask(t) \/ Read(t)
    BY <1>0, <2>2 DEF Recheck, Mask, Read, Control, TypeOK, Tasks
  <2>3. CASE Unmask(t) \/ Give(t)
    BY <1>0, <2>3 DEF Unmask, Give, Control, TypeOK, Tasks
  <2>4. CASE Shorten(t)
    <3>1. /\ pc[t] = "shorten" /\ pc' = [pc EXCEPT ![t] = "unmask"]
          /\ ulRxLength' = ulRxLength - 1
          /\ UNCHANGED <<pRxBuffer, ulRxIndex, lastRead>>
      BY <2>4 DEF Shorten
    <3>2. \A u \in Readers : u # t => pc[u] \notin Inside
      BY <3>1 DEF Inside, GetcSteps, Control, MutexHeldInside, Tasks
    <3>3. \A u \in Readers : pc'[u] # "shorten"
      BY <3>1, <3>2 DEF Inside, GetcSteps, Control, TypeOK, Tasks
    <3>4. QED
      BY <3>1, <3>3 DEF BytesInRing
  <2>5. QED
    BY <1>5, <2>1, <2>2, <2>3, <2>4 DEF SERIAL_getc
<1>6. ASSUME NEW t \in Tasks, SERIAL_puts(t)
      PROVE  Quiet
  BY <1>0, <1>6 DEF SERIAL_puts, CallPuts, PutTake, Transmit, Control, TypeOK, Tasks
<1>7. CASE UNCHANGED vars
  BY <1>0, <1>7 DEF vars
<1>8. QED
  BY <1>1, <1>2, <1>3, <1>4, <1>5, <1>6, <1>7 DEF Next

\* The bytes of the ring, oldest first: the value of Fifo's variable fifo.
Line == [i \in 1..BytesInRing |-> pRxBuffer[Slot(i - 1)]]

LEMMA LineIsSequence ==
  ASSUME Control, Contents
  PROVE  /\ BytesInRing \in 0..N
         /\ Line \in Seq(0..MaxBytes)
         /\ Len(Line) = BytesInRing
         /\ \A i \in 1..BytesInRing : Line[i] = pRxBuffer[Slot(i - 1)]
<1> USE SerialAssumption
<1>1. BytesInRing \in 0..N
  BY BytesRange
<1>2. \A i \in 1..BytesInRing : pRxBuffer[Slot(i - 1)] \in 0..MaxBytes
  <2>1. SUFFICES ASSUME NEW i \in 1..BytesInRing
                 PROVE  pRxBuffer[Slot(i - 1)] \in 0..MaxBytes
    OBVIOUS
  <2>2. ulRxIndex \in Nat /\ i - 1 \in Nat
    BY <1>1 DEF Control, TypeOK
  <2>3. ulRxIndex + (i - 1) \in Nat
    BY <2>2
  <2>4. Slot(i - 1) \in 0..(N - 1)
    BY <2>3, SlotInRange DEF Slot
  <2>5. QED
    BY <2>4 DEF Control, TypeOK
<1>3. QED
  BY <1>1, <1>2 DEF Line

LEMMA InitLine == Init => Line = <<>> /\ lastRead = 0
<1> SUFFICES ASSUME Init PROVE Line = <<>> /\ lastRead = 0
  OBVIOUS
<1>1. BytesInRing = 0
  BY DEF Init, BytesInRing, Tasks
<1>2. QED
  BY <1>1 DEF Init, Line, NoByte

\* Storing a byte appends it; a full line first loses its oldest byte.
LEMMA StoreReceives ==
  ASSUME Control, Control', Contents, Contents', Store
  PROVE  /\ dr \in 1..MaxBytes /\ dr > lastRead /\ lastRead' = lastRead
         /\ \A i \in DOMAIN Line : dr > Line[i]
         /\ Line' = Append(IF Len(Line) = N THEN Tail(Line) ELSE Line, dr)
<1> USE SerialAssumption
<1>1. /\ BytesInRing = ulRxLength
      /\ BytesInRing' = RoomLength + 1
      /\ RoomLength \in 0..(N - 1)
      /\ \A i \in 0..(RoomLength - 1) :
           pRxBuffer'[(ulRxIndex' + i) % N] = pRxBuffer[Slot(IF Full THEN i + 1 ELSE i)]
      /\ pRxBuffer'[(ulRxIndex' + RoomLength) % N] = dr
  BY StoreAppends
<1>2. /\ BytesInRing \in 0..N /\ Line \in Seq(0..MaxBytes) /\ Len(Line) = BytesInRing
      /\ \A i \in 1..BytesInRing : Line[i] = pRxBuffer[Slot(i - 1)]
  BY LineIsSequence
<1>3. dr # NoByte /\ lastRead' = lastRead /\ dr \in 0..MaxBytes
  BY DEF Store, Control, TypeOK
<1>4. dr \in 1..MaxBytes /\ dr > lastRead
  BY <1>3 DEF Contents, RegisterIsNewest, NoByte, Control, TypeOK
<1>5. \A i \in DOMAIN Line : dr > Line[i]
  <2>1. SUFFICES ASSUME NEW i \in 1..BytesInRing PROVE dr > Line[i]
    BY <1>2
  <2>2. i - 1 \in 0..(BytesInRing - 1)
    BY <1>2
  <2>3. pRxBuffer[Slot(i - 1)] < dr
    BY <1>3, <2>2 DEF Contents, RegisterIsNewest
  <2>4. Line[i] \in 0..MaxBytes
    BY <1>2
  <2>5. QED
    BY <1>2, <1>3, <2>3, <2>4
<1> DEFINE Rest == IF Len(Line) = N THEN Tail(Line) ELSE Line
<1>6. /\ Rest \in Seq(0..MaxBytes)
      /\ Len(Rest) = RoomLength
      /\ \A i \in 1..RoomLength : Rest[i] = pRxBuffer[Slot(IF Full THEN i ELSE i - 1)]
  <2>1. CASE Full
    <3>1. Len(Line) = N /\ RoomLength = N - 1 /\ Rest = Tail(Line)
      BY <1>1, <1>2, <2>1 DEF Full, RoomLength
    <3>2. Line # <<>>
      BY <1>2, <3>1
    <3>3. /\ Tail(Line) \in Seq(0..MaxBytes) /\ Len(Tail(Line)) = N - 1
          /\ \A i \in 1..(N - 1) : Tail(Line)[i] = Line[i + 1]
      BY <1>2, <3>1, <3>2
    <3>4. \A i \in 1..(N - 1) : Line[i + 1] = pRxBuffer[Slot(i)]
      <4>1. SUFFICES ASSUME NEW i \in 1..(N - 1) PROVE Line[i + 1] = pRxBuffer[Slot(i)]
        OBVIOUS
      <4>2. i + 1 \in 1..BytesInRing /\ (i + 1) - 1 = i
        BY <1>2, <3>1
      <4>3. QED
        BY <1>2, <4>2
    <3>5. QED
      BY <2>1, <3>1, <3>3, <3>4
  <2>2. CASE ~Full
    BY <1>1, <1>2, <2>2 DEF Full, RoomLength
  <2>3. QED
    BY <2>1, <2>2
<1>7. Line' = [i \in 1..(RoomLength + 1) |-> pRxBuffer'[(ulRxIndex' + (i - 1)) % N]]
  BY <1>1 DEF Line, Slot
<1>8. Append(Rest, dr) = [i \in 1..(RoomLength + 1) |-> IF i = RoomLength + 1 THEN dr ELSE Rest[i]]
  <2> HIDE DEF Rest
  <2> DEFINE a1 == Append(Rest, dr)
             a2 == [i \in 1..(RoomLength + 1) |-> IF i = RoomLength + 1 THEN dr ELSE Rest[i]]
  <2>1. /\ a1 \in Seq(0..MaxBytes) /\ Len(a1) = RoomLength + 1
        /\ \A i \in 1..RoomLength : a1[i] = Rest[i]
        /\ a1[RoomLength + 1] = dr
    BY <1>3, <1>6, AppendProperties
  <2>2. \A i \in 1..RoomLength : Rest[i] \in 0..MaxBytes
    BY <1>6
  <2>3. /\ a2 \in Seq(0..MaxBytes) /\ Len(a2) = RoomLength + 1
        /\ \A i \in 1..RoomLength : a2[i] = Rest[i]
        /\ a2[RoomLength + 1] = dr
    BY <1>1, <1>3, <2>2
  <2> HIDE DEF a1, a2
  <2>4. \A i \in 1..Len(a1) : a1[i] = a2[i]
    <3>1. \A i \in 1..(RoomLength + 1) : i \in 1..RoomLength \/ i = RoomLength + 1
      BY <1>1
    <3>2. QED
      BY <2>1, <2>3, <3>1
  <2>5. a1 = a2
    BY <2>1, <2>3, <2>4, SeqEqual
  <2>6. QED
    BY <2>5 DEF a1, a2
<1>9. \A i \in 1..(RoomLength + 1) :
        pRxBuffer'[(ulRxIndex' + (i - 1)) % N] = IF i = RoomLength + 1 THEN dr ELSE Rest[i]
  <2> HIDE DEF Rest
  <2>1. SUFFICES ASSUME NEW i \in 1..(RoomLength + 1)
                 PROVE  pRxBuffer'[(ulRxIndex' + (i - 1)) % N]
                          = IF i = RoomLength + 1 THEN dr ELSE Rest[i]
    OBVIOUS
  <2>2. CASE i = RoomLength + 1
    <3>1. i - 1 = RoomLength
      BY <1>1, <2>2
    <3>2. QED
      BY <1>1, <2>2, <3>1
  <2>3. CASE i # RoomLength + 1
    <3>1. i \in 1..RoomLength /\ i - 1 \in 0..(RoomLength - 1) /\ (i - 1) + 1 = i
      BY <1>1, <2>3
    <3>2. pRxBuffer'[(ulRxIndex' + (i - 1)) % N] = pRxBuffer[Slot(IF Full THEN i ELSE i - 1)]
      BY <1>1, <3>1
    <3>3. QED
      BY <1>6, <2>3, <3>1, <3>2
  <2>4. QED
    BY <2>2, <2>3
<1>10. Line' = Append(Rest, dr)
  <2> HIDE DEF Rest
  <2>1. QED
    BY <1>7, <1>8, <1>9
<1>11. QED
  BY <1>3, <1>4, <1>5, <1>10

\* Moving the index takes the head of the line.
LEMMA AdvanceReads ==
  ASSUME NEW t \in Readers, Control, Control', Contents, Contents', Advance(t)
  PROVE  Line # <<>> /\ lastRead' = Head(Line) /\ Line' = Tail(Line)
<1> USE SerialAssumption
<1>1. /\ UNCHANGED <<pRxBuffer, ulRxLength>>
      /\ ulRxLength \in 1..N /\ BytesInRing = ulRxLength
      /\ BytesInRing' = ulRxLength - 1
      /\ lastRead' = pRxBuffer[Slot(0)]
      /\ \A i \in 0..(ulRxLength - 2) : Slot(i)' = Slot(i + 1)
  BY AdvanceTakesOldest
<1>2. /\ Line \in Seq(0..MaxBytes) /\ Len(Line) = ulRxLength
      /\ \A i \in 1..ulRxLength : Line[i] = pRxBuffer[Slot(i - 1)]
  BY <1>1, LineIsSequence
<1>3. Line # <<>> /\ lastRead' = Head(Line)
  BY <1>1, <1>2
<1>4. Tail(Line) = [i \in 1..(ulRxLength - 1) |-> Line[i + 1]]
  <2> DEFINE t1 == Tail(Line)
             t2 == [i \in 1..(ulRxLength - 1) |-> Line[i + 1]]
  <2>1. /\ t1 \in Seq(0..MaxBytes) /\ Len(t1) = ulRxLength - 1
        /\ \A i \in 1..Len(t1) : t1[i] = Line[i + 1]
    BY <1>2, <1>3, HeadTailProperties
  <2>2. /\ t2 \in Seq(0..MaxBytes) /\ Len(t2) = ulRxLength - 1
        /\ \A i \in 1..(ulRxLength - 1) : t2[i] = Line[i + 1]
    <3>1. \A i \in 1..(ulRxLength - 1) : Line[i + 1] \in 0..MaxBytes
      BY <1>1, <1>2
    <3>2. QED
      BY <1>1, <3>1
  <2> HIDE DEF t1, t2
  <2>3. t1 = t2
    BY <2>1, <2>2, SeqEqual
  <2>4. QED
    BY <2>3 DEF t1, t2
<1>5. Line' = [i \in 1..(ulRxLength - 1) |-> pRxBuffer[Slot(i - 1)']]
  BY <1>1 DEF Line, Slot
<1>6. \A i \in 1..(ulRxLength - 1) : pRxBuffer[Slot(i - 1)'] = Line[i + 1]
  <2>1. SUFFICES ASSUME NEW i \in 1..(ulRxLength - 1)
                 PROVE  pRxBuffer[Slot(i - 1)'] = Line[i + 1]
    OBVIOUS
  <2>2. i - 1 \in 0..(ulRxLength - 2) /\ (i - 1) + 1 = i
    BY <1>1
  <2>3. Slot(i - 1)' = Slot(i)
    BY <1>1, <2>2
  <2>4. i + 1 \in 1..ulRxLength /\ (i + 1) - 1 = i
    BY <1>1
  <2>5. QED
    BY <1>2, <2>3, <2>4
<1>7. QED
  BY <1>3, <1>4, <1>5, <1>6

\* Every step of the port is a step of the byte line or changes nothing of it:
\* the ring, its mutex and its token implement a bounded line that loses the
\* oldest byte when full and hands out every other byte once and in order.
THEOREM PortImplementsByteFifo == Spec => ImplementsByteFifo
<1>1. Init => Fifo!Init
  BY InitLine DEF Fifo!Init, Line
<1>2. Control /\ Control' /\ Contents /\ Contents' /\ [Next]_vars => [Fifo!Next]_(Fifo!vars)
  <2> SUFFICES ASSUME Control, Control', Contents, Contents', [Next]_vars
               PROVE  [Fifo!Next]_(Fifo!vars)
    OBVIOUS
  <2>1. CASE Store
    <3>1. Fifo!Receive(dr)
      BY <2>1, StoreReceives DEF Fifo!Receive, Fifo!Newer, Line
    <3>2. QED
      BY <2>1, <3>1, StoreReceives DEF Fifo!Next
  <2>2. ASSUME NEW t \in Readers, Advance(t)
        PROVE  Fifo!Next
    BY <2>2, AdvanceReads DEF Fifo!Next, Fifo!Read, Line
  <2>3. CASE UNCHANGED <<pRxBuffer, ulRxIndex, lastRead>> /\ BytesInRing' = BytesInRing
    BY <2>3 DEF Fifo!vars, Slot
  <2>4. QED
    BY <2>1, <2>2, <2>3, StepKinds
<1>3. QED
  BY <1>1, <1>2, ContentsHold, PTL DEF Spec, ImplementsByteFifo, Fifo!Spec

=============================================================================
