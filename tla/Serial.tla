------------------------------- MODULE Serial -------------------------------
(***************************************************************************)
(* One UART of the counter gateway, src/Src/serial.c: the receive ring     *)
(* that the interrupt handler fills and SERIAL_getc drains, the mutex that *)
(* serialises the tasks using the port, and the binary semaphore xRxWait   *)
(* that wakes a waiting reader.                                            *)
(*                                                                         *)
(* A task is preempted between any two steps; an interrupt handler runs to *)
(* its end before any task continues (one NVIC priority for every UART     *)
(* handler, above all tasks).  A step of SERIAL_getc is one access to      *)
(* shared state; pc names the next one.  A byte is its number in the order *)
(* of arrival on the wire.                                                 *)
(***************************************************************************)
EXTENDS Naturals, FiniteSets, Sequences

CONSTANTS N,            \* ulRxBufferLength
          MaxBytes,     \* bound: bytes that arrive on the wire
          MaxSize,      \* bound: ulSize of a SERIAL_gets call
          Readers,      \* the task that reads the port (and echoes to it)
          Writers,      \* the tasks that only print to it
          NoTask        \* no task holds the mutex

ASSUME SerialAssumption ==
  /\ N \in Nat \ {0}
  /\ MaxBytes \in Nat
  /\ MaxSize \in Nat
  /\ NoTask \notin Readers \cup Writers

Tasks == Readers \cup Writers
NoByte == 0

VARIABLES
  xPort,        \* "USART1" (the counter) or "UART4" (the console)
  nArrived,     \* bytes the wire has carried so far
  dr,           \* the UART's data register; a byte in it is the RXNE flag
  rxne,         \* is the receive interrupt enabled (UART_IT_RXNE)?
  pRxBuffer,    \* the ring's slots
  ulRxIndex,    \* the slot of the oldest byte
  ulRxLength,   \* the number of bytes in the ring
  xRxWait,      \* tokens in the binary semaphore
  xSemaphore,   \* the task that holds the mutex
  pc,           \* the next step of each task
  pValue,       \* the caller's variable SERIAL_getc stores into
  ulSize,       \* size asked of SERIAL_gets; 0 in a plain SERIAL_getc
  ulCount,      \* bytes SERIAL_gets has so far
  expired,      \* has SERIAL_gets' block time passed?
  lastRead      \* history: the byte that left the ring last through a read

uart == <<nArrived, dr>>
ring == <<pRxBuffer, ulRxIndex, ulRxLength>>
call == <<ulSize, ulCount, expired>>
vars == <<xPort, nArrived, dr, rxne, pRxBuffer, ulRxIndex, ulRxLength, xRxWait,
          xSemaphore, pc, pValue, ulSize, ulCount, expired, lastRead>>

GetcSteps == {"take", "check", "wait", "recheck", "mask", "read", "advance",
              "shorten", "unmask", "give"}
\* The steps at which a task holds the port's mutex.
Inside == (GetcSteps \ {"take"}) \cup {"transmit"}
\* The steps between __HAL_UART_DISABLE_IT and __HAL_UART_ENABLE_IT.
Masked == {"read", "advance", "shorten", "unmask"}
GetsSteps == {"gets", "deadline"} \cup GetcSteps
Steps == {"idle", "puttake", "transmit"} \cup GetsSteps

TypeOK ==
  /\ xPort \in {"USART1", "UART4"}
  /\ nArrived \in 0..MaxBytes
  /\ dr \in 0..MaxBytes
  /\ rxne \in BOOLEAN
  /\ pRxBuffer \in [0..(N - 1) -> 0..MaxBytes]
  /\ ulRxIndex \in 0..(N - 1)
  /\ ulRxLength \in 0..N
  /\ xRxWait \in {0, 1}
  /\ xSemaphore \in Tasks \cup {NoTask}
  /\ pc \in [Tasks -> Steps]
  /\ pValue \in [Tasks -> 0..MaxBytes]
  /\ ulSize \in [Tasks -> 0..MaxSize]
  /\ ulCount \in [Tasks -> 0..MaxSize]
  /\ expired \in [Tasks -> BOOLEAN]
  /\ lastRead \in 0..MaxBytes

\* A port SERIAL_open has just opened: both semaphores created, the token
\* taken, the ring empty and reception armed.
Init ==
  /\ xPort \in {"USART1", "UART4"}
  /\ nArrived = 0
  /\ dr = NoByte
  /\ rxne = TRUE
  /\ pRxBuffer = [i \in 0..(N - 1) |-> NoByte]
  /\ ulRxIndex = 0
  /\ ulRxLength = 0
  /\ xRxWait = 0
  /\ xSemaphore = NoTask
  /\ pc = [t \in Tasks |-> "idle"]
  /\ pValue = [t \in Tasks |-> NoByte]
  /\ ulSize = [t \in Tasks |-> 0]
  /\ ulCount = [t \in Tasks |-> 0]
  /\ expired = [t \in Tasks |-> FALSE]
  /\ lastRead = NoByte

Goto(t, step) == pc' = [pc EXCEPT ![t] = step]

(***************************************************************************)
(* The wire and the interrupt handlers                                     *)
(***************************************************************************)

\* The UART receives a byte.  One that comes before the previous one was
\* taken out of the data register is lost (receiver overrun).
Arrive ==
  /\ nArrived < MaxBytes
  /\ nArrived' = nArrived + 1
  /\ dr' = IF dr = NoByte THEN nArrived' ELSE dr
  /\ UNCHANGED <<xPort, rxne, ring, xRxWait, xSemaphore, pc, pValue, call, lastRead>>

\* The ring after the handler has made room: a full ring loses its oldest byte.
Full == ulRxLength = N
\* Mutant: a full ring drops its newest byte: the index is not moved.
RoomIndexKept == ulRxIndex
RoomIndex == IF Full THEN (ulRxIndex + 1) % N ELSE ulRxIndex
RoomLength == IF Full THEN ulRxLength - 1 ELSE ulRxLength

\* What both handlers do to the ring: make room, append the received byte.
Store ==
  /\ rxne /\ dr # NoByte
  /\ pRxBuffer' = [pRxBuffer EXCEPT ![(RoomIndex + RoomLength) % N] = dr]
  /\ ulRxIndex' = RoomIndex
  /\ ulRxLength' = RoomLength + 1
  /\ dr' = NoByte
  /\ UNCHANGED <<xPort, nArrived, rxne, xSemaphore, pc, pValue, call, lastRead>>

\* Gives the token if the ring holds one byte after the byte is stored.
USART1_IRQHandler ==
  /\ Store
  /\ xRxWait' = IF RoomLength + 1 = 1 THEN 1 ELSE xRxWait

\* Mutant: the test for an empty ring is moved behind the store.
UART4_TestsTooLate ==
  /\ Store
  /\ xRxWait' = IF RoomLength + 1 = 0 THEN 1 ELSE xRxWait

\* Gives the token if the ring is empty before the byte is stored.
UART4_IRQHandler ==
  /\ Store
  /\ xRxWait' = IF RoomLength = 0 THEN 1 ELSE xRxWait

IRQ == \/ xPort = "USART1" /\ USART1_IRQHandler
       \/ xPort = "UART4" /\ UART4_IRQHandler

(***************************************************************************)
(* SERIAL_getc and SERIAL_gets                                             *)
(***************************************************************************)

CallGetc(t) ==
  /\ pc[t] = "idle"
  /\ Goto(t, "take")
  /\ UNCHANGED <<xPort, uart, rxne, ring, xRxWait, xSemaphore, pValue, call, lastRead>>

CallGets(t, size) ==
  /\ pc[t] = "idle"
  /\ Goto(t, "gets")
  /\ ulSize' = [ulSize EXCEPT ![t] = size]
  /\ ulCount' = [ulCount EXCEPT ![t] = 0]
  /\ expired' = [expired EXCEPT ![t] = FALSE]
  /\ UNCHANGED <<xPort, uart, rxne, ring, xRxWait, xSemaphore, pValue, lastRead>>

\* while (ulCount < ulSize): another SERIAL_getc, or return.
GetsLoop(t) ==
  /\ pc[t] = "gets"
  /\ Goto(t, IF ulCount[t] < ulSize[t] THEN "take" ELSE "idle")
  /\ ulSize' = [ulSize EXCEPT ![t] = IF ulCount[t] < ulSize[t] THEN @ ELSE 0]
  /\ UNCHANGED <<xPort, uart, rxne, ring, xRxWait, xSemaphore, pValue, ulCount, expired, lastRead>>

\* Mutant: SERIAL_gets tries until it has every byte.
DeadlineForgotten(t) ==
  /\ pc[t] = "deadline"
  /\ Goto(t, "gets")
  /\ UNCHANGED <<xPort, uart, rxne, ring, xRxWait, xSemaphore, pValue, call, lastRead>>

\* The test of the block time at the end of the loop's body.
Deadline(t) ==
  /\ pc[t] = "deadline"
  /\ Goto(t, IF expired[t] THEN "idle" ELSE "gets")
  /\ ulSize' = [ulSize EXCEPT ![t] = IF expired[t] THEN 0 ELSE @]
  /\ UNCHANGED <<xPort, uart, rxne, ring, xRxWait, xSemaphore, pValue, ulCount, expired, lastRead>>

\* xBlockTime ticks have gone by since SERIAL_gets started.
Elapse(t) ==
  /\ ulSize[t] > 0 /\ ~expired[t]
  /\ expired' = [expired EXCEPT ![t] = TRUE]
  /\ UNCHANGED <<xPort, uart, rxne, ring, xRxWait, xSemaphore, pc, pValue, ulSize, ulCount, lastRead>>

\* Where SERIAL_getc returns to: its caller, or the loop of SERIAL_gets.
Return(t) == Goto(t, IF ulSize[t] = 0 THEN "idle" ELSE "deadline")

Take(t) ==
  /\ pc[t] = "take"
  /\ xSemaphore = NoTask
  /\ xSemaphore' = t
  /\ Goto(t, "check")
  /\ UNCHANGED <<xPort, uart, rxne, ring, xRxWait, pValue, call, lastRead>>

\* A finite block time ends while another task holds the mutex: RET_ERROR.
TakeTimeout(t) ==
  /\ pc[t] = "take"
  /\ xSemaphore # NoTask
  /\ Return(t)
  /\ UNCHANGED <<xPort, uart, rxne, ring, xRxWait, xSemaphore, pValue, call, lastRead>>

Check(t) ==
  /\ pc[t] = "check"
  /\ Goto(t, IF ulRxLength = 0 THEN "wait" ELSE "recheck")
  /\ UNCHANGED <<xPort, uart, rxne, ring, xRxWait, xSemaphore, pValue, call, lastRead>>

Wait(t) ==
  /\ pc[t] = "wait"
  /\ xRxWait = 1
  /\ xRxWait' = 0
  /\ Goto(t, "recheck")
  /\ UNCHANGED <<xPort, uart, rxne, ring, xSemaphore, pValue, call, lastRead>>

\* Mutant: the error return of the wait keeps the mutex.
WaitTimeoutKeepsMutex(t) ==
  /\ pc[t] = "wait"
  /\ xRxWait = 0
  /\ Return(t)
  /\ UNCHANGED <<xPort, uart, rxne, ring, xRxWait, xSemaphore, pValue, call, lastRead>>

\* The kernel reports a timeout only if the token is still missing.
WaitTimeout(t) ==
  /\ pc[t] = "wait"
  /\ xRxWait = 0
  /\ xSemaphore' = NoTask
  /\ Return(t)
  /\ UNCHANGED <<xPort, uart, rxne, ring, xRxWait, pValue, call, lastRead>>

\* Mutant: the error return for a stale token keeps the mutex.
RecheckKeepsMutex(t) ==
  /\ pc[t] = "recheck"
  /\ IF ulRxLength = 0 THEN Return(t) ELSE Goto(t, "mask")
  /\ UNCHANGED <<xPort, uart, rxne, ring, xRxWait, xSemaphore, pValue, call, lastRead>>

\* An empty ring here means that the token was a stale one: RET_ERROR.
Recheck(t) ==
  /\ pc[t] = "recheck"
  /\ IF ulRxLength = 0
       THEN xSemaphore' = NoTask /\ Return(t)
       ELSE UNCHANGED xSemaphore /\ Goto(t, "mask")
  /\ UNCHANGED <<xPort, uart, rxne, ring, xRxWait, pValue, call, lastRead>>

Mask(t) ==
  /\ pc[t] = "mask"
  /\ rxne' = FALSE
  /\ Goto(t, "read")
  /\ UNCHANGED <<xPort, uart, ring, xRxWait, xSemaphore, pValue, call, lastRead>>

Read(t) ==
  /\ pc[t] = "read"
  /\ pValue' = [pValue EXCEPT ![t] = pRxBuffer[ulRxIndex]]
  /\ Goto(t, "advance")
  /\ UNCHANGED <<xPort, uart, rxne, ring, xRxWait, xSemaphore, call, lastRead>>

Advance(t) ==
  /\ pc[t] = "advance"
  /\ ulRxIndex' = (ulRxIndex + 1) % N
  /\ lastRead' = pValue[t]
  /\ Goto(t, "shorten")
  /\ UNCHANGED <<xPort, uart, rxne, pRxBuffer, ulRxLength, xRxWait, xSemaphore, pValue, call>>

Shorten(t) ==
  /\ pc[t] = "shorten"
  /\ ulRxLength' = ulRxLength - 1
  /\ Goto(t, "unmask")
  /\ UNCHANGED <<xPort, uart, rxne, pRxBuffer, ulRxIndex, xRxWait, xSemaphore, pValue, call, lastRead>>

Unmask(t) ==
  /\ pc[t] = "unmask"
  /\ rxne' = TRUE
  /\ Goto(t, "give")
  /\ UNCHANGED <<xPort, uart, ring, xRxWait, xSemaphore, pValue, call, lastRead>>

\* RET_OK; SERIAL_gets counts the byte.
Give(t) ==
  /\ pc[t] = "give"
  /\ xSemaphore' = NoTask
  /\ ulCount' = [ulCount EXCEPT ![t] = IF ulSize[t] = 0 THEN @ ELSE @ + 1]
  /\ Return(t)
  /\ UNCHANGED <<xPort, uart, rxne, ring, xRxWait, pValue, ulSize, expired, lastRead>>

(***************************************************************************)
(* SERIAL_puts, SERIAL_putc and SERIAL_printf: every caller passes         *)
(* HAL_MAX_DELAY, so the mutex is waited for without a timeout.            *)
(***************************************************************************)

CallPuts(t) ==
  /\ pc[t] = "idle"
  /\ Goto(t, "puttake")
  /\ UNCHANGED <<xPort, uart, rxne, ring, xRxWait, xSemaphore, pValue, call, lastRead>>

PutTake(t) ==
  /\ pc[t] = "puttake"
  /\ xSemaphore = NoTask
  /\ xSemaphore' = t
  /\ Goto(t, "transmit")
  /\ UNCHANGED <<xPort, uart, rxne, ring, xRxWait, pValue, call, lastRead>>

\* HAL_UART_Transmit polls the bytes out; then the mutex is given back.
Transmit(t) ==
  /\ pc[t] = "transmit"
  /\ xSemaphore' = NoTask
  /\ Goto(t, "idle")
  /\ UNCHANGED <<xPort, uart, rxne, ring, xRxWait, pValue, call, lastRead>>

-----------------------------------------------------------------------------

SERIAL_getc(t) ==
  \/ Take(t) \/ TakeTimeout(t) \/ Check(t) \/ Wait(t) \/ WaitTimeout(t)
  \/ Recheck(t) \/ Mask(t) \/ Read(t) \/ Advance(t) \/ Shorten(t)
  \/ Unmask(t) \/ Give(t)

SERIAL_gets(t) == GetsLoop(t) \/ Deadline(t) \/ Elapse(t)

SERIAL_puts(t) == CallPuts(t) \/ PutTake(t) \/ Transmit(t)

CallRead(t) == CallGetc(t) \/ \E size \in 1..MaxSize : CallGets(t, size)

Next ==
  \/ Arrive
  \/ IRQ
  \/ \E t \in Readers : CallRead(t) \/ SERIAL_getc(t) \/ SERIAL_gets(t)
  \/ \E t \in Tasks : SERIAL_puts(t)

Spec == Init /\ [][Next]_vars

(***************************************************************************)
(* Fairness.  The handler runs when RXNE is pending; a task that can run   *)
(* does; block times are finite.  A task that waits for the mutex without  *)
(* a timeout gets it if it becomes free again and again: the kernel makes  *)
(* the waiter ready on every give and time-slices tasks of one priority.   *)
(* The reader's loop (SHELL_getLine, CNTIF_main) prints a little and calls *)
(* for the next byte, forever.                                             *)
(*                                                                         *)
(* SERIAL_getc waits for the mutex for a bounded time only, so being       *)
(* scheduled is not enough: every call might fall into another task's      *)
(* transmission.  NotShutOut excludes that as long as the mutex is given   *)
(* back: the task that prints sleeps 100 ticks after each report           *)
(* (serverif.c:243), the reader calls again after 1 to 10 (shell.c:558,    *)
(* counterif.c:91).                                                        *)
(***************************************************************************)
NotShutOut(t) ==
  []<>(pc[t] = "take") /\ []<>(xSemaphore = NoTask) => []<><<Take(t)>>_vars

ReaderFairness(t) ==
  /\ SF_vars(CallRead(t))
  /\ NotShutOut(t)
  /\ WF_vars(SERIAL_getc(t))
  /\ WF_vars(GetsLoop(t) \/ Deadline(t))
  /\ WF_vars(Elapse(t))

WriterFairness(t) == SF_vars(PutTake(t)) /\ WF_vars(Transmit(t))

Fairness == /\ WF_vars(IRQ)
            /\ \A t \in Readers : ReaderFairness(t)
            /\ \A t \in Tasks : WriterFairness(t)

FairSpec == Spec /\ Fairness

-----------------------------------------------------------------------------
(***************************************************************************)
(* Correctness                                                             *)
(***************************************************************************)

\* A reader that sleeps on xRxWait while the ring has a byte has its token
\* waiting for it: the handler gives one whenever the ring stops being empty
\* (serial.c:370-375, 391-396), also between the test of the length and the
\* wait (269-271).
NoLostWakeup ==
  \A t \in Readers : pc[t] = "wait" /\ ulRxLength > 0 => xRxWait = 1

\* SERIAL_getc reports a timeout only if no byte had come: a byte that arrives
\* while the reader is on its way to sleep is never waited past (269-276).
GivesUpOnlyWhenEmpty ==
  [][\A t \in Readers : WaitTimeout(t) => ulRxLength = 0]_vars

\* The slot of the i-th oldest byte (i = 0 is the oldest).
Slot(i) == (ulRxIndex + i) % N

\* The ring as the next read sees it: from the moment the index has moved to
\* the moment the length has shrunk (288-289) the last counted slot is not part of it.
BytesInRing == IF \E t \in Readers : pc[t] = "shorten" THEN ulRxLength - 1 ELSE ulRxLength

\* Whatever the handler drops and wherever it interrupts SERIAL_getc, the ring
\* holds received bytes, oldest first, and all of them newer than the last byte
\* read: nothing is read twice, out of order or uninitialised.
RingInOrder ==
  /\ \A i \in 0..(BytesInRing - 1) :
       pRxBuffer[Slot(i)] > lastRead /\ pRxBuffer[Slot(i)] <= nArrived
  /\ \A i, j \in 0..(BytesInRing - 1) :
       i < j => pRxBuffer[Slot(i)] < pRxBuffer[Slot(j)]

\* The port implements the abstract byte line.  A read takes effect when the
\* index moves (288), a received byte when the handler stores it.
Fifo == INSTANCE ByteFifo WITH
          Capacity <- N,
          LastByte <- MaxBytes,
          fifo <- [i \in 1..BytesInRing |-> pRxBuffer[Slot(i - 1)]]

ImplementsByteFifo == Fifo!Spec

\* A byte in the ring leaves it, read or pushed out: the reader is never stuck
\* behind the mutex, the mask or a token (260-296).
EveryByteLeaves ==
  \A b \in 1..MaxBytes :
    (\E i \in 0..(BytesInRing - 1) : pRxBuffer[Slot(i)] = b)
      ~> ~(\E i \in 0..(BytesInRing - 1) : pRxBuffer[Slot(i)] = b)

\* A task that prints gets the port, although the reader holds the mutex while
\* it sleeps on xRxWait (241, 306, 264-274).
PutsFinishes == \A t \in Tasks : pc[t] = "puttake" ~> pc[t] = "idle"

\* SERIAL_gets returns on a silent line, too (212-227).
GetsReturns == \A t \in Readers : pc[t] = "gets" ~> pc[t] = "idle"

=============================================================================
