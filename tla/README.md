# Verification of the counter gateway firmware

The firmware in `src/Src` and `src/Inc` runs on an STM32F107 board between a bill
counter and a server. It reads the counter's frames from one serial port, turns them
into messages, and sends those over TCP; on a second serial port an operator changes
the settings, which are kept in a page of flash. FreeRTOS runs three tasks of one
priority (counter, server, shell), lwIP's task and the driver's receive task above
them, and interrupt handlers that all have one NVIC priority.

This directory holds TLA+ models of its parts, the TLC configurations that check them on
small instances, and TLAPS proofs of what holds for every instance. Line numbers refer to
the files under `src/`.

    tlc -workers 2 -config Delivery.cfg Delivery.tla      # one run
    tlapm DeliveryProofs.tla                              # one module of proofs

## 1. The system

| Part | Code | State it keeps | Operations | Talks to |
|---|---|---|---|---|
| Serial port driver | `serial.c` | per port: receive ring (`pRxBuffer`, `ulRxIndex`, `ulRxLength`), mutex `xSemaphore`, binary semaphore `xRxWait`, RXNE mask | `SERIAL_open/close/getc/gets/putc/puts/printf`, two IRQ handlers | every task; the handlers share the ring with the reader |
| Counter task | `counterif.c` | latest and previous message, time of the last report, the port | `CNTIF_start/stop/main` | frames (`fInput`, `fGetMessage`), `SVRIF_send` |
| Bill counters | `bill_counter.c`, `plus_p16.c`, `plus_p506.c`, `bh1000.c`, `jisan_j305.c`, `nexbill_kl1850.c` | a static frame buffer and the counts, per model | `fCreate/fInput/fGetMessage` | serial port |
| Server task | `serverif.c` | queue `xMessageQ`, heap blocks of the messages, interface flags, TCP connection | `SVRIF_start/stop/send/taskMain/client` | queue, heap, lwIP |
| Ethernet driver | `ethernetif.c`, `netif_ex.c` | descriptors, receive semaphore, link flag | `ETH_lowLevelInit/Input/Output/stop` | HAL, lwIP |
| Configuration | `config.c`, `crc16.c` | `xConfig` in RAM, a page of flash with a CRC | `CONFIG_init/load/save/setDefault` | shell, `main` |
| Operator's menu | `shell.c` | `pInputLine`, `xConfig` | login, ten commands | configuration, serial port, the other tasks (`f`, `R`) |
| Image slots | `image.c` | four slots that tell the boot loader which firmware to start, and whether at once | `IMAGE_Init/Get/Set/SetAutoBoot` | flash |
| Kernel heap | `heap_4.c` | the list of free blocks, the headers of all blocks, the count of free bytes | `pvPortMalloc`, `vPortFree` | every task |
| Kernel queues | `queue.c`, `tasks.c` | per queue: ring, lock counts, two lists of waiting tasks; the scheduler's lists and ticks | send, receive, send from a handler, tick | every task and handler |
| Boot and board | `main.c`, `system.c`, `stm32f1xx_*.c` | - | start of the above, reset | all |
| Traces, assertions | `trace.c`, `assert.h` | static buffers | `TRACE_*`, `ASSERT` | operator's port |

How they interact:

- *Bytes:* UART interrupt -> ring -> `SERIAL_getc` in the counter task (USART1) or the
  shell (UART4). The handler and the reader share the ring without a lock; the reader masks
  the receive interrupt while it takes a byte out.
- *Reports:* counter task -> `pvPortMalloc` + `xQueueSend` without waiting -> server task ->
  `lwip_write` + `vPortFree`. Two tasks share the queue and the heap.
- *Settings:* shell -> `xConfig` -> `CONFIG_save` -> flash -> `CONFIG_load` at the next start.
- *Shutdown:* command `f` ends the server task and the counter task from the shell and frees what
  they share while they may still be running, then resets the board into its boot loader.

Hard behaviours: interrupts between any two accesses of the ring; a byte arriving between
the test for an empty ring and the wait; preemption between allocation, send and free; a full
queue or heap, sockets running out; the network going at any moment; terminating a task at
an arbitrary point; power failures during an erase or a write; a line buffer that keeps the
tail of earlier lines. `PROJECT.json` lists these as hazards at the lines where they bite.

What makes each part correct:

- *port:* every byte is delivered once and in order, or pushed out by newer ones; nobody sleeps over a
  byte; the mutex is always given back.
- *delivery:* no heap block is freed twice or forgotten; each report is accounted for; reports
  arrive in order, at most once, and are refused only when there is no room; the queue drains.
- *shutdown:* the command ends in the reset; nothing is used after it was freed.
- *configuration:* the board never works with a mixture of two configurations; what was
  saved comes back; the page is not worn or left writable.
- *Ethernet driver:* a frame reaches lwIP once and in order and is not overwritten while it is copied; no
  pbuf is lost; reception does not stop for good, as long as a transmission does not keep the HAL's handle locked.
- *image slots:* a restart finds what was set last; a power failure leaves something to start.
- *heap:* blocks never overlap; what is free is found again, merged and counted.
- *queues:* each message is received once and in order; nobody sleeps beside a message or a free place; a
  call with a time limit returns, and fails only if it must.
- *menu:* only the password opens it; a setting is what the operator typed and confirmed, fits its
  array, and is stored.

## 2. Modules

| Module | Models | Extends / instantiates |
|---|---|---|
| `ByteFifo` | abstract: the bounded line of bytes a port promises | |
| `Serial` | one UART of `serial.c` | instantiates `ByteFifo` |
| `SerialProofs` | proofs about `Serial` | extends `Serial` |
| `ReportChannel` | abstract: the bounded, lossy, ordered channel that `SVRIF_send` promises | |
| `Delivery` | counter task, server task, queue, heap, sockets, network | instantiates `ReportChannel` |
| `Shutdown` | command `f`: composes `Delivery` with the shell that stops its tasks | extends `Delivery` |
| `DeliveryProofs` | proofs about `Delivery` and `Shutdown` | extends `Shutdown` |
| `ConfigStore` | abstract: a store that keeps, replaces or loses one configuration | |
| `Config` | `config.c` with power failures and failing flash | instantiates `ConfigStore` |
| `MCConfig` | values for `Config` | extends `Config` |
| `ConfigProofs` | proofs about `Config` | extends `Config` |
| `Shell` | the menu of `shell.c` | |
| `MCShell` | lines an operator types | extends `Shell` |
| `Frames` | the frame parsers of the P16, P-506 and BH1000, and the counter and wire before them | |
| `InputProofs` | proofs about `Shell` and `Frames`, which both fold over the bytes received | extends `Shell`, `Frames` |
| `EthReceive` | the receiving half of `ethernetif.c` and how it is started | |
| `EthReceiveProofs` | proofs about `EthReceive` | extends `EthReceive` |
| `Allocator` | abstract: blocks that are large enough and never overlap | |
| `Heap` | `heap_4.c` | instantiates `Allocator` |
| `HeapProofs` | proofs about `Heap` | extends `Heap` |
| `BoundedQueue` | abstract: a queue whose calls take effect at once | |
| `Queue` | a queue of `queue.c` and what `tasks.c` does for those who wait for it | instantiates `BoundedQueue` |
| `QueueProofs` | proofs about `Queue` | extends `Queue` |
| `Image` | `image.c` with power failures and failing flash | |
| `ImageProofs` | proofs about `Image` | extends `Image` |

### Serial

A byte is its number in the order of arrival. `pc[t]` names the next access to shared state
of a task inside `SERIAL_getc`: take the mutex, test the length (269), wait (271), test
again (278), mask, read, advance the index, shorten, unmask, give back. A handler is one action
because no task runs while it does; it is enabled between any two steps of a task as long
as RXNE is not masked. `USART1_IRQHandler` gives the token after it has stored the byte
(370), `UART4_IRQHandler` decides before (391); `xPort` says which port it is. `SERIAL_gets` is its loop
with a deadline that may pass at any moment (`Elapse`). Printing is `PutTake` and `Transmit`;
all callers wait for the mutex without limit.

External and abstracted: the HAL's part of the handler (the error path on an overrun, the
rewinding of `RxXferCount`) is the guard of `Store`. The fields of the ring are not
`volatile`; the model assumes that the compiler reloads them after a kernel call, as any
compiler must for a function it cannot see into. `SERIAL_open` and `SERIAL_close` are not
here: open is the initial state, close is in `Shutdown`.

A token can be left over when a byte is read without waiting. The next wait then returns at
once on an empty ring and `SERIAL_getc` reports an error before its time; the model has this
(`Recheck`), and `EveryByteLeaves` and `GetsReturns` show that it does no further harm.

### Delivery

`cpc` and `spc` are the next steps of the counter and the server task. A report is the number of its
`SVRIF_send` call and of its heap block. `Compare` is the test whether a report is due
(`counterif.c:101`), `Malloc` and `Send` are `SVRIF_send` (a message that does not fit into the queue is freed),
`Record` stores the message as reported although the result is ignored. The server task starts the network
once (`StartNet`), loops over the link flag (`Loop`) and runs the client: socket, connect (a
failed one returns without closing the socket), receive, write, free, close. `NetChange`
pulls or plugs the cable or the server at any moment. lwIP, the queue and the heap are
external: sockets and blocks are counted, a write on a living connection succeeds and one on a broken
connection may seem to.

### Shutdown

Extends `Delivery` with the steps of command `f` and lets the two tasks run between any two of them until
each is terminated, in whatever state it is. `vQueueDelete` and zeroing the handle are two
steps, `SERIAL_close` and zeroing its handle too. A failed `configASSERT` halts the board
for good (`halted`). Start without a known counter model (no tasks, no queue) is the second
initial state.

### Config

The page is a CRC word and `NumWords` words. Every flash access is a step; a power failure
(`Crash`) can come between any two or in the midst of one: a partly erased page, a torn word.
Erase and write may fail (`EraseFails`, `ProgramFails`: the result of the write is ignored). The
CRC is ideal: only the configuration itself has its CRC. A page that is not all of one configuration is
therefore invalid; in the code this is so but for a chance of one in 65536. A blank page is
invalid (the CRC16 of the 98 bytes 0xFF is 0x8925, not 0xFFFF).

### Shell

One action is one line typed at one prompt. `pInputLine` is kept character by character, because
`SHELL_getLine` writes no terminator and a prompt finds the tail of an earlier, longer line; this is what the
properties tell apart: `GetLine` is a fold of `Key`, which is what one key does to the buffer and its length. A character is any of `Chars`, a text any sequence of them (`Text`). Addresses, ports and MAC addresses are lines with the shape the code
tests. Lines as long as the buffer are outside the bounds.

What a command finds in its buffer (`LineRead`, `CString`) and what the operator means by a line (`Edited`, a recursion over the
text alone, in which no buffer occurs) are two definitions; the second occurs only in the history `typed`, which the properties compare
with the settings. The port is computed as the code does, digit by digit in an `int` that wraps (`Converted`; overflow of an
`int` is undefined in C, and the processor's multiplication and addition wrap), and must lie below 65536; `NumberOf` is the number that
the digits say.

A command that changes `xConfig` sets `bUpdatedConfig` (`Changes`), and all commands but the resets end at `Save`, the code behind the
`switch`: it stores the settings if the flag is set, and leaves the menu if `Q` was confirmed (`bStop`). The power may fail before it; the
change is then lost. The save itself is one step here (its faults are in `Config`).

### Frames

A byte is a number below `Base`; `Base` stands for the seven bits of the checksum. `GetFirst`,
`GetRest` and the two timeouts are `SERIAL_getc` and `SERIAL_gets` as `fInput` uses them, on a ring that
loses its oldest byte when full (`ByteFifo`); `Check` is what `fInput` does with a complete frame:
`ChecksumRight`, `Counted`, and `Ends` if it returns true, upon which `CNTIF_main` takes `Message`.

The counter and the wire are external. A frame has the fields the parser reads, zeros elsewhere and,
in a P16, a checksum. The definitions that both `Shell` and `Frames` need carry the module's name here (`FramesInit`,
`FramesTypeOK`, `FramesSpec`), so that one module can extend both. The counter may be in the midst of a frame when the board starts, sends a frame without a
pause between its bytes, and each byte may arrive, be lost or be damaged. A read therefore times out only
on a silent wire.

The properties need to know what the board has had: `whole` is true while it has had every byte
since the wire was silent, `agree` if it has had every change of the counts too, and `pending` holds the frames sent
and not yet checked, as they were sent and as they came. No action of the parser reads these.

A P-506 sends each value as a byte, a BH1000 as decimal digits, which `Number` reads up to the first byte
that is none. The P-506's display, which the firmware decodes and uses nowhere, is left out. The J-305 asks for 26 bytes in a time that brings about ten and so does time out in the midst of a
frame; it needs a model of the wire's speed. The KL1850's `fInput` does not return.

### EthReceive

`own` and `Rx_Buff` are the ring: whether the DMA may write to a descriptor, and what is in its buffer. `Receive` fills one, sets the
interrupt's status bit and stops the DMA (`suspended`, the flag RBUS) if the next is taken. `ETH_IRQHandler` gives the token and clears
the bit; it is one action because no task runs while it does. `ETH_taskMain` is `Wait`, then, once per frame,
`GetReceivedFrame`, `Alloc`, `Copy`, `Release`, `Resume` and `Input`, until there is no frame or no pbuf. `Fetch` and `Free` are
lwIP's thread. `Create`, `Start` and `SetFlags` are `ETH_lowLevelInit` in the server task, which the receive task preempts.

External: the DMA, the HAL (whose source is not in the repository) and lwIP. The DMA is modelled at its strictest: once stopped it misses frames until it is
told to go on. A frame fits one descriptor; its chain of pbufs counts as one, which is allocated as a whole or not at all.

Of transmission, one function that only lwIP's thread calls, and of the HAL's start only the lock of the HAL's handle is modelled (`Transmit`, `Transmitted`;
`Start`, `Started`). The receive task runs above both threads and may find the handle locked: the HAL then refuses to look, which the code takes for an empty ring and returns, before it tells a
stopped DMA to go on (`GetReceivedFrame`; `refused`). Whether the HAL's interrupt handler frees the lock on the way, as
some do, cannot be read in the repository: `unlocks` may be either. A thread below the task runs only while the task sleeps (`Idle`).

### Heap

Addresses and sizes are counted in units of 8 bytes, the alignment and the size of a header. `next` is `pxNextFreeBlock`
of `xStart` and of the blocks in the list, `size` the `xBlockSize` of every block, `allocated` the blocks whose top bit is set, with the bytes asked for (which
the code forgets; only the properties use them). `Malloc` walks to the first block that is large enough, takes it out and puts the remainder back
(`InsertedNext`, `InsertedSize`: `prvInsertBlockIntoFreeList` with its merges before and behind). A refused request changes nothing.
`vPortFree` clears the bit before it suspends the scheduler: `FreeBegin` and `FreeEnd`, between which any other task may allocate or free.
`xMinimumEverFreeBytesRemaining`, which nothing reads, is left out.

### Queue

A step is a critical section, or what a task does with the scheduler suspended between two of them; an interrupt may come between any two
steps, another task only while the scheduler runs. `Call` to `Retest` are the passes of the loops of `xQueueGenericSend` and
`xQueueGenericReceive`: try, set the time limit once, suspend the scheduler, lock the queue, check the time, look again, go onto the waiting list, unlock,
resume. A handler that finds the queue locked only counts (`cTxLock`, an `int8_t`: `Counted`); `Unlock` wakes as many receivers as it
counts. A task made ready while the scheduler is suspended waits in `xPendingReadyList`, and ticks in `uxPendedTicks`, until `Resume`.

Which of several waiting tasks is woken, and which ready task runs, is left open: the properties hold for every assignment of priorities. A semaphore is a queue whose messages say nothing.
Left out: receiving from a handler (none of the firmware does, so `cRxLock` stays what it is), peeking, overwriting, sending to the
front, queue sets, the priority inheritance of mutexes, notifications, and the creation and deletion of tasks and queues.

### Image

`IMAGE_Set` is three steps: it computes the next slot and index (`Set`), erases the page of the slot (`Erase`) and writes it (`Write`);
the power may fail in between or during either. `IMAGE_Init` takes the valid slot with the smallest index (`Chosen`). The firmware
calls `IMAGE_Init` at its start and sets the slot for command `f`; `IMAGE_SetAutoBoot` and a change of image are the boot loader's, which shares the file. How many slots
share a page and whether the slot's type is packed is in headers that are not in the repository, so `perPage` and `packed` may
have any value; if it is not packed the CRC takes in two bytes behind the slot, and a written slot may or may not be found valid. `IMAGE_IsVerified`, which
only reads, is left out.

## 3. What the runs check

| Run | Module | Bounds | Shows |
|---|---|---|---|
| `Serial` | `Serial` | either port, ring of 2, 4 bytes, reader and printer | `NoLostWakeup`, `ImplementsByteFifo`, and the liveness properties `EveryByteLeaves`, `PutsFinishes`, `GetsReturns` |
| `Delivery` | `Delivery` | queue 2, heap 3, 2 sockets, 4 reports, 3 changes of the network | `OneOwner`, `ReportsConserved`, `SocketsAccounted`, `ImplementsReportChannel`, and the liveness property `QueueDrains` |
| `DeliveryDhcpNegotiates` | `Delivery` | 1 report | violated: see finding 1 |
| `Shutdown` | `Shutdown` | queue 2, heap 4, 4 reports | `NothingFreedTwice`, `HaltsOnlyBeforeCounterEnds`, and the liveness property `ResetsOrHalts` |
| `Config` | `MCConfig` | 2 words, 3 configurations, 3 power failures, 2 faults | `NoMixture`, `DurableUntilErased`, `ErasesOnlyToChange`, `ImplementsConfigStore` |
| `Shell` | `MCShell` | 16 lines, buffer 4, 2 changes of the settings | `TypeOK`, `LoginNeedsPassword`, `NothingUnsaved`, `TextsFit`, `SettingsAsEntered` |
| `ShellConfirmedByYes` | `MCShell` | the same | violated: see finding 2 |
| `Frames` | `Frames` | three models, 3 frames, ring of 9, one fault on the wire | `FramesTypeOK`, `InStep`, `ReadingAsShown`, `DamagedRejected`, and the liveness property `Recovers` |
| `EthReceive` | `EthReceive` | ring of 3, 3 pbufs, mailbox of 2, 7 frames | `OnceInOrder`, `PbufsConserved`, `NoStall` |
| `Heap` | `Heap` | 13 units, requests of 0, 8, 12 and 32 bytes | `FreeListExact`, `FailsOnlyWhenNothingFits`, `ImplementsAllocator` |
| `Queue` | `Queue` | 2 places, a sender, 2 receivers, a handler; waits of no time, one tick and without limit | `NoLostWakeup`, `ImplementsBoundedQueue`, and the liveness properties `WaitersServed`, `TimedSendReturns` |
| `Image` | `Image` | 4 slots on 1, 2 or 4 pages, indices up to 5, one failing operation | `NeverStale`, `IndicesApart`, `SomethingSurvives` |

Every property has a mutant in `PROJECT.json`: a plausible slip in one action (defined beside it, with a comment that
begins "Mutant:") under which TLC finds the property violated. The type invariants are proved (section 5);
the runs check again only those of `Shell` and `Frames`, which bound the texts and the counts.

Why these bounds are enough:

- *Serial.* A ring of 2 wraps, fills and pushes out; with 4 bytes it does so while the reader is at every
  step. One reader is what the board has: each port is read by one task. Rings and numbers of
  printers beyond these are covered by the proofs.
- *Delivery.* Queue and heap run full separately: a queue of 2 and a heap of 3 leave
  room for a message with the sender or with the client, and 4 reports exceed both. Two sockets allow a failed connect before
  a successful one and two that use up all. Three changes of the network take it away, bring it back
  and take it away again.
- *Shutdown.* A heap of 4 for 4 reports: none is refused for want of memory, so each can meet each step of
  the command. A refused allocation before the command is covered by `Delivery`.
- *Config.* Two words have a mixture (`<<1, 0>>` is set by nobody). Three power failures can hit the save,
  the repair at the following start and a later save.
- *Shell.* The lines hold each command, an answer, an empty line, digits that leave a tail of one
  or two characters, and an erased character; a buffer of 4 holds the longest with its terminator. An `int` has 100 values (`IntMod`), so
that of the ports typed 101 wraps, to 1.
- *Frames.* Three P16 frames are a count, a second count or a clearing, and the end of the series; a ring of 9
  overflows when the task has read none of them. The only count, 2, looks like the byte that begins a frame, so a parser
  out of step finds frames that nobody sent. The board may start at each byte of a frame, and one byte may be lost, or damaged into
  another that begins a frame. Damage to two bytes of one frame can escape a sum, and nothing is claimed of it. A
  BH1000 count of 2 exceeds `MsgMod`, as counts above 255 exceed the one byte of its message.
- *EthReceive.* Seven frames fill a ring of 3, stop the DMA and start it again, twice; three pbufs against a mailbox of 2 let the
  mailbox refuse one, and run out while lwIP holds them. The handle may be locked at every frame, with a handler that frees it and with one that does not.
- *Heap.* 12 bytes take three units and 8 take two, so that 13 units hold several blocks with gaps between them; a remainder is split off or,
  when it is no larger than two headers, given away; 32 bytes fit only into merged neighbours.
- *Queue.* Two places fill and empty; with two receivers the lock counts more messages than there are waiters, and fewer; a tick can come while the scheduler is suspended, and end a wait.
  `LockMax` is 3 where the code has 127; the proof covers every length the count can hold.
- *Image.* Five settings go round the four slots, and once more over the first.

The bounds `MaxBytes`, `MaxReports`, `MaxChanges`, `MaxCrashes`, `MaxFaults`, `MaxSaves`, `MaxFrames`, `MaxIndex` and `MaxPended` only stop the environment; the
theorems of section 5 hold for all of them. `Shutdown` says `CHECK_DEADLOCK FALSE`: the
board resets or halts, and the model ends there; so does `EthReceive`, whose task sleeps on a silent cable. All other runs check for deadlock.

## 4. Fairness

- *Handlers:* an interrupt that is pending and not masked is served: `WF(IRQ)`.
- *Tasks:* equal priorities with time slices, and nothing above them runs for ever: weak fairness of
  each task's step. Block times and TCP timeouts are finite, so a wait ends.
- *Waiting for the mutex without limit* (`PutTake`): the kernel readies the waiter with each give, so a task that waits
  gets it if it becomes free again and again: strong fairness.
- *Waiting for the mutex for a bounded time* (`Take`): scheduling alone does not suffice, because every call might
  fall into another's transmission. `NotShutOut` excludes this: the printing tasks sleep longer (100 ticks,
  `serverif.c:243`) than the reader between two calls (1 to 10, `shell.c:558`, `counterif.c:91`).
- *Callers:* the reader's loop calls again and again (`SF(CallRead)`).
- *Shell:* `WF(Shell)` in `Shutdown`.
- *Queue:* the tick comes (`WF(Tick)`), and a task that is ready again and again runs (`SF(TaskStep)`): the firmware's three tasks have one priority and
  share its time. Weak fairness would not do, because each time another task suspends the scheduler this one is not ready to run.
- *Frames:* the counter task runs (`WF(fInput)`) and a frame that has begun arrives, is lost or is damaged (`WF(Arrive)`).
  `Recovers` also needs the counter to pause now and then, which `MaxFrames` makes it do; a counter that never pauses
  can keep the board out of step.

Nothing is assumed of the wire, the network, the operator, or of whether reports are made.

## 5. What is proved

All proofs are checked by TLAPS. The only assumptions are the named assumptions on the
constants (`SerialAssumption`, `DeliveryAssumption`, `ConfigAssumption`, `ShellAssumption`, `FramesAssumption`, `EthReceiveAssumption`,
`HeapAssumption`, `QueueAssumption`, `ImageAssumption`), which TLC evaluates in the runs. Of these, two deserve a word.
`ShellAssumption` says that the texts are no longer than the line buffer, that the default configuration fits its arrays, that a port is less than half the values of an `int`, and that the operator's lines
are shorter than the buffer; nothing else limits what is typed, nor how many digits. `FramesAssumption` says that the fields the parser reads lie inside a frame of its size, that the
byte of the clearing frame is no index of a count, and that a count can be written with the digits a BH1000 sends.

| Theorem | States | For every |
|---|---|---|
| `TypeCorrect` | `TypeOK` of `Serial` | ring size, tasks, bytes, either handler |
| `NeverLosesWakeup` | `NoLostWakeup` | |
| `RingStaysInOrder` | `RingInOrder` | |
| `TimesOutOnlyWhenEmpty` | `GivesUpOnlyWhenEmpty` | |
| `PortImplementsByteFifo` | `ImplementsByteFifo` | |
| `DeliveryTypeCorrect` | `TypeOK` of `Delivery` | queue, heap, sockets, reports, changes |
| `NoReportVanishes` | `ReportsConserved` | |
| `SocketsAreAccounted` | `SocketsAccounted` | |
| `EveryBlockHasOneOwner` | `OneOwner` | |
| `ReportsInOrder` | `ImplementsReportChannel` | |
| `ShutdownTypeCorrect` | `ShutdownTypeOK` | queue, heap, reports, moment of the command |
| `StopFreesNothingTwice` | `NothingFreedTwice` | |
| `HaltsEarlyOrNever` | `HaltsOnlyBeforeCounterEnds` | |
| `ConfigTypeCorrect` | `TypeOK` of `Config` | words, configurations, failures, faults |
| `NeverAMixture` | `NoMixture` | |
| `SavedIsDurable` | `DurableUntilErased` | |
| `UnlockedToSave` | `UnlockedOnlyToSave` | |
| `ProgramsErased` | `ProgramsErasedWords` | |
| `NoNeedlessErase` | `ErasesOnlyToChange` | |
| `ConfigImplementsStore` | `ImplementsConfigStore` | |
| `ShellTypeCorrect` | `TypeOK` of `Shell` | lines, characters, buffer, size of the texts, changes |
| `ShellSavesChanges` | `NothingUnsaved` | |
| `ShellTextsFit` | `TextsFit` | |
| `ShellLoginNeedsPassword` | `LoginNeedsPassword` | |
| `ShellSettingsAsEntered` | `SettingsAsEntered` | |
| `FramesTypeCorrect` | `FramesTypeOK` | model, bytes, frame sizes, counts, digits, ring, losses, damages |
| `FramesInStep` | `InStep` | |
| `FramesReadingAsShown` | `ReadingAsShown` | |
| `FramesDamagedRejected` | `DamagedRejected` | |
| `EthTypeCorrect` | `TypeOK` of `EthReceive` | ring, pool, mailbox, frames |
| `NoPbufIsLost` | `PbufsConserved` | |
| `NeverStalls` | `NoStall` | |
| `FramesOnceInOrder` | `OnceInOrder` | |
| `HeapTypeCorrect` | `TypeOK` of `Heap` | heap, requests |
| `HeapListExact` | `FreeListExact` | |
| `HeapFindsEveryGap` | `FailsOnlyWhenNothingFits` | |
| `HeapImplementsAllocator` | `ImplementsAllocator` | |
| `QueueTypeCorrect` | `TypeOK` of `Queue` | length up to the lock count's limit, tasks, waits |
| `QueueLosesNoWakeup` | `NoLostWakeup` | |
| `QueueImplementsBoundedQueue` | `ImplementsBoundedQueue` | |
| `ImageTypeCorrect` | `TypeOK` of `Image` | slots, layouts, images |
| `ImageNeverStale` | `NeverStale` | |
| `ImageSurvives` | `SomethingSurvives` | |
| `ImageIndicesApart` | `IndicesApart` | |

`RingInOrder`, `GivesUpOnlyWhenEmpty`, `UnlockedOnlyToSave` and `ProgramsErasedWords` are proved and no longer run.

*Serial.* No property of the port is inductive alone: that a sleeping reader has its token holds because
only one task is inside the mutex, because the interrupt is masked exactly while the index and the length disagree,
and because the handler drops a byte only to store another. `Control` is the
conjunction of these and is proved inductive, one step per action. `Contents` adds what the slots hold.
`StoreAppends` and `AdvanceTakesOldest` say what a handler and a read do to the ring as a
sequence, by arithmetic modulo `N`, and the refinement follows: a handler is `Receive`, the
move of the index is `Read`, everything else stutters.

*Delivery.* `DInv` joins the type invariant with the sums: the counters of refused, written and lost reports
stay in range only because together with what is under way they add up to the reports made (`CountersBounded`).
For `OneOwner` a block is seen to change hands: what the sender, the queue and the client hold are kept `Apart`, and each
action of `Hands` moves one block. For the refinement, the reports from the client's over the queue's to the sender's stand in line, each
larger than the one before it. Both invariants are stated for a queue in front of which `k` calls may have been abandoned, so that `Shutdown` can use them.

*Shutdown.* `SInv` keeps `Delivery`'s invariant through the command: a terminated task's block becomes one of the `k` that nothing refers
to, and what `vQueueDelete` leaves behind is lost, never freed. A step of a task that is not ended is a step of `Delivery`; the rest are the command's own.

*Config.* The heart is what a page can hold. `HoleInvalid`, `PartlyErasedInvalid`,
`TornInvalid` and `BlankInvalid` say that no page a failure leaves is valid unless it is unchanged;
`PageInProgress` says that during a save the words before `i` have been programmed, or have failed to be,
and the rest is erased. `PageHoldsSet` follows, and with it `NoMixture` and the refinement of `ConfigStore`.

*Folds.* What the menu and the parser compute from a sequence is a fold over it, of a length that is not fixed. The library's induction needs an operator as
a parameter, so `InputProofs` has its own, over a set of numbers: `LeastNumber` comes from the well-foundedness of `<`, and `Induction` says that a set with 0 and all
successors of its members has all numbers. `Recursion` and `FoldIterates` build the functions that the definitions of `FoldLeft` and `FlattenSeq` choose, and
`LineSteps`, `SumSteps`, `ValueSteps`, `PowerSteps` and `FlattenSteps` then say of each fold what its first and its next step yield.

*Shell.* A line typed into any buffer is compared, key by key, with the text the operator means (`KeyHolds`, `LineTyped`):
the same length, the same characters up to it, and behind it what the buffer had or a zero that an erased character left. So what a command finds under its line's
length is what was typed (`ReadIsEdited`), and a string of its own where the byte behind it is zero (`StringTyped`). `ConvertedNumber` says that the wrapping conversion of '4' gives the number
the digits say, modulo the values of an `int`, for any number of digits (`ModStep`). `IInv` adds to
the types what a prompt may rely on (`Entered`): the password is asked for with a question mark alone in the buffer, a command's locals hold what its own prompts took, and
nothing where they took nothing; and that the settings differ from those in flash only under the flag, which is set only on the way to the save (`Settings`, `NoFlags`). `LoginNeedsPassword` follows because a line over the lone question mark either is a string of its own or is empty (`PasswordRead`).

*Frames.* `InStep` is inductive only with how much of a frame the task may have read (`InFrame`) and with the wire holding no more than the end of the
latest frame (`WireInLast`); `GoodFrames` says of each frame pending what it was made of, and that at most one byte behind its first is changed, and `Chained` and `Agreed` that the
frames turn the board's counts into those shown. `FrameRead` then says that a complete frame is the first one pending. Three facts about the formats carry the rest:
a changed byte changes the sum (`DamagedSum`: after the changed byte the two sums stay apart, because adding is injective modulo `Base`); the digits of a number below
`Power[NumDigits]`, read from the left, give the number again (`DigitsSay`, with `DivideTwice`); and any bytes, digits or not, give a number below that power (`NumberType`).
`FramesSpec` has no fairness, so the safety of `FairSpec` is proved with it.

*EthReceive.* Every descriptor that is not the DMA's holds a frame (`Filled`), the one in the task's hand is such a
descriptor (`InHand`), and so a pbuf is always filled with a frame, and never dropped as if there were none. `Line`
says that the frames in the ring, from the descriptor next to be read to the one next to be filled, are consecutive and newer than those taken; `PbufBetween`
that the one being copied stands between the two. Hence whatever a step
puts in the mailbox is newer than all that was posted before (`PostedNewer`), which rules out the same frame twice. For `NoStall`, `SInv` says what a
sleeping task relies on: the DMA goes on, and a frame may be left in the ring only behind one dropped for want of a pbuf, or where the
handle was found locked and the HAL's handler leaves the lock alone (`Unlocked`).

*Heap.* `ListOK` says of any list and any sizes, not only the heap's own, what a sorted list of blocks that nowhere overlap is; so `Insert` can speak of the lists
between two halves of an operation. It has a case for each of the four ways a block meets its neighbours, and each also says which units are free afterwards. `UnitsCounted` adds them
up. That a request fails only for want of room follows because a run of free units cannot cross from one block to the next
when no two are adjacent (`RunCounted`, `RoomForWanted`).

*Queue.* `NoLostWakeup` is inductive only with what a task knows between its second look and its entry in the waiting list (`PlaceSound`: only what the lock has counted has come since),
and with the accounting of the scheduler's lists (`SchedulerHeld`, `LockHeld`, `CountHeld`, `Waiting`, `NonePending`). The refinement takes effect where the ring is written or read, and
where a call fails; `CopyInAppends` and `CopyOutTakesHead` do the arithmetic of the ring.

*Image.* With one page each, the slot written is never the current one; with one page for all, the erase takes every older slot with it.
`IndexBySlot` says that slot and index go round together, which keeps the indices of valid slots apart.

Only model-checked: liveness (`EveryByteLeaves`, `PutsFinishes`, `GetsReturns`, `QueueDrains`,
`ResetsOrHalts`, `Recovers`, `WaitersServed`, `TimedSendReturns`: fairness and ENABLED are beyond this prover). Every other property
of a run that passes is proved.

## 6. Findings

1. **DHCP never negotiates.** `dhcp_start` is called before the interface is set up (`serverif.c:145`
   and 155), is refused, and the result is ignored (`DhcpNegotiates`).
2. **The confirmations are inverted.** Any key but a lone `y` confirms (`ConfirmedByYes`; six prompts).

Met while modelling, not the subject of a run:

- The link flag is set once, at the start, and never cleared (`serverif.c:163`): a cable pulled later goes unnoticed.
- Command `f` deletes the queue while the counter task may be about to send to it (`serverif.c:74`); the assertion in
  `xQueueSend` (`queue.c:729`) then stops the board instead of the reset. `HaltsOnlyBeforeCounterEnds` says when this is possible.
- Reception is started (`ethernetif.c:307`) before `NETIF_FLAG_ETHARP` is set (309), and the receive task runs above the task that sets it: a frame that arrives
  in between is posted as an IP packet.
- The receive task may find the HAL's handle locked by a transmission, or by `HAL_ETH_Start`, that it has interrupted (`ethernetif.c:352`; the lock is one without an RTOS,
  `USE_RTOS` 0). It then returns before line 407. If the HAL's handler does not free the lock, a task that does so on a full ring sleeps with the DMA stopped, for good. The HAL's
  source is not in the repository, so this is left open, not reported: `NoStall` excepts exactly this case.
- A port of many digits may wrap into the range: 4294967377 is accepted and sets 81 (`shell.c:365`, 368).
- With a page for each slot a restart takes the oldest valid slot, not the one set last (`image.c:37`); only with all
  slots on one page is it the latest (`NeverStale`). The comparison of `IMAGE_IsVerified` is inverted (`image.c:132`).
- A server address and the second entry of a new password take in the tail of an earlier line (`shell.c:330`, 467); a prefix of the old
  password is accepted where the buffer completes it (446).
- Confirming a static address overwrites the serial number with the answer (222); `d` shows the mode inverted (392 against 184); the menu
  says `q` but the key is `Q` (77, 525).
- The J-305 reads the digits from the start of its buffer instead of from the frame and keeps one of them; the KL1850 never leaves its loop.

## 7. Plan

Done: `Serial`, `Delivery`, `Shutdown`, `Config`, `Shell`, `Frames`, `EthReceive`, `Heap`, `Queue` and `Image`, with all safety
properties of their passing runs proved.

What could follow, in this order:

1. `Delivery` on top of `Queue` and `Heap` instead of their abstract promises; today the step between them is an argument: `BoundedQueue` and `Allocator`
   promise what `Delivery` assumes of its queue and its blocks.
2. `SERIAL_close`, `SERIAL_open` and a port that is opened again, in `Serial`.
3. The J-305, with a wire that has a speed, in `Frames` or beside it.
4. Mutexes with their priority inheritance, in `Queue`.

## 8. Not modelled, and why

- *J-305:* its reads end in the midst of a frame unless the task is late, which only a model of the wire's speed can say.
- *Transmission and the PHY:* one function called by lwIP's thread alone, of which only the lock it holds is modelled, and register accesses.
- *KL1850:* the loop of its `fInput` never ends; `Frames` and `Delivery` assume an `fInput` that returns.
- *Frames and delivery together:* `Delivery` takes an `fInput` that returns true as one reading, whatever its counts.
- *Clocks, pins, fault handlers, HAL, generated files:* register accesses without state of their own.
- *The rest of FreeRTOS, and lwIP:* third-party. Of the kernel, the queue, its waiting lists and the heap are modelled; the
  ports, timers, event groups and notifications are not used, or are register accesses. lwIP is modelled as the firmware uses it.
- *WolfSSL, the file system, PPP, IPv6, the command interpreter and other vendored trees* below `Middlewares`, which make up most of the repository's
  lines (the models map about 1 % of all of them): either not in the firmware's project, or compiled and not called.
- *Traces:* they share static buffers without a lock and may garble each other; nothing else depends on them.
- *CRC16:* a stateless table walk; ideal in `Config`.
- *`xQueueCreate` and `pvPortMalloc` failing at start:* not checked by the code; the models begin after a successful start.
