------------------------------ MODULE Shutdown ------------------------------
(***************************************************************************)
(* The console's command 'f' (src/Src/shell.c), which stops the server and *)
(* counter tasks and resets the board into its boot loader: SVRIF_stop     *)
(* (src/Src/serverif.c), CNTIF_stop (src/Src/counterif.c), SERIAL_close    *)
(* (src/Src/serial.c).  The shell runs at the priority of the tasks it     *)
(* stops, so each of them may run between any two of its steps until it is *)
(* terminated, in whatever state it then is.                               *)
(*                                                                         *)
(* vQueueDelete and the assignment of 0 to the handle are two steps.  A    *)
(* send between them uses freed memory: it may seem to succeed or to fail. *)
(* A send after them, and a read of a port that has been closed, fail a    *)
(* configASSERT, which stops the board for good.                           *)
(***************************************************************************)
EXTENDS Delivery

VARIABLES
  shpc,          \* the shell's next step
  serverAlive,   \* xThread # 0 in serverif.c
  counterAlive,  \* xThread # NULL in counterif.c
  port           \* the counter's port: "open", "closed" (its semaphores deleted) or "null"

tasks == <<serverAlive, counterAlive>>
shutdownVars == <<vars, shpc, tasks, port>>

\* The steps of the command, in the order the shell takes them.
Steps == <<"idle", "terminate server", "drain", "delete queue", "zero queue", "close port",
           "zero port", "terminate counter", "close console", "image", "reset">>

ShutdownTypeOK ==
  /\ TypeOK
  /\ shpc \in Range(Steps)
  /\ serverAlive \in BOOLEAN /\ counterAlive \in BOOLEAN
  /\ port \in {"open", "closed", "null"}

\* main starts both tasks, or neither if it does not know the counter's model;
\* without SVRIF_start there is no queue, without CNTIF_main no open port.
ShutdownInit ==
  /\ shpc = "idle"
  /\ \/ Init /\ serverAlive = TRUE /\ counterAlive = TRUE /\ port = "open"
     \/ /\ serverAlive = FALSE /\ counterAlive = FALSE /\ port = "null"
        /\ queue = "null"
        /\ cpc = "input" /\ pBuffer = NoReading /\ pPrevBuffer = NoReading
        /\ newSecond = FALSE /\ cMsg = NoMsg /\ nReports = 0
        /\ allocated = {} /\ xMessageQ = <<>> /\ halted = FALSE
        /\ spc = "start" /\ sMsg = NoMsg /\ nLeaked = 0
        /\ linkUp = FALSE /\ up = FALSE /\ dhcp = FALSE
        /\ net = "ok" /\ nChanges = 0 /\ conn = "none"
        /\ nDropped = 0 /\ nWritten = 0 /\ nLost = 0 /\ lastWritten = 0

(***************************************************************************)
(* The tasks, while they live                                              *)
(***************************************************************************)

\* xQueueSend on a queue that has been freed: what is left of it lies behind
\* the free list's header.  The message is lost in it, or refused and freed.
SendToFreed ==
  /\ cpc = "send" /\ queue = "freed"
  /\ allocated' \in {allocated, allocated \ {cMsg}}
  /\ nDropped' = nDropped + 1
  /\ cMsg' = NoMsg
  /\ cpc' = "record"
  /\ UNCHANGED <<pBuffer, pPrevBuffer, newSecond, nReports, xMessageQ, queue, halted, serverVars,
                 worldVars, nWritten, nLost, lastWritten>>

Halt ==
  /\ halted' = TRUE
  /\ UNCHANGED <<counterVars, allocated, xMessageQ, queue, serverVars, worldVars, history>>

\* xQueueSend: configASSERT( pxQueue ).
SendToNull == cpc = "send" /\ queue = "null" /\ Halt

\* SERIAL_getc: configASSERT of the semaphore, or ASSERT of the handle.
InputFromClosed == cpc = "input" /\ port # "open" /\ Halt

Counter ==
  /\ counterAlive /\ ~halted
  /\ \/ port = "open" /\ \E r \in Readings : Input(r)
     \/ CounterStep \/ SendToFreed \/ SendToNull \/ InputFromClosed
  /\ UNCHANGED <<shpc, tasks, port>>

Server ==
  /\ serverAlive /\ ~halted
  /\ ServerStep
  /\ UNCHANGED <<shpc, tasks, port>>

\* Time and the network; the board no longer sees the network after ETH_stop.
World ==
  /\ Tick \/ (shpc = "idle" /\ NetChange)
  /\ ~halted
  /\ UNCHANGED <<shpc, tasks, port>>

(***************************************************************************)
(* The shell                                                               *)
(***************************************************************************)

\* The command is typed.  SVRIF_stop: if the server task runs, ETH_stop.
EthStop ==
  /\ shpc = "idle"
  /\ IF serverAlive
       THEN /\ shpc' = "terminate server"
            /\ net' = "unplugged"
            /\ conn' = IF conn = "alive" THEN "broken" ELSE conn
       ELSE shpc' = "close port" /\ UNCHANGED <<net, conn>>
  /\ UNCHANGED <<counterVars, heapVars, serverVars, nChanges, history, tasks, port>>

\* The server task ends where it is, with the message it has taken.
TerminateServer ==
  /\ shpc = "terminate server"
  /\ serverAlive' = FALSE
  /\ shpc' = "drain"
  /\ UNCHANGED <<vars, counterAlive, port>>

\* Mutant: the messages are freed and not received.
DrainPeeks ==
  /\ shpc = "drain"
  /\ IF xMessageQ # <<>>
       THEN allocated' = allocated \ {Head(xMessageQ)} /\ UNCHANGED shpc
       ELSE shpc' = "delete queue" /\ UNCHANGED allocated
  /\ UNCHANGED <<counterVars, xMessageQ, queue, halted, serverVars, worldVars, history, tasks, port>>

\* Receive without waiting, and free, until the queue is empty.
Drain ==
  /\ shpc = "drain"
  /\ IF xMessageQ # <<>>
       THEN /\ allocated' = allocated \ {Head(xMessageQ)}
            /\ xMessageQ' = Tail(xMessageQ)
            /\ UNCHANGED shpc
       ELSE shpc' = "delete queue" /\ UNCHANGED <<allocated, xMessageQ>>
  /\ UNCHANGED <<counterVars, queue, halted, serverVars, worldVars, history, tasks, port>>

\* vQueueDelete.  Messages sent since the last receive go with the queue.
DeleteQueue ==
  /\ shpc = "delete queue"
  /\ queue' = "freed"
  /\ xMessageQ' = <<>>
  /\ shpc' = "zero queue"
  /\ UNCHANGED <<counterVars, allocated, halted, serverVars, worldVars, history, tasks, port>>

ZeroQueue ==
  /\ shpc = "zero queue"
  /\ queue' = "null"
  /\ shpc' = "close port"
  /\ UNCHANGED <<counterVars, allocated, xMessageQ, halted, serverVars, worldVars, history, tasks, port>>

\* CNTIF_stop: if the counter task runs, SERIAL_close of its port.
ClosePort ==
  /\ shpc = "close port"
  /\ IF counterAlive
       THEN port' = "closed" /\ shpc' = "zero port"
       ELSE shpc' = "close console" /\ UNCHANGED port
  /\ UNCHANGED <<vars, tasks>>

ZeroPort ==
  /\ shpc = "zero port"
  /\ port' = "null"
  /\ shpc' = "terminate counter"
  /\ UNCHANGED <<vars, tasks>>

\* Mutant: the thread's handle is cleared and the thread lives on.
TerminateCounterForgotten ==
  /\ shpc = "terminate counter"
  /\ shpc' = "close console"
  /\ UNCHANGED <<vars, tasks, port>>

TerminateCounter ==
  /\ shpc = "terminate counter"
  /\ counterAlive' = FALSE
  /\ shpc' = "close console"
  /\ UNCHANGED <<vars, serverAlive, port>>

\* SERIAL_close of the console, IMAGE_Get and IMAGE_Set, and SYS_reset.
Finish ==
  /\ \/ shpc = "close console" /\ shpc' = "image"
     \/ shpc = "image" /\ shpc' = "reset"
  /\ UNCHANGED <<vars, tasks, port>>

Shell ==
  /\ ~halted
  /\ \/ EthStop \/ TerminateServer \/ Drain \/ DeleteQueue \/ ZeroQueue
     \/ ClosePort \/ ZeroPort \/ TerminateCounter \/ Finish

-----------------------------------------------------------------------------

ShutdownNext == Counter \/ Server \/ World \/ Shell

\* The shell's turn comes, as it has the tasks' priority and is time-sliced.
\* The queue is drained in the end because the counter, which waits a tick after
\* every report, cannot fill it as fast; here MaxReports stops the counter.
ShutdownSpec == ShutdownInit /\ [][ShutdownNext]_shutdownVars /\ WF_shutdownVars(Shell)

-----------------------------------------------------------------------------
(***************************************************************************)
(* Correctness                                                             *)
(***************************************************************************)

\* The blocks that a living task or the queue refers to.
LiveHeld == (IF counterAlive /\ cpc = "send" THEN {cMsg} ELSE {})
              \cup {xMessageQ[i] : i \in DOMAIN xMessageQ}
              \cup (IF serverAlive /\ spc \in {"write", "sent", "failed"} THEN {sMsg} ELSE {})

\* Wherever the tasks are terminated, what is still referred to is allocated,
\* and no block has two owners: neither SVRIF_stop's loop nor a task that goes
\* on frees a block twice (serverif.c:68-71, 97, 228, 241).
NothingFreedTwice ==
  /\ LiveHeld \subseteq allocated
  /\ Cardinality(LiveHeld) = Len(xMessageQ)
       + (IF counterAlive /\ cpc = "send" THEN 1 ELSE 0)
       + (IF serverAlive /\ spc \in {"write", "sent", "failed"} THEN 1 ELSE 0)

\* The board can halt only while CNTIF_stop has not yet ended the counter task
\* that outlives its queue and its port; after that the reset is certain
\* (shell.c:418-430, counterif.c:57-64).
HaltsOnlyBeforeCounterEnds ==
  halted => shpc \in {"close port", "zero port", "terminate counter"}

\* The command ends in the reset, or the board halts on the way: the shell never
\* waits for a task it has stopped, and the queue is drained.
ResetsOrHalts == shpc # "idle" ~> shpc = "reset" \/ halted

=============================================================================
