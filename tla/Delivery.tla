------------------------------ MODULE Delivery ------------------------------
(***************************************************************************)
(* The path of a count from the bill counter to the server: the counter    *)
(* task (CNTIF_main, src/Src/counterif.c) reads the counter and calls      *)
(* SVRIF_send; the server task (SVRIF_taskMain and SVRIF_client,           *)
(* src/Src/serverif.c) takes the reports from a queue and writes them to a *)
(* TCP connection.  The tasks share the queue and the heap; either may be  *)
(* preempted between any two steps.                                        *)
(*                                                                         *)
(* A report is the number of its SVRIF_send call; its memory block has the *)
(* same name.  A report is "written" when lwip_write accepted it on a live *)
(* connection; what TCP does with it afterwards is outside the model.      *)
(***************************************************************************)
EXTENDS Naturals, FiniteSets, Sequences, FiniteSetsExt

CONSTANTS Readings,     \* what the counter can show
          NoReading,    \* the zeroed buffers at the start
          QueueLength,  \* places in the queue (10)
          HeapBlocks,   \* messages the heap has room for
          NumSockets,   \* NUM_SOCKETS of lwIP
          MaxReports,   \* bound: SVRIF_send calls
          MaxChanges    \* bound: changes of the network

ASSUME DeliveryAssumption ==
  /\ QueueLength \in Nat \ {0}
  /\ HeapBlocks \in Nat \ {0}
  /\ NumSockets \in Nat \ {0}
  /\ MaxReports \in Nat
  /\ MaxChanges \in Nat
  /\ NoReading \notin Readings

VARIABLES
  \* the counter task
  cpc,          \* its next step
  pBuffer,      \* the message of the latest reading
  pPrevBuffer,  \* the message of the latest report
  newSecond,    \* is ulTime # ulPrevTime?
  cMsg,         \* the block SVRIF_send has allocated; 0 if none
  nReports,     \* SVRIF_send calls so far
  \* shared by the tasks
  allocated,    \* blocks of the heap in use
  xMessageQ,    \* the queue's messages
  queue,        \* the handle: "live", "freed" (deleted, not yet zeroed) or "null"
  halted,       \* a configASSERT failed: interrupts off, endless loop
  \* the server task
  spc,          \* its next step
  sMsg,         \* the message taken from the queue; 0 if none
  nLeaked,      \* sockets never closed
  linkUp,       \* NETIF_FLAG_LINK_UP
  up,           \* NETIF_FLAG_UP
  dhcp,         \* does the DHCP client run?
  \* the world outside
  net,          \* "unplugged", "down" (no server to talk to) or "ok"
  nChanges,     \* changes of net so far
  conn,         \* the TCP connection: "none", "alive" or "broken"
  \* history
  nDropped,     \* reports SVRIF_send refused
  nWritten,     \* reports written
  nLost,        \* reports given up on a broken connection
  lastWritten   \* the report written last

counterVars == <<cpc, pBuffer, pPrevBuffer, newSecond, cMsg, nReports>>
heapVars == <<allocated, xMessageQ, queue, halted>>
ifVars == <<linkUp, up, dhcp>>
serverVars == <<spc, sMsg, nLeaked, ifVars>>
worldVars == <<net, nChanges, conn>>
history == <<nDropped, nWritten, nLost, lastWritten>>
vars == <<counterVars, heapVars, serverVars, worldVars, history>>

Reports == 1..MaxReports
NoMsg == 0
\* The steps at which the server task has a socket it will close.
Online == {"connect", "receive", "write", "sent", "failed", "close"}

TypeOK ==
  /\ cpc \in {"input", "compare", "malloc", "send", "record"}
  /\ pBuffer \in Readings \cup {NoReading}
  /\ pPrevBuffer \in Readings \cup {NoReading}
  /\ newSecond \in BOOLEAN
  /\ cMsg \in {NoMsg} \cup Reports
  /\ nReports \in 0..MaxReports
  /\ allocated \subseteq Reports
  /\ xMessageQ \in Seq(Reports) /\ Len(xMessageQ) <= QueueLength
  /\ queue \in {"live", "freed", "null"}
  /\ halted \in BOOLEAN
  /\ spc \in {"start", "loop", "socket", "sleep"} \cup Online
  /\ sMsg \in {NoMsg} \cup Reports
  /\ nLeaked \in 0..NumSockets
  /\ linkUp \in BOOLEAN /\ up \in BOOLEAN /\ dhcp \in BOOLEAN
  /\ net \in {"unplugged", "down", "ok"}
  /\ nChanges \in 0..MaxChanges
  /\ conn \in {"none", "alive", "broken"}
  /\ nDropped \in 0..MaxReports /\ nWritten \in 0..MaxReports
  /\ nLost \in 0..MaxReports /\ lastWritten \in 0..MaxReports

\* Both tasks have been started, the counter's port is open.
Init ==
  /\ cpc = "input"
  /\ pBuffer = NoReading /\ pPrevBuffer = NoReading
  /\ newSecond = FALSE
  /\ cMsg = NoMsg
  /\ nReports = 0
  /\ allocated = {}
  /\ xMessageQ = <<>>
  /\ queue = "live"
  /\ halted = FALSE
  /\ spc = "start"
  /\ sMsg = NoMsg
  /\ nLeaked = 0
  /\ linkUp = FALSE /\ up = FALSE /\ dhcp = FALSE
  /\ net \in {"unplugged", "down", "ok"}
  /\ nChanges = 0
  /\ conn = "none"
  /\ nDropped = 0 /\ nWritten = 0 /\ nLost = 0 /\ lastWritten = 0

(***************************************************************************)
(* The counter task                                                        *)
(***************************************************************************)

\* fInput has a complete frame; fGetMessage makes the message.
Input(r) ==
  /\ cpc = "input"
  /\ nReports < MaxReports
  /\ pBuffer' = r
  /\ cpc' = "compare"
  /\ UNCHANGED <<pPrevBuffer, newSecond, cMsg, nReports, heapVars, serverVars, worldVars, history>>

\* The tick count enters another second.
Tick ==
  /\ ~newSecond
  /\ newSecond' = TRUE
  /\ UNCHANGED <<cpc, pBuffer, pPrevBuffer, cMsg, nReports, heapVars, serverVars, worldVars, history>>

\* A report is due if the second or the message differs from the last one's.
\* ulTime is sampled here, so a later tick starts another second.
Compare ==
  /\ cpc = "compare"
  /\ IF newSecond \/ pBuffer # pPrevBuffer
       THEN cpc' = "malloc" /\ newSecond' = FALSE
       ELSE cpc' = "input" /\ UNCHANGED newSecond
  /\ UNCHANGED <<pBuffer, pPrevBuffer, cMsg, nReports, heapVars, serverVars, worldVars, history>>

\* SVRIF_send: pvPortMalloc.
Malloc ==
  /\ cpc = "malloc"
  /\ nReports' = nReports + 1
  /\ IF Cardinality(allocated) < HeapBlocks
       THEN /\ cMsg' = nReports'
            /\ allocated' = allocated \cup {cMsg'}
            /\ cpc' = "send"
            /\ UNCHANGED nDropped
       ELSE /\ cpc' = "record"
            /\ nDropped' = nDropped + 1
            /\ UNCHANGED <<cMsg, allocated>>
  /\ UNCHANGED <<pBuffer, pPrevBuffer, newSecond, xMessageQ, queue, halted, serverVars, worldVars,
                 nWritten, nLost, lastWritten>>

\* Mutant: the message that does not fit into the queue is not freed.
SendKeepsRefused ==
  /\ cpc = "send" /\ queue = "live"
  /\ IF Len(xMessageQ) < QueueLength
       THEN xMessageQ' = Append(xMessageQ, cMsg) /\ UNCHANGED nDropped
       ELSE nDropped' = nDropped + 1 /\ UNCHANGED xMessageQ
  /\ cMsg' = NoMsg
  /\ cpc' = "record"
  /\ UNCHANGED <<pBuffer, pPrevBuffer, newSecond, nReports, allocated, queue, halted, serverVars,
                 worldVars, nWritten, nLost, lastWritten>>

\* Mutant: the message is sent to the front of the queue.
SendToFront ==
  /\ cpc = "send" /\ queue = "live"
  /\ IF Len(xMessageQ) < QueueLength
       THEN xMessageQ' = <<cMsg>> \o xMessageQ /\ UNCHANGED <<allocated, nDropped>>
       ELSE /\ allocated' = allocated \ {cMsg}
            /\ nDropped' = nDropped + 1
            /\ UNCHANGED xMessageQ
  /\ cMsg' = NoMsg
  /\ cpc' = "record"
  /\ UNCHANGED <<pBuffer, pPrevBuffer, newSecond, nReports, queue, halted, serverVars,
                 worldVars, nWritten, nLost, lastWritten>>

\* SVRIF_send: xQueueSend without waiting; a message that does not fit is freed.
Send ==
  /\ cpc = "send" /\ queue = "live"
  /\ IF Len(xMessageQ) < QueueLength
       THEN xMessageQ' = Append(xMessageQ, cMsg) /\ UNCHANGED <<allocated, nDropped>>
       ELSE /\ allocated' = allocated \ {cMsg}
            /\ nDropped' = nDropped + 1
            /\ UNCHANGED xMessageQ
  /\ cMsg' = NoMsg
  /\ cpc' = "record"
  /\ UNCHANGED <<pBuffer, pPrevBuffer, newSecond, nReports, queue, halted, serverVars,
                 worldVars, nWritten, nLost, lastWritten>>

\* SVRIF_send's result is ignored: the report counts as made.
Record ==
  /\ cpc = "record"
  /\ pPrevBuffer' = pBuffer
  /\ cpc' = "input"
  /\ UNCHANGED <<pBuffer, newSecond, cMsg, nReports, heapVars, serverVars, worldVars, history>>

CounterStep == Compare \/ Malloc \/ Send \/ Record

(***************************************************************************)
(* The server task                                                         *)
(***************************************************************************)

\* tcpip_init, netif_add, ETH_lowLevelInit and dhcp_start.  HAL_ETH_Init
\* succeeds if the cable is plugged in; dhcp_start refuses an interface that
\* is not up, and its result is ignored.  netif_add cannot fail: NETIF_initCB
\* returns ERR_OK.
StartNet ==
  /\ spc = "start"
  /\ linkUp' = (net # "unplugged")
  /\ dhcp' = up
  /\ spc' = "loop"
  /\ UNCHANGED <<counterVars, heapVars, sMsg, nLeaked, up, worldVars, history>>

\* Mutant: the client runs only when the interface has just been set up.
LoopRunsClientOnce ==
  /\ spc = "loop"
  /\ up' = linkUp
  /\ spc' = IF linkUp /\ ~up THEN "socket" ELSE "sleep"
  /\ UNCHANGED <<counterVars, heapVars, sMsg, nLeaked, linkUp, dhcp, worldVars, history>>

\* The loop of SVRIF_taskMain: bring the interface up or down after the link
\* flag, and run the client when both are up.
Loop ==
  /\ spc = "loop"
  /\ up' = linkUp
  /\ spc' = IF linkUp THEN "socket" ELSE "sleep"
  /\ UNCHANGED <<counterVars, heapVars, sMsg, nLeaked, linkUp, dhcp, worldVars, history>>

\* osDelay(1000) in that loop.
Sleep ==
  /\ spc = "sleep"
  /\ spc' = "loop"
  /\ UNCHANGED <<counterVars, heapVars, sMsg, nLeaked, ifVars, worldVars, history>>

\* lwip_socket takes a free socket or fails.
Socket ==
  /\ spc = "socket"
  /\ spc' = IF nLeaked < NumSockets THEN "connect" ELSE "sleep"
  /\ UNCHANGED <<counterVars, heapVars, sMsg, nLeaked, ifVars, worldVars, history>>

Connected ==
  /\ spc = "connect" /\ net = "ok"
  /\ conn' = "alive"
  /\ spc' = "receive"
  /\ UNCHANGED <<counterVars, heapVars, sMsg, nLeaked, ifVars, net, nChanges, history>>

\* lwip_connect fails: the client returns without closing the socket.
ConnectFailed ==
  /\ spc = "connect" /\ net # "ok"
  /\ nLeaked' = nLeaked + 1
  /\ spc' = "sleep"
  /\ UNCHANGED <<counterVars, heapVars, sMsg, ifVars, worldVars, history>>

\* Mutant: the client looks at the oldest message and leaves it in the queue.
ReceivePeeks ==
  /\ spc = "receive" /\ queue = "live" /\ xMessageQ # <<>>
  /\ sMsg' = Head(xMessageQ)
  /\ spc' = "write"
  /\ UNCHANGED <<counterVars, heapVars, nLeaked, ifVars, worldVars, history>>

Receive ==
  /\ spc = "receive" /\ queue = "live" /\ xMessageQ # <<>>
  /\ sMsg' = Head(xMessageQ)
  /\ xMessageQ' = Tail(xMessageQ)
  /\ spc' = "write"
  /\ UNCHANGED <<counterVars, allocated, queue, halted, nLeaked, ifVars, worldVars, history>>

\* A receive that times out changes nothing; the client waits and tries again.
ReceiveTimeout ==
  /\ spc = "receive" /\ queue = "live" /\ xMessageQ = <<>>
  /\ UNCHANGED vars

\* lwip_write takes the whole frame on a connection that is alive: the socket
\* blocks and has no send timeout, so the partial write that the client traces
\* (233-236) does not happen, and would be freed like this one.
Write ==
  /\ spc = "write" /\ conn = "alive"
  /\ nWritten' = nWritten + 1
  /\ lastWritten' = sMsg
  /\ spc' = "sent"
  /\ UNCHANGED <<counterVars, heapVars, sMsg, nLeaked, ifVars, worldVars, nDropped, nLost>>

\* On a broken one it takes the frame all the same, while TCP has not given
\* up, or it fails.  Either way the report is lost.
WriteLost ==
  /\ spc = "write" /\ conn = "broken"
  /\ nLost' = nLost + 1
  /\ spc' \in {"sent", "failed"}
  /\ UNCHANGED <<counterVars, heapVars, sMsg, nLeaked, ifVars, worldVars, nDropped, nWritten, lastWritten>>

\* vPortFree, then on with the loop or, after an error, out of it.
Free ==
  /\ spc \in {"sent", "failed"}
  /\ allocated' = allocated \ {sMsg}
  /\ sMsg' = NoMsg
  /\ spc' = IF spc = "sent" THEN "receive" ELSE "close"
  /\ UNCHANGED <<counterVars, xMessageQ, queue, halted, nLeaked, ifVars, worldVars, history>>

\* Mutant: the client returns without lwip_close.
CloseForgotten ==
  /\ spc = "close"
  /\ spc' = "sleep"
  /\ UNCHANGED <<counterVars, heapVars, sMsg, nLeaked, ifVars, worldVars, history>>

\* lwip_close after the loop.
Close ==
  /\ spc = "close"
  /\ conn' = "none"
  /\ spc' = "sleep"
  /\ UNCHANGED <<counterVars, heapVars, sMsg, nLeaked, ifVars, net, nChanges, history>>

ServerStep ==
  \/ StartNet \/ Loop \/ Sleep \/ Socket \/ Connected \/ ConnectFailed
  \/ Receive \/ ReceiveTimeout \/ Write \/ WriteLost \/ Free \/ Close

(***************************************************************************)
(* The world outside                                                       *)
(***************************************************************************)

\* The cable or the server goes or comes back.  A connection may survive.
\* No interrupt or poll tells the firmware: HAL_GPIO_EXTI_Callback is empty.
NetChange ==
  /\ nChanges < MaxChanges
  /\ nChanges' = nChanges + 1
  /\ net' \in {"unplugged", "down", "ok"} \ {net}
  /\ conn' \in IF conn = "alive" THEN {"alive", "broken"} ELSE {conn}
  /\ UNCHANGED <<counterVars, heapVars, serverVars, history>>

-----------------------------------------------------------------------------

Next == \/ \E r \in Readings : Input(r)
        \/ Tick
        \/ CounterStep
        \/ ServerStep
        \/ NetChange

Spec == Init /\ [][Next]_vars

\* A task that can run does: both have one priority and are time-sliced, and
\* connects and writes end, by TCP's own timeouts at the latest.
Fairness == WF_vars(CounterStep) /\ WF_vars(ServerStep)

FairSpec == Spec /\ Fairness

-----------------------------------------------------------------------------
(***************************************************************************)
(* Correctness                                                             *)
(***************************************************************************)

\* The blocks the tasks and the queue refer to.
Held == (IF cpc = "send" THEN {cMsg} ELSE {})
          \cup {xMessageQ[i] : i \in DOMAIN xMessageQ}
          \cup (IF spc \in {"write", "sent", "failed"} THEN {sMsg} ELSE {})

\* A block of the heap has one owner: it is with the sender, once in the queue
\* or with the client, and it is allocated.  None is freed twice, used after it
\* was freed, or forgotten (serverif.c:84-98, 207, 228, 241).
OneOwner ==
  /\ allocated = Held
  /\ Cardinality(Held) = Len(xMessageQ)
       + (IF cpc = "send" THEN 1 ELSE 0)
       + (IF spc \in {"write", "sent", "failed"} THEN 1 ELSE 0)

\* No report vanishes without a trace: it is under way, written, refused or
\* was given up on a broken connection.
ReportsConserved ==
  nReports = nDropped + nWritten + nLost + Len(xMessageQ)
               + (IF cpc = "send" THEN 1 ELSE 0)
               + (IF spc = "write" THEN 1 ELSE 0)

\* The only socket not accounted for is that of a failed connect, and once
\* those are all gone the client has stopped for good (191-201, 251).
SocketsAccounted ==
  /\ nLeaked + (IF spc \in Online THEN 1 ELSE 0) <= NumSockets
  /\ conn # "none" => spc \in Online \ {"connect"}

\* The reports go to the server in the order they were made, each at most once,
\* and none is refused while there is room for it.
Channel == INSTANCE ReportChannel WITH
             Room <- IF QueueLength < HeapBlocks THEN QueueLength ELSE HeapBlocks - 1,
             LastReport <- MaxReports,
             pending <- (IF spc = "write" THEN <<sMsg>> ELSE <<>>) \o xMessageQ

ImplementsReportChannel == Channel!Spec

\* A report in the queue is taken from it some day, unless the board was
\* started without a link, or every socket was lost to failed connects.
QueueDrains ==
  \A m \in Reports :
    (\E i \in DOMAIN xMessageQ : xMessageQ[i] = m)
      ~> \/ \A i \in DOMAIN xMessageQ : xMessageQ[i] # m
         \/ ~linkUp
         \/ nLeaked = NumSockets

\* "Start DHCP negotiation for a network interface (IPv4)" (serverif.c:142):
\* once the network has been started on a link, the DHCP client runs.
DhcpNegotiates == spc # "start" /\ linkUp => dhcp

=============================================================================
