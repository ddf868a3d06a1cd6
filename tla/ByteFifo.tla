------------------------------ MODULE ByteFifo ------------------------------
(***************************************************************************)
(* What a serial port of src/Src/serial.c promises the task that reads it: *)
(* a bounded first-in first-out line of bytes.  A byte that arrives when   *)
(* the line is full pushes the oldest one out; nothing else removes a byte *)
(* but a read, and a read takes the oldest.  Bytes are numbered in the     *)
(* order in which they came over the wire, so a byte's number is its       *)
(* identity; some numbers may never enter the line (receiver overrun).     *)
(***************************************************************************)
EXTENDS Naturals, Sequences

CONSTANTS Capacity,     \* ulRxBufferLength
          LastByte      \* the number of the last byte on the wire

VARIABLES fifo,         \* the bytes received and not yet read, oldest first
          lastRead      \* the byte the latest successful read returned

vars == <<fifo, lastRead>>

Init == /\ fifo = <<>>
        /\ lastRead = 0

\* b is newer than every byte that is in the line or was read.
Newer(b) == /\ b > lastRead
            /\ \A i \in DOMAIN fifo : b > fifo[i]

Receive(b) == /\ Newer(b)
              /\ fifo' = Append(IF Len(fifo) = Capacity THEN Tail(fifo) ELSE fifo, b)
              /\ UNCHANGED lastRead

Read == /\ fifo # <<>>
        /\ lastRead' = Head(fifo)
        /\ fifo' = Tail(fifo)

Next == Read \/ \E b \in 1..LastByte : Receive(b)

Spec == Init /\ [][Next]_vars

=============================================================================
