---------------------------- MODULE ReportChannel ----------------------------
(***************************************************************************)
(* What the counter task may expect of SVRIF_send (src/Src/serverif.c): a  *)
(* bounded channel to the server that may lose reports but neither repeats *)
(* nor reorders them, and refuses one only when Room reports are under     *)
(* way.  A report is the number of the SVRIF_send call that made it.       *)
(***************************************************************************)
EXTENDS Naturals, Sequences

CONSTANTS Room,         \* reports the channel holds at least
          LastReport    \* the number of the last report

VARIABLES pending,      \* reports accepted and not yet written, oldest first
          lastWritten,  \* the report written to the server last
          nDropped      \* reports refused

vars == <<pending, lastWritten, nDropped>>

Init == /\ pending = <<>>
        /\ lastWritten = 0
        /\ nDropped = 0

Accept(report) ==
  /\ report > lastWritten
  /\ \A i \in DOMAIN pending : report > pending[i]
  /\ pending' = Append(pending, report)
  /\ UNCHANGED <<lastWritten, nDropped>>

Refuse == /\ Len(pending) >= Room
          /\ nDropped' = nDropped + 1
          /\ UNCHANGED <<pending, lastWritten>>

Deliver == /\ pending # <<>>
           /\ lastWritten' = Head(pending)
           /\ pending' = Tail(pending)
           /\ UNCHANGED nDropped

\* The connection fails under the oldest report.
Lose == /\ pending # <<>>
        /\ pending' = Tail(pending)
        /\ UNCHANGED <<lastWritten, nDropped>>

Next == \/ \E report \in 1..LastReport : Accept(report)
        \/ Refuse
        \/ Deliver
        \/ Lose

Spec == Init /\ [][Next]_vars

=============================================================================
