---------------------------- MODULE BoundedQueue ----------------------------
(***************************************************************************)
(* What tasks and interrupt handlers expect of a queue of the kernel: each  *)
(* call takes effect once or not at all; messages come out in the order in  *)
(* which they went in; a call that may not wait fails only if it has to,    *)
(* and one that may wait for ever does not fail.                            *)
(***************************************************************************)
EXTENDS Integers, Sequences

CONSTANTS Tasks, Items, Nothing, Length

VARIABLES contents,  \* the messages in the queue
          call       \* each task's call, with its message and how long it may wait

Patience == {"none", "some", "endless"}

Request(op, i, w) == [op |-> op, item |-> i, wait |-> w]

Init == contents = <<>> /\ call = [t \in Tasks |-> Request("idle", Nothing, "none")]

Begin(t) ==
  /\ call[t].op = "idle"
  /\ \E w \in Patience :
       \/ \E i \in Items : call' = [call EXCEPT ![t] = Request("send", i, w)]
       \/ call' = [call EXCEPT ![t] = Request("receive", Nothing, w)]
  /\ UNCHANGED contents

\* The call returns, with message i if it has received one.
Returns(t, i) == call' = [call EXCEPT ![t] = Request("idle", i, "none")]

Sends(t) ==
  /\ call[t].op = "send" /\ Len(contents) < Length
  /\ contents' = Append(contents, call[t].item)
  /\ Returns(t, Nothing)

Receives(t) ==
  /\ call[t].op = "receive" /\ contents # <<>>
  /\ contents' = Tail(contents)
  /\ Returns(t, Head(contents))

Fails(t) ==
  /\ call[t].op # "idle" /\ call[t].wait # "endless"
  /\ call[t].op = "receive" => contents = <<>>
  /\ call[t].op = "send" /\ call[t].wait = "none" => Len(contents) = Length
  /\ Returns(t, Nothing)
  /\ UNCHANGED contents

\* An interrupt handler's message, if there is room for it.
Post(i) ==
  /\ Len(contents) < Length
  /\ contents' = Append(contents, i)
  /\ UNCHANGED call

Next ==
  \/ \E t \in Tasks : Begin(t) \/ Sends(t) \/ Receives(t) \/ Fails(t)
  \/ \E i \in Items : Post(i)

Spec == Init /\ [][Next]_<<contents, call>>

=============================================================================
