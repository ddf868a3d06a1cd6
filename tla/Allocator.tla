----------------------------- MODULE Allocator -----------------------------
(***************************************************************************)
(* What the firmware expects of pvPortMalloc and vPortFree: a block given   *)
(* to a caller has room for what was asked, besides the header in its first *)
(* unit, lies in the heap and shares nothing with any other caller's block, *)
(* until its owner gives it back.                                           *)
(***************************************************************************)
EXTENDS Integers

CONSTANTS HeapUnits,  \* size of the heap, in units of 8 bytes
          Requests    \* the sizes asked for, in bytes

VARIABLE owned  \* the blocks in use, by address

Range(a, n) == a..(a + n - 1)
Taken == UNION {Range(a, owned[a].units) : a \in DOMAIN owned}

Init == owned = [a \in {} |-> 0]

\* A block that nobody uses any part of.
Allocate ==
  \E r \in Requests, a \in 0..(HeapUnits - 1), n \in 1..HeapUnits :
    /\ r <= 8 * (n - 1)
    /\ Range(a, n) \subseteq 0..(HeapUnits - 1)
    /\ Range(a, n) \cap Taken = {}
    /\ owned' = [b \in DOMAIN owned \cup {a} |->
                   IF b = a THEN [units |-> n, asked |-> r] ELSE owned[b]]

Release ==
  \E a \in DOMAIN owned : owned' = [b \in DOMAIN owned \ {a} |-> owned[b]]

Next == Allocate \/ Release
Spec == Init /\ [][Next]_owned

=============================================================================
