-------------------------------- MODULE Heap --------------------------------
(***************************************************************************)
(* The kernel's heap, heap_4.c, from which the firmware takes its messages, *)
(* ring buffers, queues and task stacks.  Sizes and addresses are counted   *)
(* in units of portBYTE_ALIGNMENT (8 bytes), which is also the size of a    *)
(* block's header, xHeapStructSize; the heap begins at 0 and pxEnd, its     *)
(* last header, lies at HeapUnits.  xStart lies outside, before it.         *)
(*                                                                          *)
(* Both functions suspend the scheduler and interrupts do not allocate, so  *)
(* a step is what they do while it is suspended; vPortFree clears the       *)
(* allocated bit before that and is two steps.  The smallest number of free *)
(* bytes ever, which nothing in the firmware reads, is left out.            *)
(***************************************************************************)
EXTENDS Integers, FiniteSets

CONSTANTS HeapUnits,  \* (configTOTAL_HEAP_SIZE less pxEnd and alignment) / 8
          Requests    \* the sizes asked for, in bytes

ASSUME HeapAssumption == HeapUnits \in Nat \ {0} /\ Requests \subseteq Nat

VARIABLES
  next,        \* pxNextFreeBlock of xStart and of the free blocks
  size,        \* xBlockSize of every block, without the allocated bit
  allocated,   \* the blocks with the allocated bit: the bytes asked for each
  free         \* xFreeBytesRemaining

vars == <<next, size, allocated, free>>

xStart == -1
pxEnd == HeapUnits
Units == 0..(HeapUnits - 1)
Listed == DOMAIN next \ {xStart}
Blocks == DOMAIN size
InUse == DOMAIN allocated

\* heapMINIMUM_BLOCK_SIZE
MinimumBlock == 2

\* The block's header and the bytes asked for, rounded up; 0 is refused.
WantedSize(n) == IF n = 0 THEN 0 ELSE 1 + (n + 7) \div 8

Without(f, S) == [x \in DOMAIN f \ S |-> f[x]]

TypeOK ==
  /\ size \in [Blocks -> 1..HeapUnits] /\ Blocks \subseteq Units
  /\ next \in [Listed \cup {xStart} -> Listed \cup {pxEnd}] /\ Listed \subseteq Blocks
  /\ xStart \in DOMAIN next
  /\ allocated \in [InUse -> Requests] /\ InUse \subseteq Blocks \ Listed
  /\ free \in 0..HeapUnits

\* prvHeapInit
Init ==
  /\ next = [b \in {xStart, 0} |-> IF b = xStart THEN 0 ELSE pxEnd]
  /\ size = [b \in {0} |-> HeapUnits]
  /\ allocated = [b \in {} |-> 0]
  /\ free = HeapUnits

(***************************************************************************)
(* prvInsertBlockIntoFreeList: block b of the sizes sz goes into the list   *)
(* nx, behind the last block with a lower address, and is merged with its   *)
(* neighbours in the list if they are its neighbours in memory.             *)
(***************************************************************************)

Iterator(nx, b) == CHOOSE p \in DOMAIN nx : p < b /\ ~(nx[p] < b)

\* Mutant: a block is never merged with the one behind it.
MergesAfterNever(nx, sz, b) == FALSE

MergesBefore(nx, sz, b) ==
  Iterator(nx, b) # xStart /\ Iterator(nx, b) + sz[Iterator(nx, b)] = b
MergesAfter(nx, sz, b) ==
  b + sz[b] = nx[Iterator(nx, b)] /\ nx[Iterator(nx, b)] # pxEnd

InsertedNext(nx, sz, b) ==
  LET it == Iterator(nx, b)
      at == IF MergesBefore(nx, sz, b) THEN it ELSE b
      gone == IF MergesAfter(nx, sz, b) THEN {nx[it]} ELSE {}
  IN  [p \in (DOMAIN nx \cup {at}) \ gone |->
         IF p = at THEN IF gone = {} THEN nx[it] ELSE nx[nx[it]]
         ELSE IF p = it THEN at ELSE nx[p]]

InsertedSize(nx, sz, b) ==
  LET it == Iterator(nx, b)
      at == IF MergesBefore(nx, sz, b) THEN it ELSE b
      gone == (IF at = it THEN {b} ELSE {})
                \cup (IF MergesAfter(nx, sz, b) THEN {nx[it]} ELSE {})
  IN  [p \in DOMAIN sz \ gone |->
         IF p # at THEN sz[p]
         ELSE sz[b] + (IF at = it THEN sz[it] ELSE 0)
                + (IF MergesAfter(nx, sz, b) THEN sz[nx[it]] ELSE 0)]

(***************************************************************************)
(* pvPortMalloc                                                             *)
(***************************************************************************)

\* Mutant: the header is not counted.
FirstFitPayload(w, b) ==
  /\ b \in Listed /\ size[b] >= w - 1
  /\ \A c \in Listed : c < b => size[c] < w - 1

\* The list is walked in its order, which is that of the addresses.
FirstFit(w, b) ==
  /\ b \in Listed /\ size[b] >= w
  /\ \A c \in Listed : c < b => size[c] < w

\* Does pvPortMalloc return NULL?
Refused(w) == w = 0 \/ w > free \/ ~\E b \in Listed : size[b] >= w

\* The first block that is large enough leaves the list; what remains of it
\* goes back if it is larger than two headers.
Malloc(n) ==
  LET w == WantedSize(n) IN
  /\ ~Refused(w)
  /\ \E b \in Listed, p \in DOMAIN next :
       /\ FirstFit(w, b) /\ next[p] = b
       /\ LET unlinked == [Without(next, {b}) EXCEPT ![p] = next[b]]
              splits == size[b] - w > MinimumBlock
              rest == b + w
              split == [c \in Blocks \cup {rest} |->
                          IF c = b THEN w ELSE IF c = rest THEN size[b] - w ELSE size[c]]
          IN  /\ next' = IF splits THEN InsertedNext(unlinked, split, rest) ELSE unlinked
              /\ size' = IF splits THEN InsertedSize(unlinked, split, rest) ELSE size
              /\ free' = free - (IF splits THEN w ELSE size[b])
              /\ allocated' = [c \in InUse \cup {b} |-> IF c = b THEN n ELSE allocated[c]]

(***************************************************************************)
(* vPortFree                                                                *)
(***************************************************************************)

\* The assertions hold (the caller owns the block); the bit is cleared.
FreeBegin(b) ==
  /\ b \in InUse
  /\ allocated' = Without(allocated, {b})
  /\ UNCHANGED <<next, size, free>>

\* Mutant: the bytes are not counted as free again.
FreeEndUncounted(b) ==
  /\ b \in Blocks \ (InUse \cup Listed)
  /\ next' = InsertedNext(next, size, b)
  /\ size' = InsertedSize(next, size, b)
  /\ UNCHANGED <<allocated, free>>

\* With the scheduler suspended the block goes back to the list.
FreeEnd(b) ==
  /\ b \in Blocks \ (InUse \cup Listed)
  /\ free' = free + size[b]
  /\ next' = InsertedNext(next, size, b)
  /\ size' = InsertedSize(next, size, b)
  /\ UNCHANGED allocated

Next ==
  \/ \E n \in Requests : Malloc(n)
  \/ \E b \in Units : FreeBegin(b) \/ FreeEnd(b)

Spec == Init /\ [][Next]_vars

-----------------------------------------------------------------------------
(***************************************************************************)
(* Correctness                                                              *)
(***************************************************************************)

UnitsOf(b) == b..(b + size[b] - 1)
FreeUnits == UNION {UnitsOf(b) : b \in Listed}

\* The list holds the free blocks in the order of their addresses, no two of
\* them adjacent, and xFreeBytesRemaining is what they amount to, through every
\* sequence of splits and merges (heap_4.c:414-477, 253, 330).
FreeListExact ==
  /\ \A p \in DOMAIN next : p < next[p] /\ \A b \in Listed : b <= p \/ b >= next[p]
  /\ \A b, c \in Listed : b + size[b] # c
  /\ free = Cardinality(FreeUnits)

\* A request fails only if no run of free units is large enough for it: neither
\* a stale count of free bytes nor neighbours left unmerged refuse what there is
\* room for (heap_4.c:199-214).
FailsOnlyWhenNothingFits ==
  \A n \in Requests : LET w == WantedSize(n) IN
    Refused(w) /\ w > 0 => \A a \in Units : ~(a..(a + w - 1) \subseteq FreeUnits)

Promise == INSTANCE Allocator
  WITH owned <- [b \in InUse |-> [units |-> size[b], asked |-> allocated[b]]]

\* Callers' blocks are large enough for what was asked and never overlap
\* (heap_4.c:155-293).
ImplementsAllocator == Promise!Spec

=============================================================================
