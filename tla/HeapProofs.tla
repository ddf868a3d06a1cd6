----------------------------- MODULE HeapProofs -----------------------------
(***************************************************************************)
(* Proofs about Heap.tla, for every size of the heap and every request.     *)
(*                                                                          *)
(* The invariant is that of a pair of a list and a table of sizes, ListOK,  *)
(* so that the lemmas can be stated for the intermediate values pvPortMalloc *)
(* goes through: a block is unlinked, split, and its rest inserted again.   *)
(***************************************************************************)
EXTENDS Heap, TLAPS, FiniteSetTheorems

FU(nx, sz) == UNION {b..(b + sz[b] - 1) : b \in DOMAIN nx \ {xStart}}

\* The blocks lie in the heap and do not overlap.
SizesOK(sz) ==
  /\ DOMAIN sz \subseteq Units /\ sz \in [DOMAIN sz -> 1..HeapUnits]
  /\ \A b \in DOMAIN sz : b + sz[b] <= HeapUnits
  /\ \A b, c \in DOMAIN sz : b < c => b + sz[b] <= c

\* The list holds blocks in the order of their addresses and ends at pxEnd.
OrderOK(nx) ==
  /\ xStart \in DOMAIN nx
  /\ nx \in [DOMAIN nx -> (DOMAIN nx \ {xStart}) \cup {pxEnd}]
  /\ \A p \in DOMAIN nx : p < nx[p]
  /\ \A p, b \in DOMAIN nx : b <= p \/ b >= nx[p]
  /\ \A u \in Units : \E p \in DOMAIN nx : p < u /\ u <= nx[p]

ListOK(nx, sz) ==
  /\ SizesOK(sz) /\ OrderOK(nx)
  /\ DOMAIN nx \ {xStart} \subseteq DOMAIN sz
  /\ \A b, c \in DOMAIN nx \ {xStart} : b + sz[b] # c

-----------------------------------------------------------------------------
(***************************************************************************)
(* The place where a block is inserted                                      *)
(***************************************************************************)

\* The walk of prvInsertBlockIntoFreeList ends at the block, or xStart, that
\* precedes the new block in memory.
LEMMA IteratorFound ==
  ASSUME NEW nx, NEW sz, ListOK(nx, sz), NEW b \in DOMAIN sz \ DOMAIN nx
  PROVE  /\ Iterator(nx, b) \in DOMAIN nx
         /\ Iterator(nx, b) < b /\ b < nx[Iterator(nx, b)]
<1> DEFINE P(p) == p \in DOMAIN nx /\ p < b /\ ~(nx[p] < b)
<1>1. b \in Units
  BY DEF ListOK, SizesOK
<1>2. PICK p \in DOMAIN nx : p < b /\ b <= nx[p]
  BY <1>1 DEF ListOK, OrderOK
<1>3. nx[p] \in Int /\ b \in Int
  BY <1>1, HeapAssumption DEF ListOK, OrderOK, SizesOK, Units, pxEnd
<1>4. p < b /\ ~(nx[p] < b)
  BY <1>2, <1>3
<1>5. Iterator(nx, b) \in DOMAIN nx /\ Iterator(nx, b) < b /\ ~(nx[Iterator(nx, b)] < b)
  BY <1>2, <1>4, Zenon DEF Iterator
<1>6. nx[Iterator(nx, b)] # b
  BY <1>1, <1>5, HeapAssumption DEF ListOK, OrderOK, Units, pxEnd
<1>7. nx[Iterator(nx, b)] \in Int
  BY <1>5, HeapAssumption DEF ListOK, OrderOK, SizesOK, Units, pxEnd
<1>8. QED
  BY <1>3, <1>5, <1>6, <1>7

-----------------------------------------------------------------------------
(***************************************************************************)
(* The insertion, with its merges                                           *)
(***************************************************************************)

\* What the list N and the sizes Z are, once block b has been inserted.
Inserted(nx, sz, b, N, Z) ==
  /\ ListOK(N, Z)
  /\ FU(N, Z) = FU(nx, sz) \cup b..(b + sz[b] - 1)
  /\ \A c \in DOMAIN sz \ (DOMAIN nx \cup {b}) : c \in DOMAIN Z \ DOMAIN N /\ Z[c] = sz[c]

\* What is known of a block and of the place found for it.
Place(nx, sz, b, it, n) ==
  /\ SizesOK(sz) /\ OrderOK(nx)
  /\ DOMAIN nx \ {xStart} \subseteq DOMAIN sz
  /\ \A c, d \in DOMAIN nx \ {xStart} : c + sz[c] # d
  /\ b \in DOMAIN sz \ DOMAIN nx /\ it \in DOMAIN nx /\ n = nx[it]
  /\ it < b /\ b < n

\* The list and the sizes in the four cases of merging.
AloneNext(nx, b, it) ==
  [p \in DOMAIN nx \cup {b} |-> IF p = b THEN nx[it] ELSE IF p = it THEN b ELSE nx[p]]
AfterNext(nx, b, it) ==
  [p \in (DOMAIN nx \cup {b}) \ {nx[it]} |->
     IF p = b THEN nx[nx[it]] ELSE IF p = it THEN b ELSE nx[p]]
AfterSize(nx, sz, b, it) ==
  [p \in DOMAIN sz \ {nx[it]} |-> IF p # b THEN sz[p] ELSE sz[b] + sz[nx[it]]]
BeforeSize(nx, sz, b, it) ==
  [p \in DOMAIN sz \ {b} |-> IF p # it THEN sz[p] ELSE sz[b] + sz[it]]
BetweenNext(nx, b, it) ==
  [p \in DOMAIN nx \ {nx[it]} |-> IF p = it THEN nx[nx[it]] ELSE nx[p]]
BetweenSize(nx, sz, b, it) ==
  [p \in DOMAIN sz \ {b, nx[it]} |->
     IF p # it THEN sz[p] ELSE sz[b] + sz[it] + sz[nx[it]]]

LEMMA PlaceFound ==
  ASSUME NEW nx, NEW sz, ListOK(nx, sz), NEW b \in DOMAIN sz \ DOMAIN nx
  PROVE  Place(nx, sz, b, Iterator(nx, b), nx[Iterator(nx, b)])
BY IteratorFound DEF ListOK, Place

\* The units of the listed blocks.
LEMMA InFU ==
  ASSUME NEW nx, NEW sz, NEW u
  PROVE  u \in FU(nx, sz) <=> \E c \in DOMAIN nx \ {xStart} : u \in c..(c + sz[c] - 1)
BY Zenon DEF FU

\* A free block stands alone between its neighbours.
LEMMA InsertAlone ==
  ASSUME NEW nx, NEW sz, NEW b, NEW it, NEW n, Place(nx, sz, b, it, n),
         ~(it # xStart /\ it + sz[it] = b), ~(b + sz[b] = n /\ n # pxEnd),
         NEW N, N = AloneNext(nx, b, it)
  PROVE  Inserted(nx, sz, b, N, sz)
<1> USE HeapAssumption DEF xStart, pxEnd, Units, AloneNext
<1>1. OrderOK(N)
  <2>1. DOMAIN nx \subseteq -1..(HeapUnits - 1) /\ b \in 0..(HeapUnits - 1) /\ n \in 0..HeapUnits
    BY DEF Place, SizesOK, OrderOK
  <2>2. \A p \in DOMAIN N : N[p] \in (DOMAIN N \ {xStart}) \cup {pxEnd} /\ p < N[p]
    BY <2>1 DEF Place, OrderOK
  <2>3. \A p, c \in DOMAIN N : c <= p \/ c >= N[p]
    BY <2>1 DEF Place, OrderOK
  <2>4. ASSUME NEW u \in Units PROVE \E p \in DOMAIN N : p < u /\ u <= N[p]
    <3>1. PICK p \in DOMAIN nx : p < u /\ u <= nx[p]
      BY DEF Place, OrderOK
    <3>2. CASE p # it
      BY <2>1, <3>1, <3>2 DEF Place
    <3>3. CASE p = it
      BY <2>1, <3>1, <3>3 DEF Place
    <3>4. QED BY <3>2, <3>3
  <2>5. QED BY <2>2, <2>3, <2>4 DEF Place, OrderOK
<1>2. ASSUME NEW c \in DOMAIN N \ {xStart}, NEW d \in DOMAIN N \ {xStart}, c + sz[c] = d
      PROVE  FALSE
  <2>1. CASE c = b
    BY <1>2, <2>1 DEF Place, SizesOK, OrderOK
  <2>2. CASE c # b /\ d = b
    <3>1. /\ c \in DOMAIN nx /\ c \in DOMAIN sz /\ c \in Int /\ it \in Int /\ n \in Int
          /\ sz[c] \in 1..HeapUnits /\ c + sz[c] = b /\ b \in Int /\ b < n /\ it < b
      BY <1>2, <2>2 DEF Place, SizesOK, OrderOK
    <3>2. c <= it \/ c >= n
      BY <3>1 DEF Place, OrderOK
    <3>3. c # it
      BY <1>2, <3>1
    <3>4. it \in DOMAIN sz /\ c < it => c + sz[c] <= it
      BY <3>1 DEF Place, SizesOK
    <3>5. it \in DOMAIN sz \/ it = xStart
      BY DEF Place
    <3>6. c >= 0
      BY <3>1 DEF Place, SizesOK
    <3>7. QED
      BY <3>1, <3>2, <3>3, <3>4, <3>5, <3>6
  <2>3. CASE c # b /\ d # b
    BY <1>2, <2>3 DEF Place
  <2>4. QED BY <2>1, <2>2, <2>3
<1>3. ListOK(N, sz)
  BY <1>1, <1>2 DEF ListOK, Place
<1>4. FU(N, sz) = FU(nx, sz) \cup b..(b + sz[b] - 1)
  BY DEF FU, Place, SizesOK
<1>5. QED
  BY <1>3, <1>4 DEF Inserted, Place

\* The block is merged with the one before it alone.
LEMMA InsertBefore ==
  ASSUME NEW nx, NEW sz, NEW b, NEW it, NEW n, Place(nx, sz, b, it, n),
         it # xStart, it + sz[it] = b, ~(b + sz[b] = n /\ n # pxEnd),
         NEW Z, Z = BeforeSize(nx, sz, b, it)
  PROVE  Inserted(nx, sz, b, nx, Z)
<1> USE HeapAssumption DEF xStart, pxEnd, Units, BeforeSize
<1>1. OrderOK(nx)
  BY DEF Place
<1>2. SizesOK(Z)
  BY DEF Place, SizesOK
<1>3. ASSUME NEW c \in DOMAIN nx \ {xStart}, NEW d \in DOMAIN nx \ {xStart}, c + Z[c] = d
      PROVE  FALSE
  <2>1. CASE c = it
    <3>1. d = b + sz[b] /\ d > it /\ d \in DOMAIN nx /\ d < HeapUnits
      BY <1>3, <2>1 DEF Place, SizesOK
    <3>2. d \in Int /\ it \in Int /\ (d <= it \/ d >= n)
      BY <3>1 DEF Place, OrderOK, SizesOK
    <3>3. n \in DOMAIN sz \/ n = HeapUnits
      BY DEF Place, OrderOK
    <3>4. QED
      BY <3>1, <3>2, <3>3 DEF Place, SizesOK
  <2>2. CASE c # it
    BY <1>3, <2>2 DEF Place
  <2>3. QED BY <2>1, <2>2
<1>4. ListOK(nx, Z)
  BY <1>1, <1>2, <1>3 DEF ListOK, Place
<1>5. FU(nx, Z) = FU(nx, sz) \cup b..(b + sz[b] - 1)
  BY DEF FU, Place, SizesOK
<1>6. QED
  BY <1>4, <1>5 DEF Inserted, Place

\* The block is merged with the one behind it alone.
LEMMA InsertAfter ==
  ASSUME NEW nx, NEW sz, NEW b, NEW it, NEW n, Place(nx, sz, b, it, n),
         ~(it # xStart /\ it + sz[it] = b), b + sz[b] = n, n # pxEnd,
         NEW N, N = AfterNext(nx, b, it), NEW Z, Z = AfterSize(nx, sz, b, it)
  PROVE  Inserted(nx, sz, b, N, Z)
<1> USE HeapAssumption DEF xStart, pxEnd, Units, AfterNext, AfterSize
<1>1. OrderOK(N)
  <2>1. /\ DOMAIN nx \subseteq -1..(HeapUnits - 1) /\ b \in 0..(HeapUnits - 1)
        /\ n \in DOMAIN nx /\ n \in 0..HeapUnits /\ nx[n] \in 0..HeapUnits
    BY DEF Place, SizesOK, OrderOK
  <2>2. \A p \in DOMAIN N : N[p] \in (DOMAIN N \ {xStart}) \cup {pxEnd} /\ p < N[p]
    BY <2>1 DEF Place, OrderOK
  <2>3. \A p, c \in DOMAIN N : c <= p \/ c >= N[p]
    BY <2>1 DEF Place, OrderOK
  <2>4. ASSUME NEW u \in Units PROVE \E p \in DOMAIN N : p < u /\ u <= N[p]
    <3>1. PICK p \in DOMAIN nx : p < u /\ u <= nx[p]
      BY DEF Place, OrderOK
    <3>2. CASE p # it /\ p # n
      BY <2>1, <3>1, <3>2 DEF Place
    <3>3. CASE p = it /\ u <= b
      BY <2>1, <3>1, <3>3 DEF Place
    <3>3a. CASE p = it /\ u > b
      <4>1. b \in DOMAIN N /\ N[b] = nx[n] /\ n < nx[n]
        BY <2>1 DEF Place, OrderOK
      <4>2. QED BY <2>1, <3>1, <3>3a, <4>1 DEF Place
    <3>4. CASE p = n
      BY <2>1, <3>1, <3>4 DEF Place, OrderOK
    <3>5. u \in Int /\ b \in Int
      BY <2>1
    <3>6. p = it => u <= b \/ u > b
      BY <3>5
    <3>7. QED BY <3>2, <3>3, <3>3a, <3>4, <3>6
  <2>5. QED BY <2>2, <2>3, <2>4 DEF Place, OrderOK
<1>2. SizesOK(Z)
  <2>1. n \in DOMAIN sz /\ b \in DOMAIN sz
    BY DEF Place, OrderOK
  <2>2. Z[b] \in Nat /\ b + Z[b] = n + sz[n] /\ DOMAIN Z = DOMAIN sz \ {n}
    BY <2>1 DEF Place, SizesOK
  <2>3. \A p \in DOMAIN Z : Z[p] \in 1..HeapUnits /\ p + Z[p] <= HeapUnits
    BY <2>1, <2>2 DEF Place, SizesOK
  <2>4. \A p, q \in DOMAIN Z : p < q => p + Z[p] <= q
    BY <2>1, <2>2 DEF Place, SizesOK
  <2>5. QED
    BY <2>2, <2>3, <2>4 DEF Place, SizesOK
<1>3. ASSUME NEW c \in DOMAIN N \ {xStart}, NEW d \in DOMAIN N \ {xStart}, c + Z[c] = d
      PROVE  FALSE
  <2>1. CASE c = b
    BY <1>3, <2>1 DEF Place, SizesOK, OrderOK
  <2>2. CASE c # b /\ d = b
    BY <1>3, <2>2 DEF Place, SizesOK, OrderOK
  <2>3. CASE c # b /\ d # b
    BY <1>3, <2>3 DEF Place
  <2>4. QED BY <2>1, <2>2, <2>3
<1>4. ListOK(N, Z)
  BY <1>1, <1>2, <1>3 DEF ListOK, Place
<1>5. FU(N, Z) = FU(nx, sz) \cup b..(b + sz[b] - 1)
  <2>1. b..(b + Z[b] - 1) = b..(b + sz[b] - 1) \cup n..(n + sz[n] - 1)
    BY DEF Place, SizesOK, OrderOK
  <2>2. \A c \in DOMAIN N \ {xStart, b} : Z[c] = sz[c]
    BY DEF Place, OrderOK
  <2>3. DOMAIN N \ {xStart} = ((DOMAIN nx \ {xStart}) \ {n}) \cup {b} /\ n \in DOMAIN nx \ {xStart}
    BY DEF Place, SizesOK, OrderOK
  <2>4. ASSUME NEW u \in FU(N, Z) PROVE u \in FU(nx, sz) \cup b..(b + sz[b] - 1)
    <3>1. PICK c \in DOMAIN N \ {xStart} : u \in c..(c + Z[c] - 1)
      BY InFU
    <3>2. QED BY <2>1, <2>2, <2>3, <3>1, InFU
  <2>5. ASSUME NEW u \in FU(nx, sz) \cup b..(b + sz[b] - 1) PROVE u \in FU(N, Z)
    <3>1. CASE u \in b..(b + sz[b] - 1)
      BY <2>1, <2>3, <3>1, InFU
    <3>2. CASE u \in FU(nx, sz)
      <4>1. PICK c \in DOMAIN nx \ {xStart} : u \in c..(c + sz[c] - 1)
        BY <3>2, InFU
      <4>2. CASE c = n
        BY <2>1, <2>3, <4>1, <4>2, InFU
      <4>3. CASE c # n
        BY <2>2, <2>3, <4>1, <4>3, InFU DEF Place
      <4>4. QED BY <4>2, <4>3
    <3>3. QED BY <3>1, <3>2
  <2>6. QED BY <2>4, <2>5
<1>6. QED
  BY <1>4, <1>5 DEF Inserted, Place, OrderOK

\* The block joins both its neighbours.
LEMMA InsertBetween ==
  ASSUME NEW nx, NEW sz, NEW b, NEW it, NEW n, Place(nx, sz, b, it, n),
         it # xStart, it + sz[it] = b, b + sz[b] = n, n # pxEnd,
         NEW N, N = BetweenNext(nx, b, it), NEW Z, Z = BetweenSize(nx, sz, b, it)
  PROVE  Inserted(nx, sz, b, N, Z)
<1> USE HeapAssumption DEF xStart, pxEnd, Units, BetweenNext, BetweenSize
<1>1. OrderOK(N)
  <2>1. /\ DOMAIN nx \subseteq -1..(HeapUnits - 1) /\ b \in 0..(HeapUnits - 1)
        /\ n \in DOMAIN nx /\ n \in 0..HeapUnits /\ nx[n] \in 0..HeapUnits
    BY DEF Place, SizesOK, OrderOK
  <2>1a. ASSUME NEW q \in DOMAIN nx, nx[q] = n PROVE q = it
    <3>1. (it <= q \/ it >= n) /\ (q <= it \/ q >= n) /\ q < n /\ it < n
      BY <2>1a DEF Place, OrderOK
    <3>2. QED BY <2>1, <3>1 DEF Place
  <2>2. ASSUME NEW p \in DOMAIN N
        PROVE  N[p] \in (DOMAIN N \ {xStart}) \cup {pxEnd} /\ p < N[p]
    <3>1. CASE p = it
      <4>1. nx[n] \in (DOMAIN nx \ {xStart}) \cup {pxEnd} /\ n < nx[n] /\ it < n
        BY <2>1 DEF Place, OrderOK
      <4>2. QED BY <2>1, <3>1, <4>1 DEF Place
    <3>2. CASE p # it
      BY <2>1, <2>1a, <3>2 DEF Place, OrderOK
    <3>3. QED BY <3>1, <3>2
  <2>3. ASSUME NEW p \in DOMAIN N, NEW c \in DOMAIN N PROVE c <= p \/ c >= N[p]
    <3>1. p \in DOMAIN nx /\ c \in DOMAIN nx /\ c # n /\ c \in Int /\ (c <= p \/ c >= nx[p])
      BY <2>1 DEF Place, OrderOK
    <3>2. CASE p = it
      <4>1. c <= n \/ c >= nx[n]
        BY <2>1, <3>1 DEF Place, OrderOK
      <4>2. QED BY <2>1, <3>1, <3>2, <4>1 DEF Place
    <3>3. CASE p # it
      BY <3>1, <3>3
    <3>4. QED BY <3>2, <3>3
  <2>4. ASSUME NEW u \in Units PROVE \E p \in DOMAIN N : p < u /\ u <= N[p]
    <3>1. PICK p \in DOMAIN nx : p < u /\ u <= nx[p]
      BY DEF Place, OrderOK
    <3>2. CASE p # n
      BY <2>1, <3>1, <3>2 DEF Place, OrderOK
    <3>3. CASE p = n
      BY <2>1, <3>1, <3>3 DEF Place, OrderOK
    <3>4. QED BY <3>2, <3>3
  <2>5. QED BY <2>2, <2>3, <2>4 DEF Place, OrderOK
<1>2. SizesOK(Z)
  <2>1. n \in DOMAIN sz /\ it \in DOMAIN sz
    BY DEF Place, OrderOK
  <2>2. Z[it] \in Nat /\ it + Z[it] = n + sz[n] /\ DOMAIN Z = DOMAIN sz \ {b, n}
    BY <2>1 DEF Place, SizesOK
  <2>3. \A p \in DOMAIN Z : Z[p] \in 1..HeapUnits /\ p + Z[p] <= HeapUnits
    BY <2>1, <2>2 DEF Place, SizesOK
  <2>4. \A p, q \in DOMAIN Z : p < q => p + Z[p] <= q
    BY <2>1, <2>2 DEF Place, SizesOK
  <2>5. QED
    BY <2>2, <2>3, <2>4 DEF Place, SizesOK
<1>3. \A c, d \in DOMAIN N \ {xStart} : c + Z[c] # d
  BY DEF Place, SizesOK, OrderOK
<1>4. ListOK(N, Z)
  BY <1>1, <1>2, <1>3 DEF ListOK, Place
<1>5. FU(N, Z) = FU(nx, sz) \cup b..(b + sz[b] - 1)
  <2>1. it..(it + Z[it] - 1)
          = it..(it + sz[it] - 1) \cup b..(b + sz[b] - 1) \cup n..(n + sz[n] - 1)
    BY DEF Place, SizesOK, OrderOK
  <2>2. \A c \in DOMAIN N \ {xStart, it} : Z[c] = sz[c]
    BY DEF Place, OrderOK
  <2>3. /\ DOMAIN N \ {xStart} = (DOMAIN nx \ {xStart}) \ {n}
        /\ n \in DOMAIN nx \ {xStart} /\ it \in DOMAIN N \ {xStart}
    BY DEF Place, SizesOK, OrderOK
  <2>4. ASSUME NEW u \in FU(N, Z) PROVE u \in FU(nx, sz) \cup b..(b + sz[b] - 1)
    <3>1. PICK c \in DOMAIN N \ {xStart} : u \in c..(c + Z[c] - 1)
      BY InFU
    <3>2. CASE c = it
      BY <2>1, <2>3, <3>1, <3>2, InFU
    <3>3. CASE c # it
      BY <2>2, <2>3, <3>1, <3>3, InFU
    <3>4. QED BY <3>2, <3>3
  <2>5. ASSUME NEW u \in FU(nx, sz) \cup b..(b + sz[b] - 1) PROVE u \in FU(N, Z)
    <3>1. CASE u \in b..(b + sz[b] - 1)
      BY <2>1, <2>3, <3>1, InFU
    <3>2. CASE u \in FU(nx, sz)
      <4>1. PICK c \in DOMAIN nx \ {xStart} : u \in c..(c + sz[c] - 1)
        BY <3>2, InFU
      <4>2. CASE c = n
        <5>1. u \in it..(it + Z[it] - 1)
          BY <2>1, <4>1, <4>2
        <5>2. QED BY <2>3, <5>1, InFU
      <4>3. CASE c = it
        BY <2>1, <2>2, <2>3, <4>1, <4>3, InFU
      <4>4. CASE c # n /\ c # it
        <5>1. c \in DOMAIN N \ {xStart} /\ Z[c] = sz[c]
          BY <2>2, <2>3, <4>1, <4>4
        <5>2. QED BY <4>1, <5>1, InFU
      <4>5. QED BY <4>2, <4>3, <4>4
    <3>3. QED BY <3>1, <3>2
  <2>6. QED BY <2>4, <2>5
<1>6. QED
  BY <1>4, <1>5 DEF Inserted, Place, OrderOK

LEMMA Insert ==
  ASSUME NEW nx, NEW sz, ListOK(nx, sz), NEW b \in DOMAIN sz \ DOMAIN nx
  PROVE  Inserted(nx, sz, b, InsertedNext(nx, sz, b), InsertedSize(nx, sz, b))
<1> DEFINE it == Iterator(nx, b)
           n == nx[it]
           before == it # xStart /\ it + sz[it] = b
           after == b + sz[b] = n /\ n # pxEnd
<1>1. Place(nx, sz, b, it, n)
  BY PlaceFound
<1>2. b # it /\ b # n /\ it # n /\ it \in DOMAIN nx
  BY <1>1, HeapAssumption DEF Place, SizesOK, OrderOK, Units, pxEnd, xStart
<1>2a. n # pxEnd => n \in DOMAIN nx
  BY <1>2, <1>1 DEF Place, OrderOK
<1>2b. sz[b] \in Int /\ sz = [p \in DOMAIN sz |-> sz[p]] /\ nx = [p \in DOMAIN nx |-> nx[p]]
       /\ (it # xStart => sz[it] \in Int) /\ (after => sz[n] \in Int)
  BY <1>1, <1>2a, HeapAssumption DEF Place, SizesOK, OrderOK, pxEnd, xStart, ListOK, Units
<1> HIDE DEF it
<1>3. CASE ~before /\ ~after
  <2>1. ~MergesBefore(nx, sz, b) /\ ~MergesAfter(nx, sz, b)
    BY <1>3 DEF it, MergesBefore, MergesAfter
  <2>2. InsertedNext(nx, sz, b) = AloneNext(nx, b, it)
    BY <1>2, <1>2b, <2>1 DEF it, InsertedNext, AloneNext
  <2>3. InsertedSize(nx, sz, b) = sz
    BY <1>2, <1>2b, <2>1 DEF it, InsertedSize
  <2>4. QED
    BY <1>1, <1>3, <2>2, <2>3, InsertAlone
<1>4. CASE before /\ ~after
  <2>1. MergesBefore(nx, sz, b) /\ ~MergesAfter(nx, sz, b)
    BY <1>4 DEF it, MergesBefore, MergesAfter
  <2>2. InsertedNext(nx, sz, b) = nx
    BY <1>2, <1>2b, <2>1 DEF it, InsertedNext
  <2>3. InsertedSize(nx, sz, b) = BeforeSize(nx, sz, b, it)
    BY <1>2, <1>2b, <1>4, <2>1 DEF it, InsertedSize, BeforeSize
  <2>4. QED
    BY <1>1, <1>4, <2>2, <2>3, InsertBefore
<1>5. CASE ~before /\ after
  <2>1. ~MergesBefore(nx, sz, b) /\ MergesAfter(nx, sz, b)
    BY <1>5 DEF it, MergesBefore, MergesAfter
  <2>2. InsertedNext(nx, sz, b) = AfterNext(nx, b, it)
    BY <1>2, <1>2b, <2>1 DEF it, InsertedNext, AfterNext
  <2>3. InsertedSize(nx, sz, b) = AfterSize(nx, sz, b, it)
    BY <1>2, <1>2b, <2>1 DEF it, InsertedSize, AfterSize
  <2>4. QED
    BY <1>1, <1>5, <2>2, <2>3, InsertAfter
<1>6. CASE before /\ after
  <2>1. MergesBefore(nx, sz, b) /\ MergesAfter(nx, sz, b)
    BY <1>6 DEF it, MergesBefore, MergesAfter
  <2>2. InsertedNext(nx, sz, b) = BetweenNext(nx, b, it)
    BY <1>2, <1>2b, <2>1 DEF it, InsertedNext, BetweenNext
  <2>3. InsertedSize(nx, sz, b) = BetweenSize(nx, sz, b, it)
    BY <1>2, <1>2b, <2>1 DEF it, InsertedSize, BetweenSize
  <2>4. QED
    BY <1>1, <1>6, <2>2, <2>3, InsertBetween
<1>7. QED
  BY <1>3, <1>4, <1>5, <1>6

-----------------------------------------------------------------------------
(***************************************************************************)
(* Taking a block out of the list, and splitting it                         *)
(***************************************************************************)

LEMMA UnitsCounted ==
  ASSUME NEW S \in SUBSET Units
  PROVE  IsFiniteSet(S) /\ Cardinality(S) \in 0..HeapUnits
<1>1. IsFiniteSet(Units) /\ Cardinality(Units) = HeapUnits
  BY FS_Interval, HeapAssumption DEF Units
<1>2. IsFiniteSet(S) /\ Cardinality(S) \in Nat /\ Cardinality(S) <= HeapUnits
  BY <1>1, FS_Subset, FS_CardinalityType
<1>3. QED
  BY <1>2, HeapAssumption

\* A run of units taken from a set of units, or added to it, changes the number
\* of its units by its own length.
LEMMA RunCounted ==
  ASSUME NEW S \in SUBSET Units, NEW lo \in Nat, NEW hi \in Nat, lo <= hi
  PROVE  /\ lo..(hi - 1) \subseteq S =>
              Cardinality(S \ lo..(hi - 1)) = Cardinality(S) - (hi - lo)
         /\ lo..(hi - 1) \cap S = {} =>
              Cardinality(S \cup lo..(hi - 1)) = Cardinality(S) + (hi - lo)
<1>2. IsFiniteSet(S) /\ Cardinality(S) \in Nat
  BY UnitsCounted, HeapAssumption
<1> DEFINE run == lo..(hi - 1)
<1>3. IsFiniteSet(run) /\ Cardinality(run) = hi - lo
  <2>1. PICK last \in Int : last = hi - 1
    OBVIOUS
  <2>2. IsFiniteSet(lo..last) /\ Cardinality(lo..last) = IF lo > last THEN 0 ELSE last - lo + 1
    BY FS_Interval
  <2>3. QED BY <2>1, <2>2
<1> HIDE DEF run
<1>4. ASSUME run \subseteq S PROVE Cardinality(S \ run) = Cardinality(S) - (hi - lo)
  <2>1. S \cap run = run
    BY <1>4
  <2>2. Cardinality(S \ run) = Cardinality(S) - Cardinality(S \cap run)
    BY <1>2, FS_Difference
  <2>3. QED
    BY <1>3, <2>1, <2>2
<1>5. ASSUME run \cap S = {} PROVE Cardinality(S \cup run) = Cardinality(S) + (hi - lo)
  <2>1. S \cap run = {} /\ Cardinality(S \cap run) = 0
    BY <1>5, FS_EmptySet
  <2>2. Cardinality(S \cup run)
          = Cardinality(S) + Cardinality(run) - Cardinality(S \cap run)
    BY <1>2, <1>3, FS_Union
  <2>3. QED
    BY <1>2, <1>3, <2>1, <2>2
<1>6. QED
  BY <1>4, <1>5 DEF run

Unlinked(nx, b, p) == [Without(nx, {b}) EXCEPT ![p] = nx[b]]

Split(sz, b, w) ==
  [c \in DOMAIN sz \cup {b + w} |->
     IF c = b THEN w ELSE IF c = b + w THEN sz[b] - w ELSE sz[c]]

\* A block taken out of the list takes its own units with it, and no others.
LEMMA Unlink ==
  ASSUME NEW nx, NEW sz, ListOK(nx, sz), NEW b \in DOMAIN nx \ {xStart},
         NEW p \in DOMAIN nx, nx[p] = b, NEW U, U = Unlinked(nx, b, p)
  PROVE  /\ ListOK(U, sz) /\ DOMAIN U = DOMAIN nx \ {b}
         /\ b..(b + sz[b] - 1) \subseteq FU(nx, sz)
         /\ FU(U, sz) = FU(nx, sz) \ b..(b + sz[b] - 1)
<1> USE HeapAssumption DEF xStart, pxEnd, Units
<1>1. /\ DOMAIN nx \subseteq -1..(HeapUnits - 1) /\ b \in 0..(HeapUnits - 1)
      /\ nx[b] \in 0..HeapUnits /\ p < b /\ b < nx[b] /\ p # b
  BY DEF ListOK, SizesOK, OrderOK
<1>2. U = [q \in DOMAIN nx \ {b} |-> IF q = p THEN nx[b] ELSE nx[q]]
  BY <1>1 DEF Unlinked, Without
<1>3. \A q \in DOMAIN nx : q # p => nx[q] # b
  <2>1. ASSUME NEW q \in DOMAIN nx, nx[q] = b PROVE q = p
    <3>1. q \in Int /\ p \in Int /\ q < b /\ p < b
      BY <1>1, <2>1 DEF ListOK, OrderOK
    <3>2. (p <= q \/ p >= b) /\ (q <= p \/ q >= b)
      BY <2>1 DEF ListOK, OrderOK
    <3>3. QED BY <1>1, <3>1, <3>2
  <2>2. QED BY <2>1
<1>4. OrderOK(U)
  <2>1. \A q \in DOMAIN U : U[q] \in (DOMAIN U \ {xStart}) \cup {pxEnd} /\ q < U[q]
    BY <1>1, <1>2, <1>3 DEF ListOK, OrderOK
  <2>2. \A q, c \in DOMAIN U : c <= q \/ c >= U[q]
    <3>1. SUFFICES ASSUME NEW q \in DOMAIN U, NEW c \in DOMAIN U PROVE c <= q \/ c >= U[q]
      OBVIOUS
    <3>2. c \in DOMAIN nx /\ q \in DOMAIN nx /\ c # b /\ c \in Int
      BY <1>1, <1>2
    <3>3. CASE q = p
      <4>1. (c <= p \/ c >= b) /\ (c <= b \/ c >= nx[b])
        BY <3>2 DEF ListOK, OrderOK
      <4>2. QED BY <1>1, <1>2, <3>2, <3>3, <4>1
    <3>4. CASE q # p
      BY <1>2, <3>2, <3>4 DEF ListOK, OrderOK
    <3>5. QED BY <3>3, <3>4
  <2>3. ASSUME NEW u \in Units PROVE \E q \in DOMAIN U : q < u /\ u <= U[q]
    <3>1. PICK q \in DOMAIN nx : q < u /\ u <= nx[q]
      BY DEF ListOK, OrderOK
    <3>2. CASE q = b \/ q = p
      BY <1>1, <1>2, <3>1, <3>2
    <3>3. CASE q # b /\ q # p
      BY <1>1, <1>2, <3>1, <3>3
    <3>4. QED BY <3>2, <3>3
  <2>4. QED BY <1>1, <1>2, <2>1, <2>2, <2>3 DEF ListOK, OrderOK
<1>5. ListOK(U, sz) /\ DOMAIN U = DOMAIN nx \ {b}
  BY <1>2, <1>4 DEF ListOK
<1>6. b..(b + sz[b] - 1) \subseteq FU(nx, sz)
  BY InFU
<1>7. ASSUME NEW u \in FU(U, sz) PROVE u \in FU(nx, sz) \ b..(b + sz[b] - 1)
  <2>1. PICK c \in DOMAIN U \ {xStart} : u \in c..(c + sz[c] - 1)
    BY <1>7, InFU
  <2>2. c \in DOMAIN nx \ {xStart} /\ c # b /\ c \in DOMAIN sz /\ b \in DOMAIN sz
    BY <1>5, <2>1 DEF ListOK
  <2>3. c + sz[c] <= b \/ b + sz[b] <= c
    BY <1>1, <2>2 DEF ListOK, SizesOK
  <2>4. u \in FU(nx, sz)
    BY <2>1, <2>2, InFU
  <2>5. QED
    BY <2>1, <2>2, <2>3, <2>4 DEF ListOK, SizesOK
<1>8. ASSUME NEW u \in FU(nx, sz) \ b..(b + sz[b] - 1) PROVE u \in FU(U, sz)
  <2>1. PICK c \in DOMAIN nx \ {xStart} : u \in c..(c + sz[c] - 1)
    BY <1>8, InFU
  <2>2. c \in DOMAIN U \ {xStart}
    BY <1>5, <1>8, <2>1
  <2>3. QED
    BY <2>1, <2>2, InFU
<1>9. QED
  BY <1>5, <1>6, <1>7, <1>8

\* Splitting a block that is not listed changes nothing in the list.
LEMMA SplitBlock ==
  ASSUME NEW nx, NEW sz, ListOK(nx, sz), NEW b \in DOMAIN sz \ DOMAIN nx,
         NEW w \in Nat, 0 < w, w < sz[b], NEW T, T = Split(sz, b, w)
  PROVE  /\ ListOK(nx, T) /\ b + w \in DOMAIN T \ DOMAIN nx /\ b + w \notin DOMAIN sz
         /\ T[b] = w /\ T[b + w] = sz[b] - w
         /\ FU(nx, T) = FU(nx, sz)
<1> USE HeapAssumption DEF xStart, pxEnd, Units
<1>1. b \in 0..(HeapUnits - 1) /\ sz[b] \in 1..HeapUnits /\ b + sz[b] <= HeapUnits
  BY DEF ListOK, SizesOK
<1>2. b + w \notin DOMAIN sz /\ b + w \in Units
  BY <1>1 DEF ListOK, SizesOK
<1>3. b + w # xStart /\ b # b + w
  BY <1>1
<1>4. b + w \notin DOMAIN nx
  BY <1>2, <1>3 DEF ListOK
<1>5. /\ DOMAIN T = DOMAIN sz \cup {b + w} /\ T[b] = w /\ T[b + w] = sz[b] - w
      /\ \A c \in DOMAIN sz \ {b} : T[c] = sz[c]
  BY <1>2, <1>3 DEF Split
<1>6. SizesOK(T)
  <2>1. \A c \in DOMAIN T : T[c] \in 1..HeapUnits /\ c + T[c] <= HeapUnits
    BY <1>1, <1>2, <1>5 DEF ListOK, SizesOK
  <2>2. \A c, d \in DOMAIN T : c < d => c + T[c] <= d
    BY <1>1, <1>2, <1>5 DEF ListOK, SizesOK
  <2>3. T \in [DOMAIN T -> 1..HeapUnits]
    BY <2>1 DEF Split
  <2>4. QED BY <1>2, <1>5, <2>1, <2>2, <2>3 DEF ListOK, SizesOK
<1>7. \A c \in DOMAIN nx \ {xStart} : c \in DOMAIN sz \ {b} /\ T[c] = sz[c]
  BY <1>5 DEF ListOK
<1>8. ListOK(nx, T)
  BY <1>5, <1>6, <1>7 DEF ListOK
<1>9. FU(nx, T) = FU(nx, sz)
  <2>1. ASSUME NEW u PROVE u \in FU(nx, T) <=> u \in FU(nx, sz)
    <3>1. u \in FU(nx, T) <=> \E c \in DOMAIN nx \ {xStart} : u \in c..(c + T[c] - 1)
      BY InFU
    <3>2. u \in FU(nx, sz) <=> \E c \in DOMAIN nx \ {xStart} : u \in c..(c + sz[c] - 1)
      BY InFU
    <3>3. QED BY <1>7, <3>1, <3>2
  <2>2. QED BY <2>1
<1>10. QED
  BY <1>2, <1>4, <1>5, <1>8, <1>9

-----------------------------------------------------------------------------
(***************************************************************************)
(* The invariant                                                            *)
(***************************************************************************)

Inv ==
  /\ ListOK(next, size)
  /\ allocated \in [InUse -> Requests] /\ InUse \subseteq Blocks \ Listed
  /\ free = Cardinality(FU(next, size))

LEMMA FreeUnitsAreFU == FreeUnits = FU(next, size)
BY DEF FreeUnits, UnitsOf, FU, Listed

LEMMA FUInHeap ==
  ASSUME NEW nx, NEW sz, ListOK(nx, sz)
  PROVE  FU(nx, sz) \in SUBSET Units
<1>1. ASSUME NEW u \in FU(nx, sz) PROVE u \in Units
  <2>1. PICK b \in DOMAIN nx \ {xStart} : u \in b..(b + sz[b] - 1)
    BY <1>1, InFU
  <2>2. QED
    BY <2>1, HeapAssumption DEF ListOK, SizesOK, Units
<1>2. QED BY <1>1

LEMMA WantedType ==
  ASSUME NEW n \in Requests
  PROVE  WantedSize(n) \in Nat /\ (n > 0 => WantedSize(n) > 0) /\ (n = 0 => WantedSize(n) = 0)
BY HeapAssumption DEF WantedSize

\* The units a request is rounded up to have room for it.
LEMMA RoomForWanted ==
  ASSUME NEW n \in Nat, n > 0, NEW m \in Int, m >= WantedSize(n)
  PROVE  n <= 8 * (m - 1)
BY DEF WantedSize

\* What a request changes: one listed block, large enough, goes to the caller,
\* and no caller's block is touched.
Given(n, b) ==
  /\ b \in Listed
  /\ allocated' = [c \in InUse \cup {b} |-> IF c = b THEN n ELSE allocated[c]]
  /\ b \in DOMAIN size' /\ size'[b] >= WantedSize(n)
  /\ \A c \in InUse : size'[c] = size[c]

LEMMA InitInv == Init => Inv
<1> SUFFICES ASSUME Init PROVE Inv
  OBVIOUS
<1> USE HeapAssumption DEF xStart, pxEnd, Units
<1>1. /\ DOMAIN next = {-1, 0} /\ next[-1] = 0 /\ next[0] = HeapUnits
      /\ DOMAIN size = {0} /\ size[0] = HeapUnits
  BY DEF Init
<1>2. OrderOK(next)
  <2>1. next \in [DOMAIN next -> (DOMAIN next \ {xStart}) \cup {pxEnd}]
    BY <1>1 DEF Init
  <2>2. QED BY <1>1, <2>1 DEF OrderOK
<1>3. SizesOK(size)
  <2>1. size \in [DOMAIN size -> 1..HeapUnits]
    BY <1>1 DEF Init
  <2>2. QED BY <1>1, <2>1 DEF SizesOK
<1>4. ListOK(next, size)
  BY <1>1, <1>2, <1>3 DEF ListOK
<1>5. FU(next, size) = 0..(HeapUnits - 1)
  <2>1. \A u : u \in FU(next, size) <=> u \in 0..(HeapUnits - 1)
    <3>1. DOMAIN next \ {xStart} = {0}
      BY <1>1
    <3>2. QED BY <1>1, <3>1, InFU
  <2>2. QED BY <2>1
<1>6. Cardinality(0..(HeapUnits - 1)) = HeapUnits
  BY FS_Interval
<1>7. QED
  BY <1>1, <1>4, <1>5, <1>6 DEF Init, Inv, Blocks, Listed

LEMMA MallocStep ==
  ASSUME Inv, NEW n \in Requests, Malloc(n)
  PROVE  Inv' /\ \E b \in Listed : Given(n, b)
<1> DEFINE w == WantedSize(n)
<1>1. PICK b \in Listed, p \in DOMAIN next :
        /\ FirstFit(w, b) /\ next[p] = b
        /\ LET unlinked == [Without(next, {b}) EXCEPT ![p] = next[b]]
               splits == size[b] - w > MinimumBlock
               rest == b + w
               split == [c \in Blocks \cup {rest} |->
                           IF c = b THEN w ELSE IF c = rest THEN size[b] - w ELSE size[c]]
           IN  /\ next' = IF splits THEN InsertedNext(unlinked, split, rest) ELSE unlinked
               /\ size' = IF splits THEN InsertedSize(unlinked, split, rest) ELSE size
               /\ free' = free - (IF splits THEN w ELSE size[b])
               /\ allocated' = [c \in InUse \cup {b} |-> IF c = b THEN n ELSE allocated[c]]
  BY Zenon DEF Malloc
<1> DEFINE U == Unlinked(next, b, p)
           T == Split(size, b, w)
           rest == b + w
<1>2. w \in Nat /\ 0 < w
  BY WantedType DEF Malloc, Refused
<1>3. /\ b \in DOMAIN next \ {xStart} /\ b \in DOMAIN size /\ size[b] \in 1..HeapUnits
      /\ size[b] >= w /\ b \in Nat /\ b \notin InUse
  BY <1>1 DEF FirstFit, Inv, ListOK, SizesOK, Listed, Units, Blocks
<1>3a. /\ allocated' = [c \in InUse \cup {b} |-> IF c = b THEN n ELSE allocated[c]]
       /\ InUse' = InUse \cup {b} /\ allocated' \in [InUse' -> Requests]
  BY <1>1 DEF InUse, Inv
<1> HIDE DEF w, U, T, rest
<1>4. /\ ListOK(U, size) /\ DOMAIN U = DOMAIN next \ {b}
      /\ b..(b + size[b] - 1) \subseteq FU(next, size)
      /\ FU(U, size) = FU(next, size) \ b..(b + size[b] - 1)
  BY <1>1, <1>3, Unlink DEF Inv, U
<1>5. CASE size[b] - w > MinimumBlock
  <2>1. w < size[b] /\ next' = InsertedNext(U, T, rest) /\ size' = InsertedSize(U, T, rest)
        /\ free' = free - w
    BY <1>1, <1>2, <1>3, <1>5 DEF MinimumBlock, U, T, rest, w, Unlinked, Split, Blocks
  <2>2. /\ ListOK(U, T) /\ rest \in DOMAIN T \ DOMAIN U /\ rest \notin DOMAIN size
        /\ T[b] = w /\ T[rest] = size[b] - w /\ FU(U, T) = FU(U, size)
    BY <1>2, <1>3, <1>4, <2>1, SplitBlock DEF T, rest
  <2>3. Inserted(U, T, rest, next', size')
    BY <2>1, <2>2, Insert
  <2>4. FU(next', size') = FU(next, size) \ b..(b + w - 1)
    <3>1. FU(next', size') = FU(U, T) \cup rest..(rest + T[rest] - 1)
      BY <2>3 DEF Inserted
    <3>2. rest..(rest + T[rest] - 1) = (b + w)..(b + size[b] - 1)
      BY <1>2, <1>3, <2>1, <2>2 DEF rest
    <3>3. b..(b + size[b] - 1) = b..(b + w - 1) \cup (b + w)..(b + size[b] - 1)
          /\ b..(b + w - 1) \cap (b + w)..(b + size[b] - 1) = {}
      BY <1>2, <1>3, <2>1
    <3>4. QED
      BY <1>4, <2>2, <3>1, <3>2, <3>3
  <2>5. free' = Cardinality(FU(next', size'))
    <3>1. b..(b + w - 1) \subseteq FU(next, size)
      BY <1>2, <1>3, <1>4, <2>1
    <3>2. FU(next, size) \in SUBSET Units
      BY FUInHeap DEF Inv
    <3>3. PICK hi \in Nat : hi = b + w
      BY <1>2, <1>3
    <3>4. Cardinality(FU(next, size) \ b..(hi - 1)) = Cardinality(FU(next, size)) - (hi - b)
      BY <1>2, <1>3, <3>1, <3>2, <3>3, RunCounted
    <3>5. hi - b = w
      BY <1>2, <1>3, <3>3
    <3>6. b..(hi - 1) = b..(b + w - 1)
      BY <1>2, <1>3, <3>3
    <3>7. free = Cardinality(FU(next, size))
      BY DEF Inv
    <3>8. QED BY <2>1, <2>4, <3>4, <3>5, <3>6, <3>7
  <2>6. ASSUME NEW c \in InUse \cup {b}
        PROVE  c \in DOMAIN size' \ DOMAIN next' /\ size'[c] = T[c]
    <3>1. c \in DOMAIN T \ (DOMAIN U \cup {rest})
      <4>1. c \in DOMAIN size /\ c \notin DOMAIN U
        BY <1>3, <1>4 DEF Inv, Blocks, Listed, ListOK, SizesOK, Units, xStart
      <4>2. QED BY <2>2, <4>1 DEF T, Split
    <3>2. QED BY <2>3, <3>1 DEF Inserted
  <2>7. \A c \in InUse : size'[c] = size[c]
    BY <1>3, <2>2, <2>6 DEF T, Split, rest, Inv, Blocks
  <2>8. Inv'
    BY <1>3a, <2>3, <2>5, <2>6 DEF Inv, Inserted, Blocks, Listed
  <2>9. Given(n, b)
    <3>1. b \in DOMAIN size' /\ size'[b] = w
      BY <2>2, <2>6
    <3>2. w >= w
      BY <1>2
    <3>3. QED BY <1>3a, <2>7, <3>1, <3>2 DEF Given, w
  <2>10. QED BY <1>1, <2>8, <2>9
<1>6. CASE ~(size[b] - w > MinimumBlock)
  <2>1. next' = U /\ size' = size /\ free' = free - size[b]
    BY <1>1, <1>6 DEF U, w, Unlinked
  <2>2. free' = Cardinality(FU(next', size'))
    <3>1. FU(next, size) \in SUBSET Units
      BY FUInHeap DEF Inv
    <3>2. PICK hi \in Nat : hi = b + size[b]
      BY <1>3
    <3>3. Cardinality(FU(next, size) \ b..(hi - 1)) = Cardinality(FU(next, size)) - (hi - b)
      BY <1>3, <1>4, <3>1, <3>2, RunCounted
    <3>4. hi - b = size[b]
      BY <1>3, <3>2
    <3>5. b..(hi - 1) = b..(b + size[b] - 1)
      BY <1>3, <3>2
    <3>6. free = Cardinality(FU(next, size))
      BY DEF Inv
    <3>7. QED BY <1>4, <2>1, <3>3, <3>4, <3>5, <3>6
  <2>3. Inv'
    BY <1>3, <1>3a, <1>4, <2>1, <2>2 DEF Inv, Blocks, Listed
  <2>4. Given(n, b)
    BY <1>3, <1>3a, <2>1 DEF Given, w
  <2>5. QED BY <1>1, <2>3, <2>4
<1>7. QED
  BY <1>5, <1>6

LEMMA FreeEndStep ==
  ASSUME Inv, NEW b \in Units, FreeEnd(b)
  PROVE  Inv' /\ \A c \in InUse : size'[c] = size[c]
<1>1. /\ b \in DOMAIN size \ DOMAIN next /\ b \notin InUse
      /\ b \in Nat /\ size[b] \in 1..HeapUnits
  BY DEF FreeEnd, Blocks, Listed, Units, xStart, Inv, ListOK, SizesOK
<1>2. Inserted(next, size, b, next', size')
  BY <1>1, Insert DEF FreeEnd, Inv
<1>3. FU(next, size) \cap b..(b + size[b] - 1) = {}
  <2>1. SUFFICES ASSUME NEW u \in FU(next, size), u \in b..(b + size[b] - 1) PROVE FALSE
    OBVIOUS
  <2>2. PICK c \in DOMAIN next \ {xStart} : u \in c..(c + size[c] - 1)
    BY <2>1, InFU
  <2>3. c \in DOMAIN size /\ c # b /\ c \in Nat /\ size[c] \in 1..HeapUnits
    BY <1>1 DEF Inv, ListOK, SizesOK, Units
  <2>4. c + size[c] <= b \/ b + size[b] <= c
    BY <1>1, <2>3 DEF Inv, ListOK, SizesOK
  <2>5. QED
    BY <1>1, <2>1, <2>2, <2>3, <2>4
<1>4. free' = Cardinality(FU(next', size'))
  <2>1. FU(next, size) \in SUBSET Units
    BY FUInHeap DEF Inv
  <2>2. PICK hi \in Nat : hi = b + size[b]
    BY <1>1
  <2>3. Cardinality(FU(next, size) \cup b..(hi - 1)) = Cardinality(FU(next, size)) + (hi - b)
    BY <1>1, <1>3, <2>1, <2>2, RunCounted
  <2>4. hi - b = size[b]
    BY <1>1, <2>2
  <2>5. b..(hi - 1) = b..(b + size[b] - 1)
    BY <1>1, <2>2
  <2>6. free' = free + size[b] /\ free = Cardinality(FU(next, size))
    BY DEF FreeEnd, Inv
  <2>7. FU(next', size') = FU(next, size) \cup b..(b + size[b] - 1)
    BY <1>2 DEF Inserted
  <2>8. QED
    BY <2>3, <2>4, <2>5, <2>6, <2>7
<1>5. \A c \in InUse : c \in DOMAIN size' \ DOMAIN next' /\ size'[c] = size[c]
  BY <1>1, <1>2 DEF Inserted, Inv, Blocks, Listed, ListOK, SizesOK, Units, xStart
<1>6. QED
  BY <1>2, <1>4, <1>5 DEF Inserted, Inv, Blocks, Listed, InUse, FreeEnd

LEMMA StepInv == Inv /\ [Next]_vars => Inv'
<1> SUFFICES ASSUME Inv, [Next]_vars PROVE Inv'
  OBVIOUS
<1>1. ASSUME NEW n \in Requests, Malloc(n) PROVE Inv'
  BY <1>1, MallocStep
<1>2. ASSUME NEW b \in Units, FreeBegin(b) PROVE Inv'
  BY <1>2 DEF FreeBegin, Without, Inv, Blocks, Listed, InUse
<1>3. ASSUME NEW b \in Units, FreeEnd(b) PROVE Inv'
  BY <1>3, FreeEndStep
<1>4. CASE UNCHANGED vars
  BY <1>4 DEF vars, Inv, Blocks, Listed, InUse
<1>5. QED
  BY <1>1, <1>2, <1>3, <1>4 DEF Next

LEMMA SpecInv == Spec => []Inv
BY InitInv, StepInv, PTL DEF Spec

-----------------------------------------------------------------------------
(***************************************************************************)
(* What follows from it                                                     *)
(***************************************************************************)

\* The heap's state is well formed, for every size of the heap and whatever is
\* asked for and given back (heap_4.c:155-350).
THEOREM HeapTypeCorrect == Spec => []TypeOK
<1>1. ASSUME Inv PROVE TypeOK
  <2>1. free \in 0..HeapUnits
    <3>1. FU(next, size) \in SUBSET Units
      BY <1>1, FUInHeap DEF Inv
    <3>2. Cardinality(FU(next, size)) \in 0..HeapUnits
      BY <3>1, UnitsCounted
    <3>3. QED BY <1>1, <3>2 DEF Inv
  <2>2. Listed \cup {xStart} = DOMAIN next
    BY <1>1 DEF Inv, ListOK, OrderOK, Listed
  <2>3. QED
    BY <1>1, <2>1, <2>2 DEF Inv, ListOK, SizesOK, OrderOK, TypeOK, Blocks, Listed
<1>2. Inv => TypeOK
  BY <1>1
<1>3. QED
  BY <1>2, SpecInv, PTL

\* Whatever the order of requests and releases, the list is sorted and fully
\* merged and the count of free bytes is exact (heap_4.c:414-477, 253, 330).
THEOREM HeapListExact == Spec => []FreeListExact
<1>1. Inv => FreeListExact
  BY FreeUnitsAreFU DEF Inv, ListOK, OrderOK, FreeListExact, Listed
<1>2. QED
  BY <1>1, SpecInv, PTL

\* A request is refused only when no run of free units has room for it: the first
\* fit over a merged list finds every gap (heap_4.c:199-214).
THEOREM HeapFindsEveryGap == Spec => []FailsOnlyWhenNothingFits
<1>1. ASSUME Inv, NEW n \in Requests, Refused(WantedSize(n)), WantedSize(n) > 0,
             NEW a \in Units, a..(a + WantedSize(n) - 1) \subseteq FreeUnits
      PROVE  FALSE
  <2> DEFINE w == WantedSize(n)
             F == FU(next, size)
  <2>1. w \in Nat /\ w > 0 /\ a \in Nat /\ a..(a + w - 1) \subseteq F /\ F \in SUBSET Units
    BY <1>1, WantedType, FreeUnitsAreFU, FUInHeap DEF Inv, Units
  <2> HIDE DEF w, F
  <2>2. CASE w > free
    <3>1. PICK hi \in Nat : hi = a + w
      BY <2>1
    <3>2. Cardinality(F) \in Nat /\ IsFiniteSet(F)
      BY <2>1, UnitsCounted, HeapAssumption
    <3>3. a..(hi - 1) \in SUBSET F
      BY <2>1, <3>1
    <3>4. Cardinality(a..(hi - 1)) <= Cardinality(F)
      BY <3>2, <3>3, FS_Subset
    <3>5. Cardinality(a..(hi - 1)) = w
      <4>1. PICK last \in Int : last = hi - 1
        OBVIOUS
      <4>2. Cardinality(a..last) = IF a > last THEN 0 ELSE last - a + 1
        BY <2>1, FS_Interval
      <4>3. QED BY <2>1, <3>1, <4>1, <4>2
    <3>6. QED
      BY <1>1, <2>1, <2>2, <3>2, <3>4, <3>5 DEF Inv, F
  <2>3. CASE ~\E b \in Listed : size[b] >= w
    <3>1. PICK b \in DOMAIN next \ {xStart} : a \in b..(b + size[b] - 1)
      BY <2>1, InFU DEF F
    <3>2. b \in DOMAIN size /\ b \in Nat /\ size[b] \in Nat /\ size[b] < w
      BY <1>1, <2>1, <2>3, <3>1 DEF Inv, ListOK, SizesOK, Listed, Units
    <3>3. b + size[b] \in a..(a + w - 1)
      BY <2>1, <3>1, <3>2
    <3>4. PICK c \in DOMAIN next \ {xStart} : b + size[b] \in c..(c + size[c] - 1)
      BY <2>1, <3>3, InFU DEF F
    <3>5. c \in DOMAIN size /\ c \in Nat /\ size[c] \in Nat /\ c # b
      BY <1>1, <3>2, <3>4 DEF Inv, ListOK, SizesOK, Units
    <3>6. c + size[c] <= b \/ b + size[b] <= c
      BY <1>1, <3>2, <3>5 DEF Inv, ListOK, SizesOK
    <3>7. b + size[b] = c
      BY <3>2, <3>4, <3>5, <3>6
    <3>8. QED
      BY <1>1, <3>1, <3>4, <3>7 DEF Inv, ListOK
  <2>4. QED
    BY <1>1, <2>1, <2>2, <2>3 DEF Refused, w
<1>2. Inv => FailsOnlyWhenNothingFits
  BY <1>1 DEF FailsOnlyWhenNothingFits
<1>3. QED
  BY <1>2, SpecInv, PTL

\* The heap implements the allocator its callers rely on: a block is large enough,
\* inside the heap and nobody else's until it is given back (heap_4.c:155-350).
THEOREM HeapImplementsAllocator == Spec => ImplementsAllocator
<1> DEFINE own == [b \in InUse |-> [units |-> size[b], asked |-> allocated[b]]]
<1>1. ASSUME Init PROVE Promise!Init
  <2>1. InUse = {}
    BY <1>1 DEF Init, InUse
  <2>2. QED BY <2>1 DEF Promise!Init
<1>2. ASSUME Inv, NEW n \in Requests, Malloc(n) PROVE Promise!Allocate
  <2>1. PICK b \in Listed : Given(n, b)
    BY <1>2, MallocStep
  <2>2. Inv'
    BY <1>2, MallocStep
  <2>3. /\ b \in InUse' /\ InUse' \subseteq DOMAIN size' /\ b \in DOMAIN size'
        /\ b \in 0..(HeapUnits - 1) /\ size'[b] \in 1..HeapUnits
        /\ b + size'[b] <= HeapUnits /\ n <= 8 * (size'[b] - 1) /\ b \notin InUse
    <3>1. InUse' = InUse \cup {b} /\ b \in DOMAIN size' /\ b \notin InUse
      BY <1>2, <2>1 DEF Given, Inv, InUse
    <3>2. b \in Units /\ size'[b] \in 1..HeapUnits /\ b + size'[b] <= HeapUnits
          /\ InUse' \subseteq DOMAIN size'
      BY <2>2, <3>1 DEF Inv, ListOK, SizesOK, Blocks
    <3>3. n <= 8 * (size'[b] - 1)
      <4>1. size'[b] >= WantedSize(n) /\ n > 0 /\ n \in Nat
        BY <1>2, <2>1, HeapAssumption, WantedType DEF Given, Malloc, Refused
      <4>2. QED BY <3>2, <4>1, RoomForWanted
    <3>4. QED BY <3>1, <3>2, <3>3 DEF Units
  <2>4. Promise!Range(b, size'[b]) \subseteq 0..(HeapUnits - 1)
    BY <2>3, HeapAssumption DEF Promise!Range
  <2>5. Promise!Range(b, size'[b]) \cap Promise!Taken = {}
    <3>1. SUFFICES ASSUME NEW u \in b..(b + size'[b] - 1), NEW c \in InUse,
                          u \in c..(c + size[c] - 1)
                   PROVE  FALSE
      BY DEF Promise!Range, Promise!Taken
    <3>2. c # b /\ c \in DOMAIN size' /\ size'[c] = size[c]
      BY <2>1, <2>3 DEF Given, InUse
    <3>3. c \in Nat /\ size'[c] \in Nat /\ (c + size'[c] <= b \/ b + size'[b] <= c)
      BY <2>2, <2>3, <3>2 DEF Inv, ListOK, SizesOK, Units
    <3>4. QED BY <2>3, <3>1, <3>2, <3>3
  <2>6. own' = [c \in DOMAIN own \cup {b} |->
                  IF c = b THEN [units |-> size'[b], asked |-> n] ELSE own[c]]
    BY <2>1, <2>3 DEF Given, InUse
  <2>7. QED
    BY <2>3, <2>4, <2>5, <2>6 DEF Promise!Allocate
<1>3. ASSUME Inv, NEW b \in Units, FreeBegin(b) PROVE Promise!Release
  <2>1. b \in DOMAIN own /\ own' = [c \in DOMAIN own \ {b} |-> own[c]]
    BY <1>3 DEF FreeBegin, Without, InUse
  <2>2. QED BY <2>1 DEF Promise!Release
<1>4. ASSUME Inv, NEW b \in Units, FreeEnd(b) PROVE own' = own
  BY <1>4, FreeEndStep DEF FreeEnd, InUse
<1>5. ASSUME UNCHANGED vars PROVE own' = own
  BY <1>5 DEF vars, InUse
<1>6. Inv /\ [Next]_vars => [Promise!Next]_own
  BY <1>2, <1>3, <1>4, <1>5 DEF Next, Promise!Next
<1>7. QED
  BY <1>1, <1>6, SpecInv, PTL DEF Spec, ImplementsAllocator, Promise!Spec

=============================================================================
