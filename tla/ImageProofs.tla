---------------------------- MODULE ImageProofs ----------------------------
(***************************************************************************)
(* Proofs about Image.tla, for any number of slots, images and restarts.    *)
(***************************************************************************)
EXTENDS Image, TLAPS, WellFoundedInduction

\* The processor has a slot when it is on, and writes that for which it has erased the page.
Working ==
  /\ IF phase = "off" THEN nCurrent = -1 ELSE nCurrent \in Slots
  /\ phase = "write" => last = xSlot.info

\* With one page for all, nothing valid is left when the page has been erased.
AllErased == (perPage = NumSlots /\ "erase" \notin failed /\ phase = "write") => Valid = {}

\* With a page for each, the slot in use is valid, and is not the one that is written next.
OtherKept ==
  (perPage = 1 /\ packed /\ failed = {}) =>
    /\ phase = "run" => nCurrent \in Valid
    /\ phase \in {"erase", "write"} /\ Valid # {} => \E v \in Valid : v # nCurrent

IInv == TypeOK /\ Working /\ AllErased /\ NeverStale /\ OtherKept

-----------------------------------------------------------------------------

LEMMA SlotAfterOther ==
  ASSUME NEW s \in Slots
  PROVE  SlotAfter(s) \in Slots /\ SlotAfter(s) # s
BY ImageAssumption DEF SlotAfter, Slots

LEMMA SlotAfterStart == SlotAfter(-1) = 0 /\ 0 \in Slots
BY ImageAssumption DEF SlotAfter, Slots

LEMMA OnePage == ASSUME perPage = NumSlots, NEW s \in Slots PROVE Page(s) = Slots
<1>1. \A v \in Slots : v \div NumSlots = 0
  BY ImageAssumption DEF Slots
<1>2. QED BY <1>1 DEF Page

LEMMA PageEach == ASSUME perPage = 1, NEW s \in Slots PROVE Page(s) = {s}
<1>1. \A v \in Slots : v \div 1 = v
  BY ImageAssumption DEF Slots
<1>2. QED BY <1>1 DEF Page

LEMMA DefaultInfo == Default \in Infos /\ \A i \in Infos, b \in BOOLEAN : [i EXCEPT !.autoBoot = b] \in Infos
BY DEF Default, Infos

LEMMA LeastNumber ==
  ASSUME NEW T \in SUBSET Nat, T # {}
  PROVE  \E x \in T : \A y \in T : x <= y
<1>1. PICK x \in T : \A y \in T : <<y, x>> \notin OpToRel(<, Nat)
  BY WFMin, NatLessThanWellFounded
<1>2. \A y \in T : ~(y < x)
  BY <1>1 DEF OpToRel
<1>3. QED BY <1>2

\* IMAGE_Init finds a slot if there is a valid one.
LEMMA ChosenValid ==
  ASSUME TypeOK, Valid # {}
  PROVE  Chosen \in Valid
<1>1. \A s \in Valid : s \in Nat /\ slots[s].index \in Int /\ slots[s].index + 1 \in Nat
  BY ImageAssumption DEF Valid, TypeOK, Slots, SlotType, ErasedIndex
<1> DEFINE T == {slots[s].index + 1 : s \in Valid}
<1>2. T \in SUBSET Nat /\ T # {}
  BY <1>1
<1>3. PICK m \in T : \A n \in T : m <= n
  BY <1>2, LeastNumber
<1> DEFINE L == {s \in Valid : slots[s].index + 1 = m}
<1>4. L \in SUBSET Nat /\ L # {}
  BY <1>1, <1>3
<1>5. PICK s \in L : \A v \in L : s <= v
  BY <1>4, LeastNumber
<1>6. \A v \in Valid : m <= slots[v].index + 1
  BY <1>3
<1>7. ASSUME NEW v \in Valid
      PROVE  slots[s].index < slots[v].index \/ (slots[s].index = slots[v].index /\ s <= v)
  <2>1. CASE slots[v].index + 1 = m
    BY <1>1, <1>5, <2>1
  <2>2. CASE slots[v].index + 1 # m
    BY <1>1, <1>2, <1>3, <1>5, <1>6, <2>2
  <2>3. QED BY <2>1, <2>2
<1>8. QED BY <1>5, <1>7 DEF Chosen

-----------------------------------------------------------------------------
(***************************************************************************)
(* The invariant                                                            *)
(***************************************************************************)

LEMMA InitHolds == Init => IInv
BY ImageAssumption, DefaultInfo
   DEF Init, IInv, TypeOK, Working, AllErased, NeverStale, OtherKept, Valid, Slots, SlotType, Erased,
       Slot, Infos, ErasedIndex

LEMMA CurrentInfo == ASSUME TypeOK, nCurrent \in Slots PROVE Current \in Infos
BY DEF TypeOK, SlotType, Current

\* The beginning of IMAGE_Set, whoever calls it.
LEMMA SetStep ==
  ASSUME IInv, NEW i \in Infos, NEW reset \in BOOLEAN, Set(i, reset),
         phase = "run" \/ (phase = "off" /\ Valid = {} /\ nCurrent = -1)
  PROVE  IInv'
<1>1. UNCHANGED <<slots, perPage, packed, last, failed>> /\ phase' = "erase" /\ Valid' = Valid
      /\ nCurrent' = SlotAfter(nCurrent)
  BY DEF Set, Valid, layout
<1>2. nCurrent' \in Slots
  BY <1>1, SlotAfterOther, SlotAfterStart DEF IInv, Working
<1>3. NextIndex \in 0..MaxIndex
  <2>1. nCurrent \in Slots => slots[nCurrent].index \in ErasedIndex..MaxIndex
    BY DEF IInv, TypeOK, SlotType
  <2>2. NextIndex <= MaxIndex /\ (nCurrent = -1 \/ nCurrent \in Slots)
    BY DEF Set, IInv, Working
  <2>3. QED BY <2>1, <2>2, ImageAssumption DEF NextIndex, ErasedIndex, Slots
<1>4. TypeOK'
  BY <1>1, <1>2, <1>3 DEF IInv, TypeOK, Set
<1>5. (Working /\ AllErased /\ NeverStale)'
  BY <1>1, <1>2 DEF IInv, Working, AllErased, NeverStale
<1>6. OtherKept'
  <2>1. CASE phase = "run"
    <3>1. nCurrent \in Slots /\ nCurrent' # nCurrent
      BY <1>1, <2>1, SlotAfterOther DEF IInv, Working
    <3>2. QED BY <1>1, <2>1, <3>1 DEF IInv, OtherKept
  <2>2. CASE phase = "off" /\ Valid = {}
    BY <1>1, <2>2 DEF OtherKept
  <2>3. QED BY <2>1, <2>2
<1>7. QED BY <1>4, <1>5, <1>6 DEF IInv

LEMMA EraseStep == ASSUME IInv, Erase PROVE IInv'
<1>1. /\ phase = "erase" /\ phase' = "write" /\ last' = xSlot.info /\ nCurrent \in Slots
      /\ UNCHANGED <<perPage, packed, nCurrent, xSlot>>
  BY DEF Erase, layout, IInv, Working
<1>2. CASE UNCHANGED slots /\ failed' = {"erase"}
  BY <1>1, <1>2 DEF IInv, TypeOK, Working, AllErased, NeverStale, OtherKept, Valid
<1>3. CASE /\ slots' = [s \in Slots |-> IF s \in Page(nCurrent) THEN Erased ELSE slots[s]]
           /\ failed' = failed
  <2>1. Erased \in SlotType
    BY ImageAssumption DEF Erased, Slot, SlotType, Infos, ErasedIndex
  <2>2. TypeOK'
    BY <1>1, <1>3, <2>1 DEF IInv, TypeOK
  <2>3. Valid' = Valid \ Page(nCurrent)
    BY <1>3 DEF Valid, Erased, Slot
  <2>4. Working' /\ AllErased' /\ NeverStale'
    <3>1. perPage = NumSlots => Valid' = {}
      BY <1>1, <2>3, OnePage DEF Valid
    <3>2. QED BY <1>1, <3>1 DEF Working, AllErased, NeverStale
  <2>5. OtherKept'
    <3>1. perPage = 1 => Valid' = Valid \ {nCurrent}
      BY <1>1, <2>3, PageEach
    <3>2. QED BY <1>1, <1>3, <3>1 DEF IInv, OtherKept
  <2>6. QED BY <2>2, <2>4, <2>5 DEF IInv
<1>4. QED BY <1>2, <1>3 DEF Erase

LEMMA WriteStep == ASSUME IInv, Write PROVE IInv'
<1>1. /\ phase = "write" /\ nCurrent \in Slots
      /\ phase' = IF xSlot.reset THEN "off" ELSE "run"
      /\ nCurrent' = IF xSlot.reset THEN -1 ELSE nCurrent
      /\ UNCHANGED <<perPage, packed, xSlot, last>>
      /\ xSlot \in [index : 0..MaxIndex, info : Infos, reset : BOOLEAN]
  BY DEF Write, layout, IInv, Working, TypeOK
<1>2. ASSUME NEW x \in SlotType, slots' = [slots EXCEPT ![nCurrent] = x],
             failed' \in SUBSET {"erase", "write"}
      PROVE  TypeOK' /\ Working' /\ AllErased' /\ Valid' = IF x.valid THEN Valid \cup {nCurrent} ELSE Valid \ {nCurrent}
  BY <1>1, <1>2 DEF IInv, TypeOK, Working, AllErased, Valid
<1>3. ASSUME NEW ok \in BOOLEAN, packed => ok,
             slots' = [slots EXCEPT ![nCurrent] = Slot(xSlot.index, xSlot.info, ok)], failed' = failed
      PROVE  IInv'
  <2>0. xSlot.index \in ErasedIndex..MaxIndex /\ xSlot.info \in Infos
    BY <1>1, ImageAssumption DEF ErasedIndex
  <2>1. Slot(xSlot.index, xSlot.info, ok) \in SlotType /\ Slot(xSlot.index, xSlot.info, ok).valid = ok
    BY <2>0 DEF Slot, SlotType
  <2>2. /\ TypeOK' /\ Working' /\ AllErased'
        /\ Valid' = IF ok THEN Valid \cup {nCurrent} ELSE Valid \ {nCurrent}
    <3>1. failed' \in SUBSET {"erase", "write"}
      BY <1>3 DEF IInv, TypeOK
    <3>2. QED BY <1>2, <1>3, <2>1, <3>1
  <2>3. ASSUME (perPage = NumSlots /\ "erase" \notin failed)', NEW s \in Valid'
        PROVE  slots'[s].info = last'
    <3>1. s = nCurrent
      BY <1>1, <1>3, <2>2, <2>3 DEF IInv, AllErased
    <3>2. slots'[nCurrent].info = xSlot.info
      BY <1>1, <1>3 DEF IInv, TypeOK, Slot
    <3>3. QED BY <1>1, <3>1, <3>2 DEF IInv, Working
  <2>4. OtherKept'
    BY <1>1, <1>3, <2>2 DEF OtherKept
  <2>5. QED BY <2>2, <2>3, <2>4 DEF IInv, NeverStale
<1>4. ASSUME NEW n \in {ErasedIndex, xSlot.index}, NEW i \in Infos,
             slots' = [slots EXCEPT ![nCurrent] = Slot(n, i, FALSE)], failed' = failed \cup {"write"}
      PROVE  IInv'
  <2>1. Slot(n, i, FALSE) \in SlotType /\ Slot(n, i, FALSE).valid = FALSE
    BY <1>1, ImageAssumption DEF Slot, SlotType, ErasedIndex
  <2>2. TypeOK' /\ Working' /\ AllErased' /\ Valid' = Valid \ {nCurrent}
    <3>1. failed' \in SUBSET {"erase", "write"}
      BY <1>4 DEF IInv, TypeOK
    <3>2. QED BY <1>2, <1>4, <2>1, <3>1
  <2>3. NeverStale' /\ OtherKept'
    BY <1>1, <1>4, <2>2 DEF IInv, NeverStale, OtherKept, TypeOK
  <2>4. QED BY <2>2, <2>3 DEF IInv
<1>5. ASSUME UNCHANGED slots, failed' = failed \cup {"write"}
      PROVE  IInv'
  <2>1. failed' \in SUBSET {"erase", "write"} /\ Valid' = Valid
    BY <1>5 DEF IInv, TypeOK, Valid
  <2>2. TypeOK' /\ Working' /\ AllErased'
    BY <1>1, <1>5, <2>1 DEF IInv, TypeOK, Working, AllErased
  <2>3. NeverStale' /\ OtherKept'
    BY <1>1, <1>5, <2>1 DEF IInv, NeverStale, OtherKept
  <2>4. QED BY <2>2, <2>3 DEF IInv
<1>6. QED BY <1>3, <1>4, <1>5 DEF Write

LEMMA PowerStep == ASSUME IInv, PowerFails PROVE IInv'
<1>1. /\ phase # "off" /\ phase' = "off" /\ nCurrent' = -1 /\ nCurrent \in Slots
      /\ UNCHANGED <<perPage, packed, xSlot, failed>>
  BY DEF PowerFails, layout, IInv, Working
<1>2. Working' /\ AllErased' /\ OtherKept'
  BY <1>1 DEF Working, AllErased, OtherKept
<1>3. Torn \in SlotType /\ ~Torn.valid
  BY ImageAssumption, DefaultInfo DEF Torn, Slot, SlotType, ErasedIndex
<1>4. CASE UNCHANGED <<slots, last>>
  BY <1>1, <1>2, <1>4 DEF IInv, TypeOK, NeverStale, Valid
<1>5. CASE /\ phase = "erase" /\ last' = xSlot.info
           /\ slots' = [s \in Slots |-> IF s \in Page(nCurrent) THEN Torn ELSE slots[s]]
  <2>1. TypeOK'
    BY <1>1, <1>3, <1>5 DEF IInv, TypeOK
  <2>2. Valid' = Valid \ Page(nCurrent)
    BY <1>3, <1>5 DEF Valid
  <2>3. perPage = NumSlots => Valid' = {}
    BY <1>1, <2>2, OnePage DEF Valid
  <2>4. QED BY <1>1, <1>2, <2>1, <2>3 DEF IInv, NeverStale
<1>6. CASE phase = "write" /\ slots' = [slots EXCEPT ![nCurrent] = Torn] /\ UNCHANGED last
  <2>1. TypeOK'
    BY <1>1, <1>3, <1>6 DEF IInv, TypeOK
  <2>2. Valid' \subseteq Valid
    BY <1>1, <1>3, <1>6 DEF Valid, IInv, TypeOK
  <2>3. NeverStale'
    BY <1>1, <1>6, <2>2 DEF IInv, NeverStale, AllErased
  <2>4. QED BY <1>2, <2>1, <2>3 DEF IInv
<1>7. QED BY <1>4, <1>5, <1>6 DEF PowerFails

LEMMA BootStep == ASSUME IInv, IMAGE_Init PROVE IInv'
<1>1. CASE Valid = {} /\ Set(Default, FALSE)
  BY <1>1, SetStep, DefaultInfo DEF IMAGE_Init, IInv, Working
<1>2. CASE Valid # {} /\ nCurrent' = Chosen /\ phase' = "run" /\ UNCHANGED <<slots, layout, xSlot, last, failed>>
  <2>1. Chosen \in Valid /\ Valid \subseteq Slots /\ Valid' = Valid
    BY <1>2, ChosenValid DEF IInv, Valid
  <2>2. QED BY <1>2, <2>1 DEF layout, IInv, TypeOK, Working, AllErased, NeverStale, OtherKept
<1>3. QED BY <1>1, <1>2 DEF IMAGE_Init

LEMMA InvStep == IInv /\ [Next]_vars => IInv'
<1> SUFFICES ASSUME IInv, [Next]_vars PROVE IInv'
  OBVIOUS
<1>1. ASSUME phase = "run" PROVE Current \in Infos
  BY <1>1, CurrentInfo DEF IInv, Working
<1>2. CASE CommandF
  <2>1. [Current EXCEPT !.autoBoot = FALSE] \in Infos
    BY <1>1, <1>2, DefaultInfo DEF CommandF
  <2>2. QED BY <1>2, <2>1, SetStep DEF CommandF
<1>3. CASE IMAGE_Set
  BY <1>3, SetStep DEF IMAGE_Set
<1>4. CASE IMAGE_SetAutoBoot
  <2>1. \A enable \in BOOLEAN : [Current EXCEPT !.autoBoot = enable] \in Infos
    BY <1>1, <1>4, DefaultInfo DEF IMAGE_SetAutoBoot
  <2>2. QED BY <1>4, <2>1, SetStep DEF IMAGE_SetAutoBoot
<1>5. CASE UNCHANGED vars
  BY <1>5 DEF vars, layout, IInv, TypeOK, Working, AllErased, NeverStale, OtherKept, Valid
<1>6. QED
  BY <1>2, <1>3, <1>4, <1>5, BootStep, EraseStep, WriteStep, PowerStep DEF Next

LEMMA SpecInv == Spec => []IInv
BY InitHolds, InvStep, PTL DEF Spec

-----------------------------------------------------------------------------
(***************************************************************************)
(* Theorems                                                                 *)
(***************************************************************************)

\* The slots and the variables of image.c always have their types (image.c:14-16, 97-115).
THEOREM ImageTypeCorrect == Spec => []TypeOK
<1>1. IInv => TypeOK BY DEF IInv
<1>2. QED BY <1>1, SpecInv, PTL

\* With all slots on one page no restart goes back to an older slot, however many power
\* failures there are (image.c:37, 117).
THEOREM ImageNeverStale == Spec => []NeverStale
<1>1. IInv => NeverStale BY DEF IInv
<1>2. QED BY <1>1, SpecInv, PTL

\* With a page for each slot there is always a valid one, once there is one (image.c:117-118).
THEOREM ImageSurvives == Spec => SomethingSurvives
<1>1. ASSUME IInv, [Next]_vars, perPage = 1, packed, failed' = {}, Valid # {} PROVE Valid' # {}
  <2>1. failed = {} /\ (phase # "off" => nCurrent \in Slots)
    BY <1>1 DEF IInv, Working, Next, IMAGE_Init, CommandF, IMAGE_Set, IMAGE_SetAutoBoot, Set, Erase,
         Write, PowerFails, vars, layout
  <2>2. CASE UNCHANGED slots
    BY <1>1, <2>2 DEF Valid
  <2>3. CASE phase \in {"erase", "write"}
    <3>1. PICK v \in Valid : v # nCurrent
      BY <1>1, <2>1, <2>3 DEF IInv, OtherKept
    <3>2. slots'[v] = slots[v] \/ UNCHANGED slots
      <4>1. CASE Erase
        BY <1>1, <2>1, <2>3, <3>1, <4>1, PageEach DEF Erase, IInv, TypeOK, Valid
      <4>2. CASE Write
        BY <1>1, <3>1, <4>2 DEF Write, IInv, TypeOK, Valid
      <4>3. CASE PowerFails
        BY <1>1, <2>1, <2>3, <3>1, <4>3, PageEach DEF PowerFails, IInv, TypeOK, Valid
      <4>4. QED BY <1>1, <2>3, <4>1, <4>2, <4>3
           DEF Next, IMAGE_Init, CommandF, IMAGE_Set, IMAGE_SetAutoBoot, Set, vars
    <3>3. QED BY <3>1, <3>2 DEF Valid
  <2>4. CASE phase \notin {"erase", "write"}
    <3>1. UNCHANGED slots
      BY <1>1, <2>4 DEF Next, IMAGE_Init, CommandF, IMAGE_Set, IMAGE_SetAutoBoot, Set, Erase, Write,
           PowerFails, vars
    <3>2. QED BY <2>2, <3>1
  <2>5. QED BY <2>3, <2>4
<1>2. IInv /\ [Next]_vars =>
        [(perPage = 1 /\ packed /\ failed' = {} /\ Valid # {}) => Valid' # {}]_vars
  BY <1>1
<1>3. QED BY <1>2, SpecInv, PTL DEF Spec, SomethingSurvives

\* The index of what is written to a slot tells how often the slots have been gone round.
Turn(s, n) == \E k \in Nat : n = s + 1 + k * NumSlots

IndexBySlot ==
  (packed /\ failed = {}) =>
    /\ \A s \in Valid : Turn(s, slots[s].index)
    /\ phase \in {"erase", "write"} => Turn(nCurrent, xSlot.index)
    /\ phase = "run" => nCurrent \in Valid

LEMMA TurnNext ==
  ASSUME NEW s \in Slots, NEW n, Turn(s, n) PROVE Turn(SlotAfter(s), n + 1)
<1>1. PICK k \in Nat : n = s + 1 + k * NumSlots
  BY DEF Turn
<1>2. NumSlots \in Nat \ {0, 1} /\ s \in 0..(NumSlots - 1)
  BY ImageAssumption DEF Slots
<1>3. CASE s + 1 < NumSlots
  <2>1. SlotAfter(s) = s + 1
    BY <1>2, <1>3 DEF SlotAfter
  <2>2. k * NumSlots \in Nat
    BY <1>2
  <2>3. n + 1 = SlotAfter(s) + 1 + k * NumSlots
    BY <1>1, <1>2, <2>1, <2>2
  <2>4. QED BY <2>3 DEF Turn
<1>4. CASE s + 1 = NumSlots
  <2>1. SlotAfter(s) = 0
    BY <1>2, <1>4 DEF SlotAfter
  <2>2. k * NumSlots \in Nat /\ (k + 1) * NumSlots = k * NumSlots + NumSlots /\ k + 1 \in Nat
    BY <1>2
  <2>3. n + 1 = SlotAfter(s) + 1 + (k + 1) * NumSlots
    BY <1>1, <1>2, <1>4, <2>1, <2>2
  <2>4. QED BY <2>2, <2>3 DEF Turn
<1>5. QED BY <1>2, <1>3, <1>4

LEMMA TurnApart ==
  ASSUME NEW s \in Slots, NEW v \in Slots, NEW n, Turn(s, n), Turn(v, n) PROVE s = v
<1>1. PICK k \in Nat : n = s + 1 + k * NumSlots
  BY DEF Turn
<1>2. PICK j \in Nat : n = v + 1 + j * NumSlots
  BY DEF Turn
<1>3. NumSlots \in Nat \ {0, 1} /\ s \in 0..(NumSlots - 1) /\ v \in 0..(NumSlots - 1)
  BY ImageAssumption DEF Slots
<1>4. ASSUME NEW a \in Nat, NEW b \in Nat, a < b PROVE a * NumSlots + NumSlots <= b * NumSlots
  <2>1. PICK d \in Nat : b = a + 1 + d
    <3>1. b - a - 1 \in Nat /\ b = a + 1 + (b - a - 1)
      BY <1>4
    <3>2. QED BY <3>1
  <2>2. b * NumSlots = a * NumSlots + NumSlots + d * NumSlots /\ d * NumSlots \in Nat
        /\ a * NumSlots \in Nat
    BY <1>3, <2>1
  <2>3. QED BY <1>3, <2>2
<1>5. k * NumSlots \in Nat /\ j * NumSlots \in Nat
  BY <1>3
<1>6. ~(k < j) /\ ~(j < k)
  BY <1>1, <1>2, <1>3, <1>4, <1>5
<1>7. k = j
  BY <1>6
<1>8. QED BY <1>1, <1>2, <1>3, <1>5, <1>7

\* The beginning of IMAGE_Set takes the index and the slot one further.
LEMMA IndexSetStep ==
  ASSUME IInv, IndexBySlot, NEW i, NEW reset, Set(i, reset),
         phase = "run" \/ (phase = "off" /\ Valid = {} /\ nCurrent = -1)
  PROVE  IndexBySlot'
<1> SUFFICES ASSUME packed, failed = {} PROVE IndexBySlot'
  BY DEF Set, layout, IndexBySlot
<1>1. /\ UNCHANGED <<slots, packed, failed>> /\ phase' = "erase" /\ Valid' = Valid
      /\ nCurrent' = SlotAfter(nCurrent) /\ xSlot'.index = NextIndex
  BY DEF Set, Valid, layout
<1>2. Turn(nCurrent', xSlot'.index)
  <2>1. CASE phase = "run"
    <3>1. nCurrent \in Slots /\ Turn(nCurrent, slots[nCurrent].index)
      BY <2>1 DEF IInv, Working, IndexBySlot
    <3>2. NextIndex = slots[nCurrent].index + 1
      BY <3>1, ImageAssumption DEF NextIndex, Slots
    <3>3. QED BY <1>1, <3>1, <3>2, TurnNext
  <2>2. CASE phase = "off" /\ nCurrent = -1
    <3>1. NextIndex = 1 /\ SlotAfter(nCurrent) = 0
      BY <2>2, SlotAfterStart DEF NextIndex
    <3>2. 1 = 0 + 1 + 0 * NumSlots
      BY ImageAssumption
    <3>3. QED BY <1>1, <3>1, <3>2 DEF Turn
  <2>3. QED BY <2>1, <2>2
<1>3. QED BY <1>1, <1>2 DEF IndexBySlot, Turn

LEMMA IndexStep == IInv /\ IndexBySlot /\ [Next]_vars => IndexBySlot'
<1> SUFFICES ASSUME IInv, IndexBySlot, [Next]_vars PROVE IndexBySlot'
  OBVIOUS
<1>1. CASE CommandF
  BY <1>1, IndexSetStep DEF CommandF
<1>2. CASE IMAGE_Set
  BY <1>2, IndexSetStep DEF IMAGE_Set
<1>3. CASE IMAGE_SetAutoBoot
  BY <1>3, IndexSetStep DEF IMAGE_SetAutoBoot
<1>4. CASE IMAGE_Init
  <2>1. CASE Valid = {} /\ Set(Default, FALSE)
    BY <1>4, <2>1, IndexSetStep DEF IMAGE_Init, IInv, Working
  <2>2. CASE Valid # {} /\ nCurrent' = Chosen /\ phase' = "run" /\ UNCHANGED <<slots, layout, xSlot, last, failed>>
    <3>1. Chosen \in Valid /\ Valid' = Valid
      BY <2>2, ChosenValid DEF IInv, Valid
    <3>2. QED BY <2>2, <3>1 DEF IndexBySlot, Turn, layout
  <2>3. QED BY <1>4, <2>1, <2>2 DEF IMAGE_Init
<1>5. CASE Erase
  <2>1. /\ phase = "erase" /\ phase' = "write" /\ UNCHANGED <<packed, nCurrent, xSlot>>
        /\ failed' = {} => failed = {}
    BY <1>5 DEF Erase, layout, MayFail
  <2>2. \A s \in Valid' : s \in Valid /\ slots'[s] = slots[s]
    BY <1>5 DEF Erase, Valid, Erased, Slot
  <2>3. QED BY <2>1, <2>2 DEF IndexBySlot, Turn
<1>6. CASE Write
  <2> SUFFICES ASSUME packed', failed' = {} PROVE IndexBySlot'
    BY DEF IndexBySlot
  <2>1. /\ phase = "write" /\ UNCHANGED packed /\ failed = {} /\ nCurrent \in Slots
        /\ slots' = [slots EXCEPT ![nCurrent] = Slot(xSlot.index, xSlot.info, TRUE)]
        /\ (phase' = "off" \/ (phase' = "run" /\ nCurrent' = nCurrent))
    <3>1. failed' # failed \cup {"write"}
      OBVIOUS
    <3>2. QED BY <1>6, <3>1 DEF Write, layout, IInv, Working
  <2>2. /\ Valid' = Valid \cup {nCurrent} /\ slots'[nCurrent].index = xSlot.index
        /\ \A s \in Valid \ {nCurrent} : slots'[s] = slots[s]
    BY <2>1 DEF IInv, TypeOK, Valid, Slot
  <2>3. QED BY <2>1, <2>2 DEF IndexBySlot, Turn
<1>7. CASE PowerFails
  <2>1. phase' = "off" /\ UNCHANGED <<packed, failed>> /\ (phase = "write" => nCurrent \in Slots)
    BY <1>7 DEF PowerFails, layout, IInv, Working
  <2>2. \A s \in Valid' : s \in Valid /\ slots'[s] = slots[s]
    BY <1>7, <2>1 DEF PowerFails, Valid, Torn, Slot, IInv, TypeOK
  <2>3. QED BY <2>1, <2>2 DEF IndexBySlot, Turn
<1>8. CASE UNCHANGED vars
  BY <1>8 DEF vars, layout, IndexBySlot, Turn, Valid
<1>9. QED BY <1>1, <1>2, <1>3, <1>4, <1>5, <1>6, <1>7, <1>8 DEF Next

\* Without a failing flash operation no two valid slots have the same index, so that the
\* choice at a start has one outcome (image.c:37).
THEOREM ImageIndicesApart == Spec => []IndicesApart
<1>1. Init => IndexBySlot
  BY DEF Init, IndexBySlot, Valid, Erased, Slot
<1>2. IInv /\ IndexBySlot => IndicesApart
  BY TurnApart DEF IndexBySlot, IndicesApart, Valid
<1>3. QED BY <1>1, <1>2, IndexStep, InitHolds, InvStep, PTL DEF Spec

=============================================================================
