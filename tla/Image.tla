------------------------------- MODULE Image -------------------------------
(***************************************************************************)
(* image.c: the slots of the flash that say which image the boot loader is  *)
(* to start, and whether at once; power failures and restarts; flash        *)
(* operations that fail, whose results image.c ignores.                     *)
(*                                                                          *)
(* The firmware writes a slot at its first start and for command 'f'; the   *)
(* boot loader, which is not in the repository, calls the rest.  Neither    *)
(* are image.h and flash_if.h: how many slots share a page, and whether     *)
(* IMAGE_INFO_SLOT is packed, is left open.  If it is not, the CRC takes in *)
(* two bytes behind the slot, which on the stack may be anything (image.c:  *)
(* 113), so that a written slot may be valid or not.  Otherwise the CRC is  *)
(* taken as telling a whole slot from any other.                            *)
(***************************************************************************)
EXTENDS Integers, FiniteSets

CONSTANTS NumSlots,  \* nMaxCount
          Layouts,   \* the numbers of slots that may share a page
          Images,    \* what tells one image from another: start, size and CRC
          NoImage,   \* these are zero
          MaxIndex   \* bound on nIndex

ASSUME ImageAssumption ==
  /\ NumSlots \in Nat \ {0, 1} /\ Layouts \subseteq 1..NumSlots
  /\ NoImage \notin Images /\ MaxIndex \in Nat

VARIABLES slots,    \* the flash
          perPage, packed,
          nCurrent,
          xSlot,    \* the slot on the stack of IMAGE_Set; whether a reset follows
          phase,    \* what the processor is at: "off", "erase", "write", "run"
          last,     \* history: the info for which a page was last erased
          failed    \* history: the flash operations that have failed

layout == <<perPage, packed>>
vars == <<slots, layout, nCurrent, xSlot, phase, last, failed>>

Slots == 0..(NumSlots - 1)
Infos == [image : Images \cup {NoImage}, autoBoot : BOOLEAN]
Default == [image |-> NoImage, autoBoot |-> FALSE]
ErasedIndex == -1  \* 0xFFFFFFFF: one more is 0

Slot(n, i, ok) == [index |-> n, info |-> i, valid |-> ok]
Erased == Slot(ErasedIndex, [image |-> NoImage, autoBoot |-> TRUE], FALSE)  \* ones everywhere
SlotType == [index : ErasedIndex..MaxIndex, info : Infos, valid : BOOLEAN]

TypeOK ==
  /\ slots \in [Slots -> SlotType] /\ perPage \in Layouts /\ packed \in BOOLEAN
  /\ nCurrent \in Slots \cup {-1}
  /\ xSlot \in [index : 0..MaxIndex, info : Infos, reset : BOOLEAN]
  /\ phase \in {"off", "erase", "write", "run"} /\ last \in Infos
  /\ failed \subseteq {"erase", "write"}

Init ==
  /\ slots = [s \in Slots |-> Erased]
  /\ perPage \in Layouts /\ packed \in BOOLEAN
  /\ nCurrent = -1 /\ phase = "off" /\ last = Default /\ failed = {}
  /\ xSlot = [index |-> 0, info |-> Default, reset |-> FALSE]

Valid == {s \in Slots : slots[s].valid}

\* The valid slot with the smallest index, the first of them.
Chosen == CHOOSE s \in Valid :
            \A v \in Valid : \/ slots[s].index < slots[v].index
                             \/ slots[s].index = slots[v].index /\ s <= v

\* Mutant: the slot in use is written again.
SlotAfterSame(s) == IF s = -1 THEN 0 ELSE s

SlotAfter(s) == (s + 1) % NumSlots

\* Mutant: the index does not grow.
NextIndexKept == IF nCurrent = -1 THEN 1 ELSE slots[nCurrent].index

NextIndex == IF nCurrent = -1 THEN 1 ELSE slots[nCurrent].index + 1

\* IMAGE_Set, up to the first flash operation
Set(i, reset) ==
  /\ NextIndex <= MaxIndex
  /\ xSlot' = [index |-> NextIndex, info |-> i, reset |-> reset]
  /\ nCurrent' = SlotAfter(nCurrent)
  /\ phase' = "erase"
  /\ UNCHANGED <<slots, layout, last, failed>>

IMAGE_Init ==
  /\ phase = "off"
  /\ \/ Valid = {} /\ Set(Default, FALSE)
     \/ /\ Valid # {}
        /\ nCurrent' = Chosen /\ phase' = "run"
        /\ UNCHANGED <<slots, layout, xSlot, last, failed>>

Current == slots[nCurrent].info  \* IMAGE_Get

\* Command 'f': the boot loader is to wait for a new image.
CommandF == phase = "run" /\ Set([Current EXCEPT !.autoBoot = FALSE], TRUE)

\* The boot loader has stored an image.
IMAGE_Set == phase = "run" /\ \E i \in Infos : Set(i, FALSE)

IMAGE_SetAutoBoot ==
  /\ phase = "run"
  /\ \E enable \in BOOLEAN :
       Current.autoBoot # enable /\ Set([Current EXCEPT !.autoBoot = enable], FALSE)

MayFail == failed = {}  \* bound: one operation fails

Page(s) == {v \in Slots : v \div perPage = s \div perPage}

\* Mutant: the page is erased only when its first slot is written.
EraseFirstOnly ==
  /\ phase = "erase" /\ phase' = "write" /\ last' = xSlot.info
  /\ slots' = IF nCurrent % perPage = 0
                THEN [s \in Slots |-> IF s \in Page(nCurrent) THEN Erased ELSE slots[s]]
                ELSE slots
  /\ UNCHANGED <<layout, nCurrent, xSlot, failed>>

\* FLASH_If_EraseSignlePage
Erase ==
  /\ phase = "erase" /\ phase' = "write" /\ last' = xSlot.info
  /\ \/ /\ slots' = [s \in Slots |-> IF s \in Page(nCurrent) THEN Erased ELSE slots[s]]
        /\ UNCHANGED failed
     \/ MayFail /\ failed' = {"erase"} /\ UNCHANGED slots
  /\ UNCHANGED <<layout, nCurrent, xSlot>>

\* What a power failure leaves of a slot: nobody will look at more than its CRC.
Torn == Slot(0, Default, FALSE)

\* FLASH_If_Write.  A slot that is not erased cannot be written: it stays as it is, or
\* some of its bits go.
Write ==
  /\ phase = "write"
  /\ phase' = IF xSlot.reset THEN "off" ELSE "run"
  /\ nCurrent' = IF xSlot.reset THEN -1 ELSE nCurrent
  /\ \/ /\ slots[nCurrent] = Erased
        /\ \E ok \in BOOLEAN :
             /\ packed => ok
             /\ slots' = [slots EXCEPT ![nCurrent] = Slot(xSlot.index, xSlot.info, ok)]
        /\ UNCHANGED failed
     \/ /\ MayFail \/ slots[nCurrent] # Erased
        /\ failed' = failed \cup {"write"}
        /\ \/ UNCHANGED slots
           \/ \E n \in {ErasedIndex, xSlot.index}, i \in Infos :
                slots' = [slots EXCEPT ![nCurrent] = Slot(n, i, FALSE)]
  /\ UNCHANGED <<layout, xSlot, last>>

\* The power fails, in the midst of an operation on the flash perhaps.
PowerFails ==
  /\ phase # "off" /\ phase' = "off" /\ nCurrent' = -1
  /\ \/ UNCHANGED <<slots, last>>
     \/ /\ phase = "erase" /\ last' = xSlot.info
        /\ slots' = [s \in Slots |-> IF s \in Page(nCurrent) THEN Torn ELSE slots[s]]
     \/ phase = "write" /\ slots' = [slots EXCEPT ![nCurrent] = Torn] /\ UNCHANGED last
  /\ UNCHANGED <<layout, xSlot, failed>>

Next == IMAGE_Init \/ CommandF \/ IMAGE_Set \/ IMAGE_SetAutoBoot \/ Erase \/ Write \/ PowerFails

Spec == Init /\ [][Next]_vars

-----------------------------------------------------------------------------
(***************************************************************************)
(* Correctness                                                              *)
(***************************************************************************)

\* All slots on one page: what a restart finds is what was last set, or nothing; it never
\* goes back to an older slot, although the smallest index is taken (image.c:37, 117).
NeverStale ==
  (perPage = NumSlots /\ "erase" \notin failed) => \A s \in Valid : slots[s].info = last

\* A page for each slot: a power failure at no time leaves the board without a valid slot
\* (image.c:117-118).
SomethingSurvives ==
  [][(perPage = 1 /\ packed /\ failed' = {} /\ Valid # {}) => Valid' # {}]_vars

\* The choice among the valid slots is never one between equals (image.c:37).
IndicesApart ==
  (packed /\ failed = {}) => \A s, v \in Valid : slots[s].index = slots[v].index => s = v

=============================================================================
