------------------------------- MODULE Config -------------------------------
(***************************************************************************)
(* The configuration in flash (src/Src/config.c): CONFIG_init and          *)
(* CONFIG_load when the board starts (src/Src/main.c), CONFIG_save when    *)
(* the shell has changed xConfig (src/Src/shell.c:538-541), and a power    *)
(* failure or reset between any two accesses of the flash, or in the midst *)
(* of one.                                                                 *)
(*                                                                         *)
(* A configuration is a function from its words; the CRC is a word before  *)
(* them.  The CRC is ideal: the CRC of a configuration is that             *)
(* configuration, so no other content has it (16 bits only make that very  *)
(* likely).  An erased page is not valid: the CRC16 of 98 bytes 0xFF is    *)
(* 0x8925, not 0xFFFF.                                                     *)
(***************************************************************************)
EXTENDS Naturals

CONSTANTS NumWords,     \* words of a CONFIG
          Values,       \* of a word
          Erased,       \* the value of an erased word
          Torn,         \* the value of a word whose programming was cut off
          Configs,      \* what the operator can set
          Default,      \* CONFIG_setDefault
          None,
          MaxCrashes,   \* bound: power failures and resets
          MaxFaults     \* bound: flash operations that fail

ASSUME ConfigAssumption ==
  /\ NumWords \in Nat \ {0}
  /\ Configs \subseteq [1..NumWords -> Values]
  /\ Default \in Configs
  /\ Erased \notin Values /\ Torn \notin Values /\ Erased # Torn
  /\ {Erased, Torn, None} \cap [1..NumWords -> Values \cup {Erased, Torn}] = {}
  /\ MaxCrashes \in Nat /\ MaxFaults \in Nat

VARIABLES
  pc,        \* the next step
  booting,   \* is main still to finish CONFIG_load?
  xConfig,   \* the configuration in effect
  pConfig,   \* the one being saved
  i,         \* CONFIG_save's loop variable
  page,      \* the flash page at CONFIG_ADDRESS, the CRC in word 0
  locked,    \* is the flash locked?
  nCrashes, nFaults,
  \* history
  faulty,    \* did an operation of the latest save fail?
  durable    \* what the latest complete save stored, if nothing has touched the page since

vars == <<pc, booting, xConfig, pConfig, i, page, locked, nCrashes, nFaults, faulty, durable>>
history == <<faulty, durable>>

AllConfigs == [1..NumWords -> Values]
CRC(c) == c
Image(c) == [w \in 0..NumWords |-> IF w = 0 THEN CRC(c) ELSE c[w]]
Blank == [w \in 0..NumWords |-> Erased]
Content(p) == [w \in 1..NumWords |-> p[w]]
Valid(p) == p[0] = CRC(Content(p))

\* What an erase that is cut off or fails leaves of the page p.
PartlyErased(p) == {[w \in 0..NumWords |-> IF w \in W THEN Erased ELSE p[w]] : W \in SUBSET (0..NumWords)}

Cells == Values \cup {Erased, Torn}
IsPage(p) == /\ p = [w \in 0..NumWords |-> p[w]]
             /\ p[0] \in AllConfigs \cup {Erased, Torn}
             /\ \A w \in 1..NumWords : p[w] \in Cells

TypeOK ==
  /\ pc \in {"init", "compare", "erase", "program", "lock", "load", "run"}
  /\ booting \in BOOLEAN
  /\ xConfig \in AllConfigs
  /\ pConfig \in AllConfigs
  /\ i \in 0..NumWords + 1
  /\ IsPage(page)
  /\ locked \in BOOLEAN
  /\ nCrashes \in 0..MaxCrashes
  /\ nFaults \in 0..MaxFaults
  /\ faulty \in BOOLEAN
  /\ durable \in AllConfigs \cup {None}

\* A new board.
Init ==
  /\ pc = "init"
  /\ booting = TRUE
  /\ xConfig = Default /\ pConfig = Default
  /\ i = 0
  /\ page = Blank
  /\ locked = TRUE
  /\ nCrashes = 0 /\ nFaults = 0
  /\ faulty = FALSE
  /\ durable = None

(***************************************************************************)
(* The start of the board                                                  *)
(***************************************************************************)

\* CONFIG_init saves the default over a page that is not valid, if the heap has
\* room for a copy of it (it may not: main ignores the result).
CONFIG_init ==
  /\ pc = "init"
  /\ IF Valid(page)
       THEN pc' = "load" /\ UNCHANGED pConfig
       ELSE \/ pc' = "compare" /\ pConfig' = Default
            \/ pc' = "load" /\ UNCHANGED pConfig
  /\ UNCHANGED <<booting, xConfig, i, page, locked, nCrashes, nFaults, history>>

\* Mutant: the CRC is not checked.
LoadUnchecked ==
  /\ pc = "load"
  /\ xConfig' = Content(page)
  /\ booting' = FALSE
  /\ pc' = "run"
  /\ UNCHANGED <<pConfig, i, page, locked, nCrashes, nFaults, history>>

\* CONFIG_setDefault and CONFIG_load.
CONFIG_load ==
  /\ pc = "load"
  /\ xConfig' = IF Valid(page) THEN Content(page) ELSE Default
  /\ booting' = FALSE
  /\ pc' = "run"
  /\ UNCHANGED <<pConfig, i, page, locked, nCrashes, nFaults, history>>

(***************************************************************************)
(* The shell                                                               *)
(***************************************************************************)

\* Mutant: the configuration is saved before it is changed.
EditAfterSave(c) ==
  /\ pc = "run"
  /\ xConfig' = c
  /\ pConfig' = xConfig
  /\ pc' = "compare"
  /\ UNCHANGED <<booting, i, page, locked, nCrashes, nFaults, history>>

\* A command changes xConfig and saves it.
Edit(c) ==
  /\ pc = "run"
  /\ xConfig' = c
  /\ pConfig' = c
  /\ pc' = "compare"
  /\ UNCHANGED <<booting, i, page, locked, nCrashes, nFaults, history>>

(***************************************************************************)
(* CONFIG_save                                                             *)
(***************************************************************************)

Return == pc' = IF booting THEN "load" ELSE "run"

\* Mutant: every save erases.
CompareDropped ==
  /\ pc = "compare"
  /\ pc' = "erase" /\ locked' = FALSE /\ faulty' = FALSE
  /\ UNCHANGED <<booting, xConfig, pConfig, i, page, nCrashes, nFaults, durable>>

\* Nothing is written if the page already holds the configuration.
Compare ==
  /\ pc = "compare"
  /\ IF page = Image(pConfig)
       THEN Return /\ UNCHANGED <<locked, faulty>>
       ELSE pc' = "erase" /\ locked' = FALSE /\ faulty' = FALSE
  /\ UNCHANGED <<booting, xConfig, pConfig, i, page, nCrashes, nFaults, durable>>

Erase ==
  /\ pc = "erase"
  /\ page' = Blank
  /\ durable' = None
  /\ i' = 0
  /\ pc' = "program"
  /\ UNCHANGED <<booting, xConfig, pConfig, locked, nCrashes, nFaults, faulty>>

\* The erase fails: CONFIG_save returns and leaves the flash unlocked.
EraseFails ==
  /\ pc = "erase"
  /\ nFaults < MaxFaults
  /\ nFaults' = nFaults + 1
  /\ page' \in PartlyErased(page)
  /\ durable' = IF page' = page THEN durable ELSE None
  /\ faulty' = TRUE
  /\ Return
  /\ UNCHANGED <<booting, xConfig, pConfig, i, locked, nCrashes>>

\* Mutant: the last word, which the others do not fill, is not programmed.
LastWordMissing == NumWords - 1

\* The loop's end, (sizeof(CONFIG) + 3) / 4.
LastWord == NumWords
Programmed == IF i = LastWord THEN pc' = "lock" ELSE pc' = "program"

Program ==
  /\ pc = "program"
  /\ page' = [page EXCEPT ![i] = Image(pConfig)[i]]
  /\ i' = i + 1
  /\ Programmed
  /\ UNCHANGED <<booting, xConfig, pConfig, locked, nCrashes, nFaults, history>>

\* HAL_FLASH_Program's result is ignored.
ProgramFails ==
  /\ pc = "program"
  /\ nFaults < MaxFaults
  /\ nFaults' = nFaults + 1
  /\ faulty' = TRUE
  /\ i' = i + 1
  /\ Programmed
  /\ UNCHANGED <<booting, xConfig, pConfig, page, locked, nCrashes, durable>>

Lock ==
  /\ pc = "lock"
  /\ locked' = TRUE
  /\ durable' = IF faulty THEN None ELSE pConfig
  /\ Return
  /\ UNCHANGED <<booting, xConfig, pConfig, i, page, nCrashes, nFaults, faulty>>

(***************************************************************************)
(* Power failures                                                          *)
(***************************************************************************)

\* The power fails, or the board is reset: the flash locks itself, RAM is lost,
\* and an erase or a write that was going on is cut off.
Crash ==
  /\ nCrashes < MaxCrashes
  /\ nCrashes' = nCrashes + 1
  /\ page' \in CASE pc = "erase"   -> PartlyErased(page)
                 [] pc = "program" -> {page, [page EXCEPT ![i] = Torn]}
                 [] OTHER          -> {page}
  /\ durable' = IF page' = page THEN durable ELSE None
  /\ pc' = "init"
  /\ booting' = TRUE
  /\ xConfig' = Default /\ pConfig' = Default
  /\ i' = 0
  /\ locked' = TRUE
  /\ faulty' = FALSE
  /\ UNCHANGED nFaults

-----------------------------------------------------------------------------

CONFIG_save == Compare \/ Erase \/ EraseFails \/ Program \/ ProgramFails \/ Lock

Next == \/ CONFIG_init
        \/ CONFIG_load
        \/ \E c \in Configs : Edit(c)
        \/ CONFIG_save
        \/ Crash

Spec == Init /\ [][Next]_vars

-----------------------------------------------------------------------------
(***************************************************************************)
(* Correctness                                                             *)
(***************************************************************************)

\* The configuration that a start of the board would put in effect.
Stored == IF Valid(page) THEN Content(page) ELSE Default

\* The board never works with a configuration that nobody set, whatever a power
\* failure or a failed write has left in the page (config.c:57-71).
NoMixture == xConfig \in Configs

\* What a save without a fault has stored stays until the page is erased again,
\* and a start brings it back (config.c:73-105).
DurableUntilErased ==
  /\ durable # None => page = Image(durable)
  /\ pc = "run" /\ durable # None /\ ~faulty => xConfig = durable

\* The flash is open for writing only during a save or after a failed erase; no
\* start of the board leaves it open (config.c:91-102).
UnlockedOnlyToSave == ~locked => pc \in {"erase", "program", "lock"} \/ faulty

\* No word is programmed that has not been erased, and none beyond those of the
\* configuration (config.c:93-101).
ProgramsErasedWords == pc = "program" => i \in DOMAIN page /\ page[i] = Erased

\* The page is erased only to change what it holds (config.c:78-81).
ErasesOnlyToChange == [][pc = "erase" /\ pc' = "program" => page # Image(pConfig)]_vars

\* To the rest of the firmware this is a store that keeps, replaces or loses the
\* one configuration it holds.
Store == INSTANCE ConfigStore WITH
           inEffect <- IF booting THEN Stored ELSE xConfig,
           stored <- Stored

ImplementsConfigStore == Store!Spec

=============================================================================
