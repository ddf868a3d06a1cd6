---------------------------- MODULE ConfigProofs ----------------------------
(***************************************************************************)
(* What Config.tla guarantees for every size of a CONFIG, every set of     *)
(* configurations and any number of power failures and failing flash       *)
(* operations.  That the board never works with a mixture depends on what  *)
(* a page can hold in the midst of a save: PageInProgress says so, and     *)
(* PageHoldsSet that no page with a right CRC is anything but a            *)
(* configuration somebody set.                                             *)
(***************************************************************************)
EXTENDS Config, TLAPS

\* Which steps belong to the start of the board, and what they work on.
StartAndRun ==
  /\ pc \in {"init", "load"} => booting
  /\ pc = "run" => ~booting
  /\ booting => pConfig = Default /\ xConfig = Default
  /\ ~booting => pConfig = xConfig \/ pc = "run"

\* CONFIG_init saves only over a page that is not valid.
SavesOverInvalid == booting /\ pc \in {"compare", "erase"} => ~Valid(page)

\* CONFIG_save gets to the erase only if the page holds something else.
ErasesToChange == pc = "erase" => page # Image(pConfig)

SavesSetConfig == pConfig \in Configs

PageHoldsSet == Valid(page) => Content(page) \in Configs

\* During a save the words before i have been programmed, if no write failed,
\* and those from i on are erased.
PageInProgress ==
  /\ pc = "program" => i <= NumWords
  /\ pc = "lock" => i = NumWords + 1
  /\ pc \in {"program", "lock"} =>
       /\ ~locked /\ durable = None
       /\ \A w \in 0..NumWords :
            /\ page[w] \in {Image(pConfig)[w], Erased}
            /\ w < i /\ ~faulty => page[w] = Image(pConfig)[w]
            /\ w >= i => page[w] = Erased
  /\ pc = "erase" => ~locked

IInv == /\ TypeOK /\ StartAndRun /\ SavesOverInvalid /\ ErasesToChange /\ SavesSetConfig /\ NoMixture
        /\ PageHoldsSet /\ PageInProgress /\ DurableUntilErased /\ UnlockedOnlyToSave

(***************************************************************************)
(* Pages                                                                   *)
(***************************************************************************)

\* A configuration's image is a valid page that holds it.
LEMMA ImageHolds ==
  ASSUME NEW c \in AllConfigs
  PROVE  IsPage(Image(c)) /\ Valid(Image(c)) /\ Content(Image(c)) = c
<1>1. Content(Image(c)) = [w \in 1..NumWords |-> c[w]]
  <2>1. \A w \in 1..NumWords : w \in 0..NumWords /\ w # 0
    BY ConfigAssumption
  <2>2. \A w \in 1..NumWords : Image(c)[w] = c[w]
    BY <2>1 DEF Image
  <2>3. QED
    BY <2>2, Zenon DEF Content
<1>2. c = [w \in 1..NumWords |-> c[w]]
  BY DEF AllConfigs
<1>3. Image(c)[0] = c
  BY ConfigAssumption DEF Image, CRC
<1>4. \A w \in 1..NumWords : Image(c)[w] = c[w] /\ c[w] \in Cells
  BY ConfigAssumption DEF Image, Cells, AllConfigs
<1>5. Image(c) = [w \in 0..NumWords |-> Image(c)[w]]
  BY DEF Image
<1>6. QED
  BY <1>1, <1>2, <1>3, <1>4, <1>5 DEF IsPage, Valid, CRC

\* A valid page is the image of what it holds.
LEMMA ValidIsImage ==
  ASSUME NEW p, IsPage(p), Valid(p)
  PROVE  Content(p) \in AllConfigs /\ p = Image(Content(p))
<1>1. Content(p) \in [1..NumWords -> Cells]
  BY DEF Content, IsPage
<1>2. p[0] \in AllConfigs
  BY <1>1, ConfigAssumption DEF IsPage, Valid, CRC, Cells
<1>3. Content(p) \in AllConfigs
  BY <1>2 DEF Valid, CRC
<1>4. \A w \in 0..NumWords : p[w] = Image(Content(p))[w]
  <2>1. SUFFICES ASSUME NEW w \in 0..NumWords PROVE p[w] = Image(Content(p))[w]
    OBVIOUS
  <2>2. CASE w = 0
    BY <2>2, ConfigAssumption DEF Image, Valid, CRC
  <2>3. CASE w # 0
    <3>1. w \in 1..NumWords
      BY <2>3, ConfigAssumption
    <3>2. Content(p)[w] = p[w]
      BY <3>1 DEF Content
    <3>3. QED
      BY <2>3, <3>2 DEF Image
  <2>4. QED
    BY <2>2, <2>3
<1>5. Image(Content(p)) = [w \in 0..NumWords |-> Image(Content(p))[w]]
  BY DEF Image
<1>6. QED
  BY <1>3, <1>4, <1>5 DEF IsPage

\* Images of different configurations differ.
LEMMA ImageInjective ==
  ASSUME NEW c, NEW d, Image(c) = Image(d)
  PROVE  c = d
<1>1. Image(c)[0] = c /\ Image(d)[0] = d
  BY ConfigAssumption DEF Image, CRC
<1>2. QED
  BY <1>1

\* A page with an erased or torn word is not valid.
LEMMA HoleInvalid ==
  ASSUME NEW p, IsPage(p), NEW w \in 0..NumWords, p[w] \in {Erased, Torn}
  PROVE  ~Valid(p)
<1>1. SUFFICES ASSUME Valid(p) PROVE FALSE
  OBVIOUS
<1>2. Content(p) \in AllConfigs /\ p = Image(Content(p))
  BY <1>1, ValidIsImage
<1>3. Erased \notin AllConfigs /\ Torn \notin AllConfigs
  <2>1. AllConfigs \subseteq [1..NumWords -> Values \cup {Erased, Torn}]
    BY DEF AllConfigs
  <2>2. QED
    BY <2>1, ConfigAssumption
<1>4. CASE w = 0
  BY <1>1, <1>2, <1>3, <1>4 DEF Valid, CRC
<1>5. CASE w # 0
  <2>1. w \in 1..NumWords
    BY <1>5, ConfigAssumption
  <2>2. Content(p)[w] = p[w]
    BY <2>1 DEF Content
  <2>3. Content(p)[w] \in Values
    BY <1>2, <2>1 DEF AllConfigs
  <2>4. QED
    BY <2>2, <2>3, ConfigAssumption
<1>6. QED
  BY <1>4, <1>5

LEMMA BlankInvalid == IsPage(Blank) /\ ~Valid(Blank)
<1>1. IsPage(Blank)
  BY ConfigAssumption DEF IsPage, Blank, Cells
<1>2. 0 \in 0..NumWords /\ Blank[0] = Erased
  BY ConfigAssumption DEF Blank
<1>3. QED
  BY <1>1, <1>2, HoleInvalid

\* An erase that is cut off or fails changes nothing or leaves an invalid page.
LEMMA PartlyErasedInvalid ==
  ASSUME NEW p, IsPage(p), NEW q \in PartlyErased(p)
  PROVE  IsPage(q) /\ (q = p \/ ~Valid(q))
<1>1. PICK W \in SUBSET (0..NumWords) :
        q = [w \in 0..NumWords |-> IF w \in W THEN Erased ELSE p[w]]
  BY DEF PartlyErased
<1>2. \A w \in 0..NumWords : q[w] = IF w \in W THEN Erased ELSE p[w]
  BY <1>1
<1>3. IsPage(q)
  <2>1. q = [w \in 0..NumWords |-> q[w]]
    BY <1>1
  <2>2. q[0] \in AllConfigs \cup {Erased, Torn}
    <3>1. q[0] = Erased \/ q[0] = p[0]
      BY <1>2, ConfigAssumption
    <3>2. QED
      BY <3>1 DEF IsPage
  <2>3. \A w \in 1..NumWords : q[w] \in Cells
    <3>1. \A w \in 1..NumWords : q[w] = Erased \/ q[w] = p[w]
      BY <1>2, ConfigAssumption
    <3>2. QED
      BY <3>1 DEF IsPage, Cells
  <2>4. QED
    BY <2>1, <2>2, <2>3 DEF IsPage
<1>4. CASE W = {}
  <2>1. \A w \in 0..NumWords : q[w] = p[w]
    BY <1>2, <1>4
  <2>2. QED
    BY <1>3, <2>1 DEF IsPage
<1>5. CASE W # {}
  <2>1. PICK w \in 0..NumWords : w \in W
    BY <1>5
  <2>2. q[w] = Erased
    BY <1>2, <2>1
  <2>3. QED
    BY <1>3, <2>2, HoleInvalid
<1>6. QED
  BY <1>4, <1>5

\* A word whose programming was cut off makes the page invalid.
LEMMA TornInvalid ==
  ASSUME NEW p, IsPage(p), NEW w \in 0..NumWords
  PROVE  LET q == [p EXCEPT ![w] = Torn] IN IsPage(q) /\ ~Valid(q)
<1> DEFINE q == [p EXCEPT ![w] = Torn]
<1>1. /\ q = [v \in 0..NumWords |-> q[v]]
      /\ \A v \in 0..NumWords : q[v] = IF v = w THEN Torn ELSE p[v]
  BY DEF IsPage
<1>2. IsPage(q)
  <2>1. q[0] \in AllConfigs \cup {Erased, Torn}
    <3>1. q[0] = Torn \/ q[0] = p[0]
      BY <1>1, ConfigAssumption
    <3>2. QED
      BY <3>1 DEF IsPage
  <2>2. \A v \in 1..NumWords : q[v] \in Cells
    <3>1. \A v \in 1..NumWords : q[v] = Torn \/ q[v] = p[v]
      BY <1>1, ConfigAssumption
    <3>2. QED
      BY <3>1 DEF IsPage, Cells
  <2>3. QED
    BY <1>1, <2>1, <2>2 DEF IsPage
<1>3. q[w] \in {Erased, Torn}
  BY <1>1
<1>4. QED
  BY <1>2, <1>3, HoleInvalid

(***************************************************************************)
(* The invariant is preserved: one step per action.                        *)
(***************************************************************************)

LEMMA DefaultIsConfig == Default \in AllConfigs /\ Default \in Configs /\ Configs \subseteq AllConfigs
  BY ConfigAssumption DEF AllConfigs

LEMMA NoneIsNoConfig == None \notin AllConfigs
<1>1. AllConfigs \subseteq [1..NumWords -> Values \cup {Erased, Torn}]
  BY DEF AllConfigs
<1>2. QED
  BY <1>1, ConfigAssumption

LEMMA InitInv == Init => IInv
<1> SUFFICES ASSUME Init PROVE IInv
  OBVIOUS
<1>1. TypeOK
  <2>1. i \in 0..NumWords + 1 /\ nCrashes \in 0..MaxCrashes /\ nFaults \in 0..MaxFaults
    BY ConfigAssumption DEF Init
  <2>2. xConfig \in AllConfigs /\ pConfig \in AllConfigs /\ IsPage(page) /\ durable \in AllConfigs \cup {None}
    BY DefaultIsConfig, BlankInvalid DEF Init
  <2>3. QED
    BY <2>1, <2>2 DEF Init, TypeOK
<1>2. QED
  BY <1>1, DefaultIsConfig, BlankInvalid
     DEF Init, IInv, StartAndRun, SavesOverInvalid, ErasesToChange, SavesSetConfig, NoMixture, PageHoldsSet,
         PageInProgress, DurableUntilErased, UnlockedOnlyToSave

LEMMA NextInv == IInv /\ [Next]_vars => IInv'
<1> SUFFICES ASSUME IInv, [Next]_vars PROVE IInv'
  OBVIOUS
<1> USE DEF IInv
<1>1. CASE CONFIG_init
  <2> USE <1>1 DEF CONFIG_init, history
  <2>1. TypeOK'
    BY DefaultIsConfig DEF TypeOK
  <2>2. QED
    BY <2>1, DefaultIsConfig
       DEF StartAndRun, SavesOverInvalid, ErasesToChange, SavesSetConfig, NoMixture, PageHoldsSet,
           PageInProgress, DurableUntilErased, UnlockedOnlyToSave
<1>2. CASE CONFIG_load
  <2> USE <1>2 DEF CONFIG_load, history
  <2>1. xConfig' \in Configs
    BY DefaultIsConfig DEF PageHoldsSet
  <2>2. TypeOK'
    BY <2>1, DefaultIsConfig DEF TypeOK
  <2>3. durable # None => xConfig' = durable
    <3>1. SUFFICES ASSUME durable # None PROVE xConfig' = durable
      OBVIOUS
    <3>2. page = Image(durable) /\ durable \in AllConfigs
      BY <3>1 DEF DurableUntilErased, TypeOK
    <3>3. Valid(page) /\ Content(page) = durable
      BY <3>2, ImageHolds
    <3>4. QED
      BY <3>3
  <2>4. QED
    BY <2>1, <2>2, <2>3
       DEF StartAndRun, SavesOverInvalid, ErasesToChange, SavesSetConfig, NoMixture, PageHoldsSet,
           PageInProgress, DurableUntilErased, UnlockedOnlyToSave
<1>3. ASSUME NEW c \in Configs, Edit(c)
      PROVE  IInv'
  <2> USE <1>3 DEF Edit, history
  <2>1. TypeOK'
    BY DefaultIsConfig DEF TypeOK
  <2>2. QED
    BY <2>1
       DEF StartAndRun, SavesOverInvalid, ErasesToChange, SavesSetConfig, NoMixture, PageHoldsSet,
           PageInProgress, DurableUntilErased, UnlockedOnlyToSave
<1>4. CASE Compare
  <2> USE <1>4 DEF Compare, Return
  <2>1. TypeOK'
    BY DEF TypeOK
  <2>2. CASE page = Image(pConfig)
    <3>1. pConfig \in AllConfigs
      BY DEF TypeOK
    <3>2. ~booting
      BY <2>2, <3>1, ImageHolds DEF SavesOverInvalid
    <3>3. durable # None => durable = xConfig
      BY <2>2, <3>2, ImageInjective DEF DurableUntilErased, StartAndRun
    <3>4. QED
      BY <2>1, <2>2, <3>2, <3>3
         DEF StartAndRun, SavesOverInvalid, ErasesToChange, SavesSetConfig, NoMixture, PageHoldsSet,
             PageInProgress, DurableUntilErased, UnlockedOnlyToSave
  <2>3. CASE page # Image(pConfig)
    BY <2>1, <2>3
       DEF StartAndRun, SavesOverInvalid, ErasesToChange, SavesSetConfig, NoMixture, PageHoldsSet,
           PageInProgress, DurableUntilErased, UnlockedOnlyToSave
  <2>4. QED
    BY <2>2, <2>3
<1>5. CASE Erase
  <2> USE <1>5 DEF Erase
  <2>1. TypeOK'
    BY BlankInvalid, ConfigAssumption DEF TypeOK
  <2>2. PageInProgress'
    BY ConfigAssumption DEF PageInProgress, Blank
  <2>3. QED
    BY <2>1, <2>2, BlankInvalid
       DEF StartAndRun, SavesOverInvalid, ErasesToChange, SavesSetConfig, NoMixture, PageHoldsSet,
           DurableUntilErased, UnlockedOnlyToSave
<1>6. CASE EraseFails
  <2> USE <1>6 DEF EraseFails, Return
  <2>1. IsPage(page') /\ (page' = page \/ ~Valid(page'))
    BY PartlyErasedInvalid DEF TypeOK
  <2>2. TypeOK'
    BY <2>1, ConfigAssumption DEF TypeOK
  <2>3. QED
    BY <2>1, <2>2
       DEF StartAndRun, SavesOverInvalid, ErasesToChange, SavesSetConfig, NoMixture, PageHoldsSet,
           PageInProgress, DurableUntilErased, UnlockedOnlyToSave
<1>7. CASE Program
  <2> USE <1>7 DEF Program, Programmed, LastWord, history
  <2>1. /\ i \in 0..NumWords /\ pConfig \in AllConfigs /\ IsPage(page)
        /\ \A w \in 0..NumWords : page'[w] = IF w = i THEN Image(pConfig)[i] ELSE page[w]
    <3>1. i \in 0..NumWords /\ pConfig \in AllConfigs /\ IsPage(page)
      BY ConfigAssumption DEF TypeOK, PageInProgress
    <3>2. DOMAIN page = 0..NumWords
      BY <3>1, Zenon DEF IsPage
    <3>3. QED
      BY <3>1, <3>2
  <2>2. PageInProgress'
    BY <2>1, ConfigAssumption DEF PageInProgress
  <2>3. IsPage(page')
    <3>1. page' = [w \in 0..NumWords |-> page'[w]]
      BY <2>1 DEF IsPage
    <3>2. \A w \in 0..NumWords : page'[w] = Image(pConfig)[w] \/ page'[w] = page[w]
      BY <2>1
    <3>3. IsPage(Image(pConfig))
      BY <2>1, ImageHolds
    <3>4. page'[0] \in AllConfigs \cup {Erased, Torn}
      <4>1. page'[0] = Image(pConfig)[0] \/ page'[0] = page[0]
        BY <3>2, ConfigAssumption
      <4>2. QED
        BY <2>1, <3>3, <4>1 DEF IsPage
    <3>5. \A w \in 1..NumWords : page'[w] \in Cells
      <4>1. \A w \in 1..NumWords : w \in 0..NumWords
        OBVIOUS
      <4>2. QED
        BY <2>1, <3>2, <3>3, <4>1 DEF IsPage
    <3>6. QED
      BY <3>1, <3>4, <3>5 DEF IsPage
  <2>4. TypeOK'
    BY <2>1, <2>3, ConfigAssumption DEF TypeOK
  <2>5. PageHoldsSet'
    <3>1. SUFFICES ASSUME Valid(page') PROVE Content(page') = pConfig
      BY DEF PageHoldsSet, SavesSetConfig
    <3>2. 0 \in 0..NumWords
      BY ConfigAssumption
    <3>3. page'[0] # Erased
      BY <2>3, <3>1, <3>2, HoleInvalid
    <3>4. page'[0] = pConfig
      BY <2>2, <3>2, <3>3 DEF PageInProgress, Image, CRC
    <3>5. QED
      BY <3>1, <3>4 DEF Valid, CRC
  <2>6. QED
    BY <2>2, <2>4, <2>5
       DEF StartAndRun, SavesOverInvalid, ErasesToChange, SavesSetConfig, NoMixture,
           PageInProgress, DurableUntilErased, UnlockedOnlyToSave
<1>8. CASE ProgramFails
  <2> USE <1>8 DEF ProgramFails, Programmed, LastWord
  <2>1. TypeOK'
    BY ConfigAssumption DEF TypeOK, PageInProgress
  <2>2. PageInProgress'
    BY ConfigAssumption DEF PageInProgress, TypeOK
  <2>3. QED
    BY <2>1, <2>2
       DEF StartAndRun, SavesOverInvalid, ErasesToChange, SavesSetConfig, NoMixture, PageHoldsSet,
           PageInProgress, DurableUntilErased, UnlockedOnlyToSave
<1>9. CASE Lock
  <2> USE <1>9 DEF Lock, Return
  <2>1. TypeOK'
    BY DEF TypeOK
  <2>2. ~faulty => page = Image(pConfig)
    <3>1. SUFFICES ASSUME ~faulty PROVE page = Image(pConfig)
      OBVIOUS
    <3>2. \A w \in 0..NumWords : page[w] = Image(pConfig)[w]
      BY <3>1, ConfigAssumption DEF PageInProgress
    <3>3. page = [w \in 0..NumWords |-> page[w]]
      BY DEF TypeOK, IsPage
    <3>4. Image(pConfig) = [w \in 0..NumWords |-> Image(pConfig)[w]]
      BY DEF Image
    <3>5. QED
      BY <3>2, <3>3, <3>4
  <2>3. QED
    BY <2>1, <2>2
       DEF StartAndRun, SavesOverInvalid, ErasesToChange, SavesSetConfig, NoMixture, PageHoldsSet,
           PageInProgress, DurableUntilErased, UnlockedOnlyToSave
<1>10. CASE Crash
  <2> USE <1>10 DEF Crash
  <2>1. IsPage(page') /\ (page' = page \/ ~Valid(page'))
    <3>1. CASE pc = "erase"
      BY <3>1, PartlyErasedInvalid DEF TypeOK
    <3>2. CASE pc = "program"
      <4>1. i \in 0..NumWords
        BY <3>2 DEF PageInProgress, TypeOK
      <4>2. QED
        BY <3>2, <4>1, TornInvalid DEF TypeOK
    <3>3. CASE pc # "erase" /\ pc # "program"
      BY <3>3 DEF TypeOK
    <3>4. QED
      BY <3>1, <3>2, <3>3
  <2>2. TypeOK'
    <3>1. i' \in 0..NumWords + 1 /\ nCrashes' \in 0..MaxCrashes /\ nFaults' \in 0..MaxFaults
      BY ConfigAssumption DEF TypeOK
    <3>2. xConfig' \in AllConfigs /\ pConfig' \in AllConfigs /\ durable' \in AllConfigs \cup {None}
      BY DefaultIsConfig DEF TypeOK
    <3>3. QED
      BY <2>1, <3>1, <3>2 DEF TypeOK
  <2>3. QED
    BY <2>1, <2>2, DefaultIsConfig
       DEF StartAndRun, SavesOverInvalid, ErasesToChange, SavesSetConfig, NoMixture, PageHoldsSet,
           PageInProgress, DurableUntilErased, UnlockedOnlyToSave
<1>11. CASE UNCHANGED vars
  BY <1>11
     DEF vars, TypeOK, StartAndRun, SavesOverInvalid, ErasesToChange, SavesSetConfig, NoMixture, PageHoldsSet,
         PageInProgress, DurableUntilErased, UnlockedOnlyToSave
<1>12. QED
  BY <1>1, <1>2, <1>3, <1>4, <1>5, <1>6, <1>7, <1>8, <1>9, <1>10, <1>11 DEF Next, CONFIG_save

LEMMA InvHolds == Spec => []IInv
  BY InitInv, NextInv, PTL DEF Spec

(***************************************************************************)
(* The theorems                                                            *)
(***************************************************************************)

\* The state of the store is always well formed: CONFIG_save stays within the
\* words of a CONFIG, and what CONFIG_load puts in effect is one.
THEOREM ConfigTypeCorrect == Spec => []TypeOK
  BY InvHolds, PTL DEF IInv

\* Whatever power failures and failed writes leave in the page, the board works
\* with a configuration that somebody set or with the default.
THEOREM NeverAMixture == Spec => []NoMixture
  BY InvHolds, PTL DEF IInv

\* What a save without a fault has stored survives every restart until the page
\* is erased again, and is then in effect.
THEOREM SavedIsDurable == Spec => []DurableUntilErased
  BY InvHolds, PTL DEF IInv

\* The flash is unlocked during a save, or after an erase that failed.
THEOREM UnlockedToSave == Spec => []UnlockedOnlyToSave
  BY InvHolds, PTL DEF IInv

\* CONFIG_save programs erased words only.
THEOREM ProgramsErased == Spec => []ProgramsErasedWords
<1>1. IInv => ProgramsErasedWords
  <2> SUFFICES ASSUME IInv, pc = "program" PROVE i \in DOMAIN page /\ page[i] = Erased
    BY DEF ProgramsErasedWords
  <2>1. i \in 0..NumWords
    BY DEF IInv, TypeOK, PageInProgress
  <2>2. DOMAIN page = 0..NumWords
    BY Zenon DEF IInv, TypeOK, IsPage
  <2>3. QED
    BY <2>1, <2>2 DEF IInv, PageInProgress
<1>2. QED
  BY <1>1, InvHolds, PTL

\* A save of what the page already holds does not erase it.
THEOREM NoNeedlessErase == Spec => ErasesOnlyToChange
<1>1. IInv => (pc = "erase" /\ pc' = "program" => page # Image(pConfig))
  BY DEF IInv, ErasesToChange
<1>2. QED
  BY <1>1, InvHolds, PTL DEF ErasesOnlyToChange

\* A step that leaves an invalid page loses what was stored.
LEMMA StoredAfter ==
  /\ ~Valid(page') => Stored' = Default
  /\ page' = page => Stored' = Stored
  BY DEF Stored

\* The flash page, its CRC and the steps of CONFIG_save implement a store of one
\* configuration that a power failure or a fault may lose but never corrupts.
THEOREM ConfigImplementsStore == Spec => ImplementsConfigStore
<1>1. Init => Store!Init
  BY BlankInvalid DEF Init, Store!Init, Stored
<1>2. IInv /\ IInv' /\ [Next]_vars => [Store!Next]_(Store!vars)
  <2> SUFFICES ASSUME IInv, IInv', [Next]_vars
               PROVE  [Store!Next]_(Store!vars)
    OBVIOUS
  <2> USE DEF Store!Next, Store!vars
  <2>1. CASE CONFIG_init
    BY <2>1, StoredAfter DEF CONFIG_init
  <2>2. CASE CONFIG_load
    <3>1. booting /\ ~booting' /\ Stored' = Stored
      BY <2>2, StoredAfter DEF CONFIG_load, IInv, StartAndRun
    <3>2. xConfig' = Stored
      BY <2>2 DEF CONFIG_load, Stored
    <3>3. QED
      BY <3>1, <3>2
  <2>3. ASSUME NEW c \in Configs, Edit(c)
        PROVE  Store!Next
    <3>1. ~booting /\ ~booting' /\ Stored' = Stored /\ xConfig' = c
      BY <2>3, StoredAfter DEF Edit, IInv, StartAndRun
    <3>2. QED
      BY <3>1 DEF Store!Edit
  <2>4. CASE Compare
    BY <2>4, StoredAfter DEF Compare
  <2>5. CASE Erase \/ EraseFails \/ Program
    <3>1. booting' = booting /\ xConfig' = xConfig /\ pConfig' = pConfig
      BY <2>5 DEF Erase, EraseFails, Program, history
    <3>2. Stored' \in {Stored, Default, pConfig}
      <4>1. CASE Erase
        BY <4>1, BlankInvalid, StoredAfter DEF Erase
      <4>2. CASE EraseFails
        BY <4>2, PartlyErasedInvalid, StoredAfter DEF EraseFails, IInv, TypeOK
      <4>3. CASE Program
        <5>1. SUFFICES ASSUME Valid(page') PROVE Content(page') = pConfig
          BY DEF Stored
        <5>2. 0 \in 0..NumWords
          BY ConfigAssumption
        <5>3. page'[0] # Erased
          BY <5>1, <5>2, HoleInvalid DEF IInv, TypeOK
        <5>4. pc' \in {"program", "lock"}
          BY <4>3 DEF Program, Programmed
        <5>5. page'[0] = pConfig
          BY <3>1, <5>2, <5>3, <5>4 DEF IInv, PageInProgress, Image, CRC
        <5>6. QED
          BY <5>1, <5>5 DEF Valid, CRC
      <4>4. QED
        BY <2>5, <4>1, <4>2, <4>3
    <3>3. CASE booting
      <4>1. pConfig = Default
        BY <3>3 DEF IInv, StartAndRun
      <4>2. Stored' \in {Stored, Default}
        BY <3>2, <4>1
      <4>3. QED
        BY <3>1, <3>3, <4>2 DEF Store!Restart
    <3>4. CASE ~booting
      <4>1. pConfig = xConfig
        BY <2>5, <3>4 DEF IInv, StartAndRun, Erase, EraseFails, Program
      <4>2. QED
        BY <3>1, <3>2, <3>4, <4>1 DEF Store!Save
    <3>5. QED
      BY <3>3, <3>4
  <2>6. CASE ProgramFails \/ Lock
    BY <2>6, StoredAfter DEF ProgramFails, Lock
  <2>7. CASE Crash
    <3>1. page' = page \/ ~Valid(page')
      <4>1. CASE pc = "erase"
        BY <2>7, <4>1, PartlyErasedInvalid DEF Crash, IInv, TypeOK
      <4>2. CASE pc = "program"
        <5>1. i \in 0..NumWords
          BY <4>2 DEF IInv, PageInProgress, TypeOK
        <5>2. QED
          BY <2>7, <4>2, <5>1, TornInvalid DEF Crash, IInv, TypeOK
      <4>3. CASE pc # "erase" /\ pc # "program"
        BY <2>7, <4>3 DEF Crash
      <4>4. QED
        BY <4>1, <4>2, <4>3
    <3>2. booting' /\ Stored' \in {Stored, Default}
      BY <2>7, <3>1, StoredAfter DEF Crash
    <3>3. QED
      BY <3>2 DEF Store!Restart
  <2>8. CASE UNCHANGED vars
    BY <2>8, StoredAfter DEF vars
  <2>9. QED
    BY <2>1, <2>2, <2>3, <2>4, <2>5, <2>6, <2>7, <2>8 DEF Next, CONFIG_save
<1>3. QED
  BY <1>1, <1>2, InvHolds, PTL DEF Spec, ImplementsConfigStore, Store!Spec

=============================================================================
