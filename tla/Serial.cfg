SPECIFICATION FairSpec
CONSTANTS
  N = 2
  MaxBytes = 4
  MaxSize = 2
  Readers = {r1}
  Writers = {w1}
  NoTask = NoTask
INVARIANTS
  NoLostWakeup
PROPERTIES
  ImplementsByteFifo
  EveryByteLeaves
  PutsFinishes
  GetsReturns
