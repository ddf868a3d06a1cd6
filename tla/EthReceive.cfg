SPECIFICATION Spec
CONSTANTS
  NumDesc = 3
  PoolSize = 3
  MboxSize = 2
  MaxFrames = 7
INVARIANTS
  PbufsConserved
  NoStall
PROPERTIES
  OnceInOrder
CHECK_DEADLOCK FALSE
