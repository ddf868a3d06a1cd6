SPECIFICATION Spec
CONSTANTS
  NumWords = 2
  Values <- MCValues
  Erased = Erased
  Torn = Torn
  Configs <- MCConfigs
  Default <- MCDefault
  None = None
  MaxCrashes = 3
  MaxFaults = 2
INVARIANTS
  NoMixture
  DurableUntilErased
PROPERTIES
  ErasesOnlyToChange
  ImplementsConfigStore
