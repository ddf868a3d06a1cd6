SPECIFICATION Spec
CONSTANTS
  HeapUnits = 13
  Requests = {0, 8, 12, 32}
INVARIANTS
  FreeListExact
  FailsOnlyWhenNothingFits
PROPERTY ImplementsAllocator
