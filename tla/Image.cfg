SPECIFICATION Spec
CONSTANTS
  NumSlots = 4
  Layouts = {1, 2, 4}
  Images = {}
  NoImage = none
  MaxIndex = 5
INVARIANTS
  NeverStale
  IndicesApart
PROPERTIES
  SomethingSurvives
