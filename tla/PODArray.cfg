SPECIFICATION Spec
CONSTANTS
  Arrays = {a1, a2}
  Blocks <- MCBlocks
  Values <- MCValues
  Zero = 0
  Gone = Gone
  Layouts <- MCLayouts
  MaxSize = 2
INVARIANTS
  StorageOwned
  PaddingEnough
  InsideStorage
  ContentAsCalled
SYMMETRY MCSymmetry
PROPERTIES
  StaysPut
CHECK_DEADLOCK FALSE
