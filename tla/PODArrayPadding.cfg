SPECIFICATION Spec
CONSTANTS
  Arrays = {a1}
  Blocks <- MCBlocks
  Values <- MCValues
  Zero = 0
  Gone = Gone
  Layouts <- MCLayoutsTwelve
  MaxSize = 4
INVARIANTS
  PaddingEnough
CHECK_DEADLOCK FALSE
