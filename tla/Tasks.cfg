SPECIFICATION FairSpec
CONSTANTS
  Num = 3
  CpuNum = 1
  Start = 1
  End = 8
  Granular = 2
  SizeMod = 40
INVARIANTS Inv ExactlyOnce NothingLeftBehind CursorBounded
PROPERTY Terminates
