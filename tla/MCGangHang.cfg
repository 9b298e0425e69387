SPECIFICATION FairSpec
CONSTANTS
  Num = 3
  MaxSubmits = 1
  MayThrow = FALSE
  GenMod = 8
  UIntMax = 20
  BarOverflow = 10
  BarWasLast = 4
PROPERTIES DestructorReturns
CHECK_DEADLOCK FALSE
