SPECIFICATION FairSpec
CONSTANTS
  Num = 3
  MaxSubmits = 3
  MayThrow = TRUE
  GenMod = 8
  UIntMax = 20
  BarOverflow = 10
  BarWasLast = 4
INVARIANTS Inv NoStaleTask ReinitUndisturbed FlagInitialised
PROPERTIES ImplementsForkJoin SubmitReturns DestructorReturnsUnlessWorkerLast
CHECK_DEADLOCK FALSE
