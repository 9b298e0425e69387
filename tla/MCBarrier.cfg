SPECIFICATION FairSpec
CONSTANTS
  Thread = {t1, t2, t3, t4}
  GenMod = 8
  UIntMax = 15
  BarOverflow = 7
  MaxRounds = 3
INVARIANT Inv
PROPERTIES ImplementsRendezvous SleepersLeave
CHECK_DEADLOCK FALSE
