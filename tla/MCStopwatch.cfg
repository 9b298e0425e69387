SPECIFICATION Spec
CONSTANTS
  Thread = {t1, t2, t3}
  LockBit = 8
  Thresholds = {0, 2}
  MaxTime = 3
  MayMove = TRUE
  MayRestart = TRUE
SYMMETRY Symmetry
INVARIANT Inv
PROPERTIES PeriodOver ImplementsTimer
CHECK_DEADLOCK FALSE
