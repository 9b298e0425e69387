SPECIFICATION Spec
CONSTANTS
  Thread = {t1, t2}
  Modulus = 4
  None = None
PROPERTY
  ImplementsAtomicWord
  CallsKeepReturning
CHECK_DEADLOCK FALSE
