SPECIFICATION Spec
CONSTANTS
  c1 = c1
  c2 = c2
  Clients = {c1, c2}
  RetryLimit = 2
  ServerUp = 0
  ClientUp <- MCClientUp
  TimeMod = 8
  MaxClock = 1
INVARIANTS
  Inv
  AnswerFresh
  HandledOnce
  NothingAfterLeave
PROPERTIES
  ClientsEnd
  ListeningServerStops
CHECK_DEADLOCK FALSE
