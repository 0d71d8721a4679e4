SPECIFICATION Spec
CONSTANTS
  a = a
  b = b
  a1 = a1
  a2 = a2
  b1 = b1
  None = None
  Name <- MCName
  Worker <- MCWorker
  NameOf <- MCNameOf
  Exclusive = {a2}
  Spread = FALSE
  PodLag = FALSE
  SeatLag = FALSE
  Evicts = FALSE
INVARIANTS
  TypeOK
  ExclusiveAlone
PROPERTIES
  OthersSeatsStay
CHECK_DEADLOCK FALSE
