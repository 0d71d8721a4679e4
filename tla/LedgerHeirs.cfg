SPECIFICATION FairSpec
CONSTANTS
  a = a
  b = b
  a1 = a1
  a2 = a2
  b1 = b1
  None = None
  Name <- HeirName
  Worker <- HeirWorker
  NameOf <- HeirNameOf
  Exclusive = {a1}
  Spread = FALSE
  PodLag = TRUE
  SeatLag = TRUE
  Evicts = TRUE
PROPERTIES
  NoSeatOutlives
  TeardownWaits
  TeardownEnds
CHECK_DEADLOCK FALSE
