SPECIFICATION FairSpec
CONSTANTS
  a = a
  b = b
  c = c
  n1 = n1
  n2 = n2
  Worker = {a, b, c}
  Node = {n1, n2}
  Request <- Requests
  Slices <- MCSlices
  Labels <- MCLabels
  Allocatable <- MCAllocatable
  GiB = 4
  Unsteady = {n1}
  Spread = FALSE
  MaxChurn = 1
  None = None
CHECK_DEADLOCK FALSE
PROPERTIES
  FreeNodeIsUsed
  FreeSeatIsUsed
INVARIANTS
  TypeOK
  KeptJoinsFit
