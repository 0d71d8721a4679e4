SPECIFICATION Spec
CONSTANTS
  n1 = n1
  n2 = n2
  n3 = n3
  s1 = s1
  s2 = s2
  p1 = p1
  p2 = p2
  Param = {p1, p2}
  Name = {n1, n2}
  Sample = {s1}
  None = None
  Keep = 1
  MaxStep = 2
  MaxQueue = 2
SYMMETRY Symmetry
INVARIANTS
  SamplesSavedWeights
