SPECIFICATION RoughSpec
CONSTANTS
  Workload = {w1, w2}
  Claim = {k1}
  ClaimOf <- OneClaim
  Conn = {c1, c2, c3}
  NoConn = NoConn
  NoWorkload = NoWorkload
  Policy = "fifo"
SYMMETRY Symmetry
INVARIANTS
  WaitersAreServed
