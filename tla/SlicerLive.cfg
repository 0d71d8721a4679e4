SPECIFICATION LrsSpec
CONSTANTS
  Workload = {1, 2, 3}
  Claim = {k1}
  ClaimOf <- OneClaim
  Conn = {1, 2, 3}
  NoConn = 0
  NoWorkload = 0
  Policy = "lrs"
ACTION_CONSTRAINTS OwnConnection OffDevice
PROPERTIES NoStarvation
