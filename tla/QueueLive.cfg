SPECIFICATION FairSpec
CONSTANTS
  a = a
  b = b
  Tenant = {a, b}
  Request = {1, 2, 3}
  TenantOf <- TwoAndOne
  NoTenant = NoTenant
INVARIANTS
  TypeOK
  OneEntry
  HeadIsTarget
  MarkedIsListed
PROPERTIES
  LineSpec
  ListedIsServed
