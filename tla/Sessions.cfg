SPECIFICATION FairSpec
CONSTANTS
  s1 = s1
  s2 = s2
  o1 = o1
  Session = {s1, s2}
  Owner = {o1}
  Shared = {}
  Role = {"trainer", "sampler"}
  None = None
  Reaper = Reaper
INVARIANTS
  TypeOK
  UsedWorkersStay
  WorkersAreListed
PROPERTIES
  AbandonedWorkersGo
