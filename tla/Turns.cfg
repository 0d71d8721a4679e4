SPECIFICATION FairSpec
CONSTANTS
  t1 = t1
  t2 = t2
  Trainer = {t1, t2}
  None = None
  Sends <- AnyAndWork
  MaxPuts <- TwoAndOne
CHECK_DEADLOCK FALSE
INVARIANTS
  TypeOK
  WorkHoldsGrant
  SaveFollowsEarlierWork
  AnswerIsOutcome
PROPERTIES
  LeaseSpec
  RequestsAreAnswered
