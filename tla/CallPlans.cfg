SPECIFICATION FairSpec
CONSTANTS
  Call <- Numbers
  RunOf <- Places
  First = 1
  RetryEvery = 1
  RetryUntil = 2
  FollowUpAfter = 1
  ResultWait = 2
  Grace = 1
  Limit = 2
  MayDeny = TRUE
  OwnerMayAct = TRUE
  MaxTime = 4
INVARIANTS
  NextCallIsWarranted
PROPERTIES
  PlanComesToRest
CHECK_DEADLOCK FALSE
