SPECIFICATION FairSpec
CONSTANTS
  Child = {c1, c2}
  MaxCost = 2
  MaxOwn = 2
  MaxCrashes = 1
  MaxParks = 1
  MaxLosses = 1
INVARIANTS
  LedgerMatchesInvocation
  ChargedAtMostOnce
  CascadeReachesEveryChild
  UsageIsAdditive
PROPERTIES
  ParentIsJoined
CHECK_DEADLOCK FALSE
