SPECIFICATION CallsFairSpec
CONSTANTS
  Invocation = {c1, c2}
  Worker = {w1, w2}
  Reconciler = {r1, r2}
  NoCall = NoCall
  MaxCrashes = 1
INVARIANTS
  OneCallAtATime
  NeverRedials
PROPERTIES
  ResultsAreFinal
  ImplementsLedger
  ReachedCallIsReleased
CHECK_DEADLOCK FALSE
