SPECIFICATION FairSpec
CONSTANTS
  Worker = {w1, w2}
  Chunks = 2
  MaxAttempts = 2
  HasTemplates = TRUE
  MaxLapses = 1
  MaxCrashes = 1
  MaxInbound = 2
INVARIANTS
  ReplyArrivesWhole
  OneCopyPerClaim
PROPERTIES
  ReplyIsSettled
CHECK_DEADLOCK FALSE
