SPECIFICATION Spec
CONSTANTS
  Worker = {w1, w2}
  NoWorker = NoWorker
  NumCalls = 2
  Classes = {"CONDITIONALLY_IDEMPOTENT", "NON_IDEMPOTENT"}
  Authorities = {"ALLOW", "REQUIRE_APPROVAL"}
  MaxAttempts = 2
  MaxPolicyChanges = 0
SYMMETRY WorkerSymmetry
INVARIANTS
  AtMostOnceEffect
  UncertainIsNotRepeated
CHECK_DEADLOCK FALSE
