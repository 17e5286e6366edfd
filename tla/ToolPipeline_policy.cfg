SPECIFICATION Spec
CONSTANTS
  Worker = {w1, w2}
  NoWorker = NoWorker
  NumCalls = 1
  Classes = {"IDEMPOTENT", "NON_IDEMPOTENT"}
  Authorities = {"ALLOW", "STANDING", "REQUIRE_APPROVAL", "DENY"}
  MaxAttempts = 2
  MaxPolicyChanges = 1
SYMMETRY WorkerSymmetry
INVARIANTS
  EffectIsAuthorized
  ApprovalAndInvocationAgree
CHECK_DEADLOCK FALSE
