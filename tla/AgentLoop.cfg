SPECIFICATION Spec
CONSTANTS
  MaxSteps = 2
  MaxModels = 3
  MaxTools = 2
  ReserveSteps = 0
  ReserveModels = 1
  ReserveTools = 0
  MaxAttempts = 2
  LoneQuestions = TRUE
  Refusals = "lasting"
  Waits = {"approval", "user"}
  MaxBatch = 2
  MaxCrashes = 2
  MaxLosses = 1
  MaxParks = 1
  MaxExtras = 1
INVARIANTS
  WorkIsDoneOnce
  OnlyRefusalsRepeat
  UsageMatchesResults
