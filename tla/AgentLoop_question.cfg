SPECIFICATION Spec
CONSTANTS
  MaxSteps = 2
  MaxModels = 4
  MaxTools = 2
  ReserveSteps = 0
  ReserveModels = 1
  ReserveTools = 0
  MaxAttempts = 2
  LoneQuestions = FALSE
  Refusals = "none"
  Waits = {"user"}
  MaxBatch = 2
  MaxCrashes = 0
  MaxLosses = 0
  MaxParks = 1
  MaxExtras = 0
INVARIANTS
  RequestAssembles
