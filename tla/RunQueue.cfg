SPECIFICATION FairSpec
CONSTANTS
  Run = {r1}
  ChildRun = {r1}
  Worker = {w1, w2}
  MaxAttempts = 3
  MaxResumes = 1
  MaxSteps = 1
  NoWorker = NoWorker
  NoRun = NoRun
INVARIANTS
  LeaseIffRunning
  EpochNamesOneExecution
  JournalIsFenced
  JournalReplaysRow
PROPERTIES
  RunsComeToRest
  ImplementsLifecycle
CHECK_DEADLOCK FALSE
