SPECIFICATION Spec
CONSTANTS
  FirstYear = 2094
  LastYear = 2150
  FirstWeekday = 5
  Cadences <- AllCadences
  Zones <- Clocks
  Starts <- MCStarts
  MaxSteps = 9
INVARIANTS
  NextInstantIsFound
  LatestIsTheOneBefore
  CountIsTheNumberOfSteps
CHECK_DEADLOCK FALSE
