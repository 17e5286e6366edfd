SPECIFICATION Spec
CONSTANTS
  Definitions <- MCDefinitions
  Grace = 0
  KeepsFeed = TRUE
  Keys = {k1}
  ManualPerDay = 2
  Day = 2
  RefreshMinute = 2
  MayBeBusy = TRUE
  MaxTime = 4
  MaxRequests = 1
  MaxRevisions = 2
  MaxOccurrences = 3
INVARIANTS
  NothingIsSkippedSilently
  CountMatchesEvents
  OverlapNeedsHiddenRun
PROPERTIES
  NoBackfill
CHECK_DEADLOCK FALSE
