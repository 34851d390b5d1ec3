CONSTANTS
  Analysis = {r1, r2, r3}
  Enrichment = {loop}
  MaxConcurrency = 1
  MaxQueueSize = 1
  MaxRetries = 1
  Watched = {r1, loop}
  Third = r3
SPECIFICATION WatchedSpec
CHECK_DEADLOCK FALSE
INVARIANTS
  SlotsConserved
  DatabaseOutlivesAwaited
PROPERTIES
  WatchedCallsEnd
  StopEnds
