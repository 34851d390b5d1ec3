CONSTANTS
  Analysis = {r1}
  Enrichment = {loop}
  MaxConcurrency = 1
  MaxQueueSize = 1
  MaxRetries = 1
  Watched = {r1}
  Third = r1
SPECIFICATION ProcessFairSpec
CHECK_DEADLOCK FALSE
INVARIANTS
  TimeoutsAreContained
