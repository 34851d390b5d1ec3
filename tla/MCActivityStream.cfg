CONSTANTS
  Console = {c1}
  MaxCursor = 3
  PageSize = 1
  Window = 1
  MaxConnections = 1
  MaxFaults = 3
SPECIFICATION FairSpec
CHECK_DEADLOCK FALSE
INVARIANTS
  TypeOK
  FeedIsExact
  WireContinuesFeed
PROPERTIES
  EveryRowIsShown
