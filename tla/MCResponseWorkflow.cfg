CONSTANTS
  MaxToolRequests = 4
  Current = 1
  MaxSignals = 2
  Feed <- MCFeed
  Answer <- MCAnswer
SPECIFICATION Spec
CHECK_DEADLOCK FALSE
INVARIANTS
  AuthorityIsBounded
  MandatoryIsExecuted
  PoliciesAgree
  ContextIsTruthful
