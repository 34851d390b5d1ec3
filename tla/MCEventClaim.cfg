\* Two events, two attempts each, and one more worker than there are events.
CONSTANTS
  Worker = {w1, w2, w3}
  NumEvents = 2
  MaxAttempts = 2
SPECIFICATION FairSpec
INVARIANTS
  DecidedExactlyOnce
  TokensNameOneClaim
PROPERTIES
  NoStaleDecision
  ImplementsOutcome
  EveryEventSettles
