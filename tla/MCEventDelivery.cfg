\* One event, two messages (one may be the replay of the other), two of every actor.
CONSTANTS
  Event = {e1}
  Transport = {m1, m2}
  None = none
  Push = {p1, p2}
  Replay = {r1, r2}
  MaxDeliveries = 2
  MaxFaults = 2
SPECIFICATION FairSpec
CHECK_DEADLOCK FALSE
INVARIANTS
  OneWorkflowPerMessage
  OneReplayPerLetter
  LetterTellsTruth
PROPERTIES
  ImplementsFate
  WatchedSettles
