\* One event of two attempts and a daily limit of one, worked on by two calls around
\* the change of the day, with the cleanup job.
CONSTANTS
  Worker = {w1, w2}
  Event = {e1}
  MaxCalls = 2
  Room = 1
  NumDays = 2
  MaxFaults = 1
SPECIFICATION FairSpec
CHECK_DEADLOCK FALSE
INVARIANTS
  OneCallPerSlot
  CallsAreCharged
  OnTimeSpendWithinLimit
PROPERTIES
  EverySlotSettles
