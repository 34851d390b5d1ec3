\* Two steps, the first and the last; two sweeps; one fault; a start request that may be repeated.
CONSTANTS
  Operator = {o1}
  Push = {p1, p2}
  Sweeper = {s1, s2}
  Nobody = nobody
  TotalSteps = 2
  MaxCopies = 4
  MaxFaults = 1
SPECIFICATION FairSpec
CHECK_DEADLOCK FALSE
INVARIANTS
  StepsChain
  PublishedWasSent
PROPERTIES
  ImplementsProgress
  CampaignEnds
