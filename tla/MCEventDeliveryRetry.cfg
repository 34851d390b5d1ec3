\* Is a delivery that failed worked on again?
CONSTANTS
  Event = {e1}
  Transport = {m1, m2}
  None = none
  Push = {p1, p2}
  Replay = {r1, r2}
  MaxDeliveries = 2
  MaxFaults = 1
SPECIFICATION Spec
CHECK_DEADLOCK FALSE
INVARIANTS
  FailedDeliveryIsRetried
