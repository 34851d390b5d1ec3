\* One process and one operation that costs money, no failed call.
CONSTANTS
  Worker = {w1}
  Op = {decoy}
  ResourceOp = {decoy}
  SharedInventory = TRUE
  MaxFaults = 0
SPECIFICATION Spec
CHECK_DEADLOCK FALSE
INVARIANTS
  TerminalIsCharged
