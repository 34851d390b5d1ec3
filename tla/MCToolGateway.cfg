\* Two processes that see one inventory, an operation that creates a resource, one failed call.
CONSTANTS
  Worker = {w1, w2}
  Op = {decoy}
  ResourceOp = {decoy}
  SharedInventory = TRUE
  MaxFaults = 1
SPECIFICATION FairSpec
CHECK_DEADLOCK FALSE
INVARIANTS
  AtMostOneEffect
  TerminalIsProjected
  NoRefundOfEffects
PROPERTIES
  ImplementsOperation
  RetrierRepairs
