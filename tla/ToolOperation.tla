--------------------------- MODULE ToolOperation ---------------------------
(***************************************************************************)
(* What the tool gateway promises for each idempotency key: the operation  *)
(* is rejected without an effect, or has its effect once and may then be   *)
(* recorded as executed.  Processes, budgets and retries are absent.       *)
(***************************************************************************)
EXTENDS Naturals

CONSTANT Op

VARIABLES phase, effects

operationVars == <<phase, effects>>

Init ==
  /\ phase = [op \in Op |-> "OPEN"]
  /\ effects = [op \in Op |-> 0]

Reject(op) ==
  /\ phase[op] = "OPEN"
  /\ effects[op] = 0
  /\ phase' = [phase EXCEPT ![op] = "REJECTED"]
  /\ UNCHANGED effects

TakeEffect(op) ==
  /\ phase[op] = "OPEN"
  /\ effects[op] = 0
  /\ effects' = [effects EXCEPT ![op] = 1]
  /\ UNCHANGED phase

Complete(op) ==
  /\ phase[op] = "OPEN"
  /\ effects[op] = 1
  /\ phase' = [phase EXCEPT ![op] = "DONE"]
  /\ UNCHANGED effects

Next == \E op \in Op : Reject(op) \/ TakeEffect(op) \/ Complete(op)

Spec == Init /\ [][Next]_operationVars
=============================================================================
