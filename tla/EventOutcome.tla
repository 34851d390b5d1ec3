---------------------------- MODULE EventOutcome ----------------------------
(***************************************************************************)
(* What the claim protocol promises its callers: each event is tried a     *)
(* bounded number of times and ends either DECIDED, once, or FAILED, and   *)
(* then only after the last try.  Workers, leases and tokens are absent.   *)
(***************************************************************************)
EXTENDS Naturals

CONSTANTS Event, MaxAttempts

VARIABLES outcome, tries

outcomeVars == <<outcome, tries>>

Init ==
  /\ outcome = [e \in Event |-> "OPEN"]
  /\ tries = [e \in Event |-> 0]

Try(e) ==
  /\ outcome[e] = "OPEN"
  /\ tries[e] < MaxAttempts
  /\ tries' = [tries EXCEPT ![e] = @ + 1]
  /\ UNCHANGED outcome

Decide(e) ==
  /\ outcome[e] = "OPEN"
  /\ tries[e] > 0
  /\ outcome' = [outcome EXCEPT ![e] = "DECIDED"]
  /\ UNCHANGED tries

\* One statement may give up any number of events together.
GiveUp(E) ==
  /\ \A e \in E : outcome[e] = "OPEN" /\ tries[e] = MaxAttempts
  /\ outcome' = [e \in Event |-> IF e \in E THEN "FAILED" ELSE outcome[e]]
  /\ UNCHANGED tries

Next ==
  \/ \E e \in Event : Try(e) \/ Decide(e)
  \/ \E E \in (SUBSET Event) \ {{}} : GiveUp(E)

Progress(e) ==
  \/ Try(e)
  \/ Decide(e)
  \/ \E E \in SUBSET Event : e \in E /\ GiveUp(E)

Spec == Init /\ [][Next]_outcomeVars

\* Each event keeps being tried until it is settled.
FairSpec == Spec /\ \A e \in Event : WF_outcomeVars(Progress(e))
=============================================================================
