---------------------------- MODULE MCLeaseRelease ----------------------------
(***************************************************************************)
(* LeaseRelease for TLC: which lease sits in which slot, and which of the  *)
(* competitors for a lease come together.  ApartSpec is FairSpec with      *)
(* fewer behaviours: what it leaves out are combinations, never the end of *)
(* something that has begun.                                               *)
(***************************************************************************)
EXTENDS LeaseRelease, TLC

CONSTANTS Slot1, Slot2, Decoy1, Route1, Sweep2, Request2, Key2

\* A decoy has a slot of its own.
SharedSlots == [l \in Lease |-> IF l \in Decoy THEN Slot1 ELSE Slot2]

SecondSweep   == lock = Sweep2 \/ sweep[Sweep2].pc # "idle"
SecondClaim   == claims > 1
DecoyDeployed == \E d \in Decoy : op[d] # "new"
BothDeployed  == \A l \in Lease : op[l] # "new"

\* The second sweep, the second emergency claim and the decoy do not come together, nor a
\* failed call with both leases; the second request and the second key are those of the
\* second claim.
Apart ==
  /\ ~(SecondSweep /\ SecondClaim) /\ ~(SecondSweep /\ DecoyDeployed)
  /\ ~(SecondClaim /\ DecoyDeployed) /\ ~(BothDeployed /\ faults > 0)
  /\ req[Request2].pc # "idle" \/ rec[Key2].status # "NONE" => SecondClaim

ApartSpec == Init /\ [][Next /\ Apart']_vars /\ Fairness
=============================================================================
