SPECIFICATION ApartSpec
CONSTANTS
  Decoy1 = d1
  Route1 = r1
  Slot1 = s1
  Slot2 = s2
  Lease = {d1, r1}
  Decoy = {d1}
  Observable = {r1}
  SlotOf <- SharedSlots
  Sweep2 = w2
  Request2 = e2
  Key2 = k2
  Sweep = {w1, w2}
  Request = {e1, e2}
  Key = {k1, k2}
  Nobody = nobody
  MaxAttempts = 2
  MaxClaims = 2
  MaxFaults = 1
INVARIANTS ReleasedIsAbsent CompletedIsAbsent
PROPERTIES StaleSweepsChangeNothing EveryResourceGoes EveryLeaseSettles
