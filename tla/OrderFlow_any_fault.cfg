SPECIFICATION Spec
CONSTANTS
  r1 = r1
  r2 = r2
  r3 = r3
  u1 = u1
  u2 = u2
  None = None
  Requests <- MCTwice
  Users <- MCOne
  UserOf <- MCTwiceOf
  Stock = 2
  Workers = {w1, w2}
  Attempts = 1
  MaxStalled = 1
  Faults <- AllFaults
SYMMETRY TwiceSymmetry
INVARIANTS
  WriteInvariant
  OneOrderPerUser
  BoughtMeansOrdered
  LockProvesClaim
PROPERTIES
  OnlyHolderUnlocks
