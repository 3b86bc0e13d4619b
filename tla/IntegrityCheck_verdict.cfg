SPECIFICATION IntegritySpec
CONSTANTS
  r1 = r1
  r2 = r2
  u1 = u1
  u2 = u2
  None = None
  Requests <- MCRequests
  Users <- MCUsers
  UserOf <- MCUserOf
  Stock = 1
  Workers = {w1, w2}
  Attempts = 1
  MaxStalled = 1
  Faults <- DriftFaults
  ReadFaults <- AllReads
SYMMETRY SaleSymmetry
INVARIANTS
  NeverOversold
  CheckInvariant
  DriftFound
PROPERTIES
  CriticalIsTrue
