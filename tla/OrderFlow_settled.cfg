SPECIFICATION FairSpec
CONSTANTS
  r1 = r1
  r2 = r2
  r3 = r3
  u1 = u1
  u2 = u2
  None = None
  Requests <- MCRequests
  Users <- MCUsers
  UserOf <- MCUserOf
  Stock = 2
  Workers = {w1, w2}
  Attempts = 2
  MaxStalled = 1
  Faults <- LockKeptFaults
INVARIANTS
  NoLeakAtRest
PROPERTIES
  NoAdmissionAfterSale
  EverythingEnds
