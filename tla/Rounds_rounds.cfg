SPECIFICATION RoundsSpec
CONSTANTS
  r1 = r1
  r2 = r2
  r3 = r3
  u1 = u1
  u2 = u2
  None = None
  Requests <- MCRequests
  Users <- MCUsers
  UserOf <- MCUserOf
  Stock = 1
  Workers = {w1}
  Attempts = 1
  MaxStalled = 1
  Faults = {"Trim"}
INVARIANTS
  RoundsInvariant
  SeedNeverAhead
  RoundSellsOut
PROPERTIES
  SeedAsSpecified
