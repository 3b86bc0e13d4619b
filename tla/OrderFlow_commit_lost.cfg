SPECIFICATION Spec
CONSTANTS
  r1 = r1
  r2 = r2
  r3 = r3
  u1 = u1
  u2 = u2
  None = None
  Requests <- MCRivals
  Users <- MCUsers
  UserOf <- MCRivalsOf
  Stock = 1
  Workers = {w1}
  Attempts = 2
  MaxStalled = 1
  Faults = {"CommitReplyLost", "TransactionFails"}
PROPERTIES
  CompensatesOnlyUnsold
