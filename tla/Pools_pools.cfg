SPECIFICATION PoolFairSpec
CONSTANTS
  Slots = {w1}
  Probes = {p1}
  Checks = {c1}
  PoolSize = 2
  MaxStuck = 1
  MaxOutages = 1
INVARIANTS
  PoolInvariant
PROPERTIES
  NobodyWaitsForever
