SPECIFICATION CatalogSpec
CONSTANTS
  Procs = {w1}
  Pages = {p1}
  MaxVersion = 3
  CacheFaults = {"ThrottleError", "FlushError", "Evict"}
  Readers = {b1}
  Apis <- MCApis
  ApiOf <- MCApiOf
  MaxStock = 0
INVARIANTS
  FlushInvariant
  EverySaleTried
