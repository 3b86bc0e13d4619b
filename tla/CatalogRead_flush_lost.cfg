SPECIFICATION CatalogSpec
CONSTANTS
  Procs = {w1, w2}
  Pages = {p1}
  MaxVersion = 2
  CacheFaults = {}
  Readers = {b1}
  Apis <- MCApis
  ApiOf <- MCApiOf
  MaxStock = 0
INVARIANTS
  EverySaleFlushed
