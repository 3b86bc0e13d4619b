SPECIFICATION FairCatalogSpec
CONSTANTS
  Procs = {w1}
  Pages = {p1}
  MaxVersion = 1
  CacheFaults <- AllCacheFaults
  Readers = {b1, b2}
  Apis <- MCApis
  ApiOf <- MCApiOf
  MaxStock = 1
INVARIANTS
  ReadInvariant
  FlightsAreLive
  StockIsLive
PROPERTIES
  EveryReadAnswered
  PagesBecomeFresh
