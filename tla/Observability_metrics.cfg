SPECIFICATION ObsFairSpec
CONSTANTS
  None = None
  Instances = {a1, a2}
  Events = {e1, e2}
  Readers = {p1}
  Faults <- AllFaults
  MaxFaults = 1
  MaxSent = 2
INVARIANTS
  CounterInvariant
  NeverOverstates
  TermKeepsCounts
PROPERTIES
  ResetClearsOwn
  CountsArrive
  PageCatchesUp
