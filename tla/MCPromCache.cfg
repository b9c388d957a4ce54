SPECIFICATION Spec
CONSTANTS
  Callers = {c1, c2, c3}
  NoCaller = NoCaller
  Promqls = {p1}
  Ranges = {r1}
  InstantTTL = 2
  RangeTTL = 1
  MaxEntries = 2
  MaxTime = 3
  MaxLag = 1
  NoEntry = NoEntry
  NoRequest = NoRequest
SYMMETRY CallerSymmetry
INVARIANTS
  SingleFlight
  Bounded
  FreshAnswer
  NoOrphans
PROPERTY
