SPECIFICATION Spec
CONSTANTS
  Keys = {k1, k2}
  Requests = {r1, r2}
  Limit = 2
  Window = 2
  MaxTime = 5
  Nil = Nil
SYMMETRY Symmetry
INVARIANTS
  BurstBound
PROPERTIES
  Implements
