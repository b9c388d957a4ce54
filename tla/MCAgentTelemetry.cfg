SPECIFICATION Spec
CONSTANTS
  Agents = {a1, a2}
  Offsets <- MCOffsets
  Intervals = {1, 3}
  TTL = 1
  Skew = 1
  Hour = 2
  SixHours = 3
  Cap = 4
  Delays = {0, 1}
  MaxPosts = 2
  MaxBoots = 1
  Nil = Nil
SYMMETRY Symmetry
INVARIANTS
  HealthyMeansHeard
  ClassFromProbe
PROPERTY
  OnlyNewsHeals
