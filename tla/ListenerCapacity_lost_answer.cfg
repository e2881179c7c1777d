CONSTANTS
  Pools = {a, b}
  HostLimit = 1
  Counts = {0}
  NoLimit = NoLimit
SYMMETRY PoolSymmetry
SPECIFICATION Spec
INVARIANTS
  NeverExposesOneSlotTwice
