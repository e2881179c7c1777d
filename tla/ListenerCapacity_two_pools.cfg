CONSTANTS
  Pools = {a, b}
  HostLimit = 1
  Counts = {0, 1}
  NoLimit = NoLimit
CONSTRAINTS Relevant JobsOfOnePool
SYMMETRY PoolSymmetry
SPECIFICATION Spec
INVARIANTS
  AcknowledgedIsTrue
  NoSlotExposedTwice
  QuiescenceIsReal
