CONSTANTS
  Pools = {a}
  HostLimit = 1
  Counts = {0}
  NoLimit = NoLimit
SPECIFICATION Spec
INVARIANTS
  NeverRetiresOnOneZeroPoll
